--------------------------- MODULE BrokerSessions ---------------------------
(***************************************************************************)
(* The session of one broker and those who use it: BrokerSessionManager    *)
(* (brokers/session_manager.py) with its monitor thread, the session of    *)
(* MStockBroker (brokers/mstock.py), the remembered session on disk        *)
(* (brokers/remember_session.py), the expiry alert, and the login wake of  *)
(* PortfolioManager.  A token is a number, in the order they are issued; 0 *)
(* is none.  The manager's lock orders logins, logouts, marks and ticks: a *)
(* call that holds it is one step, and waits for a tick, which holds it    *)
(* from the status it reads to the end.  The store, the choice and the     *)
(* alert have no part in that lock, so that whatever touches one of them   *)
(* is a step of its own, in a tick too; and a rejected request clears the  *)
(* broker's token without it.  Who only reads the session does not wait    *)
(* here: a tick changes it in its first step or not at all.                *)
(***************************************************************************)
EXTENDS Naturals

CONSTANTS Books,      \* option runners priced by this broker
          Callers,    \* threads of the API
          Requests,   \* threads that call the broker with a token
          MaxEvents   \* bound: what people, the venue and the clock do, in all

Tokens == 1 .. MaxEvents

ASSUME SessionAssumption == MaxEvents \in Nat

VARIABLES
    issued,   \* how many tokens the broker has issued
    age,      \* of every token, by its expiry
    token,    \* the broker's _session_token
    forced,   \* the broker's _forced_expired
    last,     \* _last_observed_status
    alarm,    \* a broker_session_expired alert is open
    window,   \* the market window is open
    toggle,   \* "remember session today"
    saved,    \* the token in this broker's entry of the store
    others,   \* entries calls for other brokers have read and will write back
    caller,   \* where each API call is, and the token it is to save
    request,  \* where each request is, and the token it carries
    monitor,  \* where the tick is, the status it read, the token it is to save
    wake,     \* the wake in flight: where it is, the books it has still to do
    built,    \* there is a portfolio manager
    feed,     \* feed_state of every book
    refused,  \* history: books whose chain could not be acquired since the
              \* wake took its list
    events,
    ended,    \* history: tokens logged out, marked or found expired
    stray,    \* history: the entry was unwanted when it was written
    due,      \* history: a session was lost; "missed" if its page was
    dropped   \* history: the wake in flight, or the last one, was met by a
              \* login after it took its list

venue   == <<issued, age>>
session == <<token, forced>>
disk    == <<toggle, saved, others>>
fleet   == <<wake, built, feed, refused>>
history == <<ended, stray, due, dropped>>
vars == <<venue, session, last, alarm, window, disk, caller, request, monitor,
          fleet, events, history>>

Statuses == {"authenticated", "expiring_soon", "expired", "unauthenticated"}

TypeOK ==
    /\ age \in [Tokens -> {"fresh", "soon", "over"}]
    /\ ended \subseteq Tokens
    /\ token \in 0 .. issued /\ saved \in 0 .. issued
    /\ others \subseteq 0 .. issued
    /\ forced \in BOOLEAN /\ alarm \in BOOLEAN /\ window \in BOOLEAN
    /\ toggle \in BOOLEAN /\ stray \in BOOLEAN
    /\ last \in Statuses \cup {"none"}
    /\ events \in 0 .. MaxEvents /\ issued \in 0 .. events
    /\ caller \in [Callers -> [pc : {"idle", "verified", "resolve", "capture", "hold",
                                     "write", "notify", "hush", "drop"},
                               held : 0 .. issued, fit : BOOLEAN]]
    /\ \A c \in Callers : caller[c].held # 0 <=> caller[c].pc = "write"
    /\ request \in [Requests -> [pc : {"idle", "sent", "marked", "forget", "page",
                                       "close", "raise"}, held : 0 .. issued]]
    /\ monitor \in [pc : {"idle", "forget", "page", "close", "raise", "resolve", "remember",
                           "write", "notify"},
                    seen : Statuses, held : 0 .. issued, fit : BOOLEAN]
    /\ monitor.held # 0 <=> monitor.pc = "write"
    /\ wake \in [pc : {"idle", "started", "acting"}, todo : SUBSET Books]
    /\ feed \in [Books -> {"absent", "WAITING", "LIVE"}] /\ refused \subseteq Books
    /\ due \in {"no", "due", "missed"} /\ built \in BOOLEAN /\ dropped \in BOOLEAN

Idle    == [pc |-> "idle", held |-> 0]
Calm    == [pc |-> "idle", held |-> 0, fit |-> FALSE]
Resting == [pc |-> "idle", seen |-> "unauthenticated", held |-> 0, fit |-> FALSE]
Awake   == [pc |-> "idle", todo |-> {}]

Init ==
    /\ issued = 0 /\ age = [n \in Tokens |-> "fresh"]
    /\ token = 0 /\ forced = FALSE /\ last = "none" /\ alarm = FALSE
    /\ window \in BOOLEAN /\ toggle \in BOOLEAN /\ saved = 0 /\ others = {}
    /\ caller = [c \in Callers |-> Calm]
    /\ request = [q \in Requests |-> Idle]
    /\ monitor = Resting /\ wake = Awake /\ built = FALSE
    /\ feed \in [Books -> {"absent", "WAITING"}]  \* the state file
    /\ refused = {} /\ events = 0
    /\ ended = {} /\ stray = FALSE /\ due = "no" /\ dropped = FALSE

\* One of the events that are bounded.
Happens == events < MaxEvents /\ events' = events + 1
-----------------------------------------------------------------------------
(* The broker and the store *)

\* get_session_status.
Status == CASE token = 0 /\ forced          -> "expired"
            [] token = 0 /\ ~forced         -> "unauthenticated"
            [] token # 0 /\ age[token] = "over" -> "expired"
            [] token # 0 /\ age[token] = "soon" -> "expiring_soon"
            [] OTHER                        -> "authenticated"

\* is_authenticated.
Valid == Status \in {"authenticated", "expiring_soon"}

\* The session ends by itself or by a rejection.
Lost == /\ ended' = ended \cup ({token} \ {0})
        /\ due' = IF token # 0 THEN "due" ELSE due

\* Who holds the manager's lock.
Ticking == monitor.pc \notin {"idle", "notify"}

\* Somebody saw no alert open and has yet to raise one, or to look.
Paging == \/ monitor.pc \in {"forget", "page", "close", "raise"}
          \/ \E q \in Requests : request[q].pc = "raise"

\* _resolve_session_alerts.
Resolved == /\ alarm' = FALSE
            /\ due' = IF due = "due" /\ Status # "expired" /\ ~Paging
                      THEN "missed" ELSE due

\* _raise_session_alert, which the market window holds back.
Raised == /\ alarm' = (alarm \/ window)
          /\ due' = IF due = "due" /\ Status # "expired" /\ ~alarm /\ ~window
                    THEN "missed" ELSE due

\* _prune: an expired entry is not kept.
Kept(v) == IF v # 0 /\ age[v] = "over" THEN 0 ELSE v

Unwanted(v) == v # 0 /\ (v \in ended \/ ~toggle)

\* save_session and delete_saved_session, of this broker's entry.  Who found the
\* choice on and took a token that was good has been overtaken if the entry
\* is unwanted by now.
SaveSession(v, fit) == saved' = Kept(v) /\ stray' = (Unwanted(Kept(v)) /\ fit)
DeleteSession  == saved' = 0 /\ stray' = FALSE

\* _notify_portfolio_authenticated.
Notify == IF wake.pc = "idle"
          THEN wake' = [Awake EXCEPT !.pc = "started"] /\ UNCHANGED dropped
          ELSE dropped' = TRUE /\ UNCHANGED wake
-----------------------------------------------------------------------------
(* Calls of the API *)

At(c, pc)   == caller[c].pc = pc
Goes(c, pc) == caller' = [caller EXCEPT ![c] = [pc |-> pc, held |-> 0, fit |-> FALSE]]
Ends(c)     == caller' = [caller EXCEPT ![c] = Calm]

\* verify_totp, the broker's half: a new token.
VerifyTotp(c) ==
    /\ Happens
    /\ At(c, "idle") /\ ~Ticking
    /\ issued' = issued + 1
    /\ token' = issued + 1 /\ forced' = FALSE
    /\ due' = "no"
    /\ Goes(c, "verified")
    /\ UNCHANGED <<age, last, alarm, window, disk, request, monitor, fleet,
                   ended, stray, dropped>>

\* ... the manager's half, under the lock again, and what follows without it.
ResetCycle(c) ==
    /\ At(c, "verified") /\ ~Ticking
    /\ last' = "authenticated"
    /\ Goes(c, "resolve")
    /\ UNCHANGED <<venue, session, alarm, window, disk, request, monitor, fleet,
                   events, history>>

ResolveAlerts(c) ==
    /\ At(c, "resolve")
    /\ Resolved
    /\ Goes(c, "capture")
    /\ UNCHANGED <<venue, session, last, window, disk, request, monitor, fleet,
                   events, ended, stray, dropped>>

\* Mutant: a login that is not to be remembered wakes nobody.
CaptureReturns(c) ==
    /\ At(c, "capture")
    /\ IF toggle THEN caller' = [caller EXCEPT ![c] = [pc |-> "hold", held |-> 0, fit |-> toggle]]
                 ELSE Ends(c)
    /\ UNCHANGED <<venue, session, last, alarm, window, disk, request, monitor, fleet,
                   events, history>>

\* _save_remembered_session: the choice ...
Capture(c) ==
    /\ At(c, "capture")
    /\ IF toggle THEN caller' = [caller EXCEPT ![c] = [pc |-> "hold", held |-> 0, fit |-> toggle]]
                 ELSE Goes(c, "notify")
    /\ UNCHANGED <<venue, session, last, alarm, window, disk, request, monitor, fleet,
                   events, history>>

\* Mutant: without a look at the session.
HoldBlind(c) ==
    /\ At(c, "hold") /\ ~Ticking
    /\ caller' = [caller EXCEPT ![c] = [pc |-> "write", held |-> token,
                                       fit |-> @.fit /\ token \notin ended]]
    /\ UNCHANGED <<venue, session, last, alarm, window, disk, request, monitor, fleet,
                   events, history>>

\* ... and the token, under the lock.
Hold(c) ==
    /\ At(c, "hold") /\ ~Ticking
    /\ IF Valid THEN caller' = [caller EXCEPT ![c] = [pc |-> "write", held |-> token,
                                                     fit |-> @.fit /\ token \notin ended]]
                ELSE Goes(c, "notify")
    /\ UNCHANGED <<venue, session, last, alarm, window, disk, request, monitor, fleet,
                   events, history>>

WriteEntry(c) ==
    /\ At(c, "write")
    /\ SaveSession(caller[c].held, caller[c].fit)
    /\ Goes(c, "notify")
    /\ UNCHANGED <<venue, session, last, alarm, window, toggle, others, request, monitor,
                   fleet, events, ended, due, dropped>>

NotifyPortfolio(c) ==
    /\ At(c, "notify")
    /\ Notify
    /\ Ends(c)
    /\ UNCHANGED <<venue, session, last, alarm, window, disk, request, monitor, built,
                   feed, refused, events, ended, stray, due>>

\* logout, under the lock, then its alerts, then its entry.
Logout(c) ==
    /\ Happens
    /\ At(c, "idle") /\ ~Ticking
    /\ token' = 0 /\ forced' = FALSE /\ last' = "none"
    /\ ended' = ended \cup ({token} \ {0}) /\ due' = "no"
    /\ Goes(c, "hush")
    /\ UNCHANGED <<venue, alarm, window, disk, request, monitor, fleet,
                   stray, dropped>>

HushAlerts(c) ==
    /\ At(c, "hush")
    /\ Resolved
    /\ Goes(c, "drop")
    /\ UNCHANGED <<venue, session, last, window, disk, request, monitor, fleet,
                   events, ended, stray, dropped>>

DropEntry(c) ==
    /\ At(c, "drop")
    /\ DeleteSession
    /\ Ends(c)
    /\ UNCHANGED <<venue, session, last, alarm, window, toggle, others, request, monitor,
                   fleet, events, ended, due, dropped>>

\* set_toggle: off deletes the store after it wrote the choice.
SetToggle(c) ==
    /\ Happens
    /\ At(c, "idle")
    /\ toggle' = ~toggle
    /\ IF toggle THEN Goes(c, "drop") ELSE UNCHANGED caller
    /\ UNCHANGED <<venue, session, last, alarm, window, saved, others, request, monitor,
                   fleet, history>>

\* The store is one file of all brokers: a save or a deletion for another
\* broker reads it and writes it back with the entry of this one as it was.
OtherReads ==
    /\ Happens
    /\ others = {}
    /\ others' = {saved}
    /\ UNCHANGED <<venue, session, last, alarm, window, toggle, saved, caller, request,
                   monitor, fleet, history>>

OtherWrites ==
    /\ \E v \in others : SaveSession(v, TRUE)
    /\ others' = {}
    /\ UNCHANGED <<venue, session, last, alarm, window, toggle, caller, request, monitor,
                   fleet, events, ended, due, dropped>>
-----------------------------------------------------------------------------
(* Requests *)

\* A request takes the token.  Only one the venue will reject leaves a trace:
\* when, and why, is up to the venue.
Send(q) ==
    /\ Happens
    /\ request[q].pc = "idle" /\ Valid
    /\ request' = [request EXCEPT ![q] = [pc |-> "sent", held |-> token]]
    /\ UNCHANGED <<venue, session, last, alarm, window, disk, caller, monitor, fleet,
                   history>>

\* _trip_auth_kill_latch of the broker clears the session at once and then
\* tells the manager; that of the bar feed only tells it.
Rejected(q) ==
    /\ request[q].pc = "sent"
    /\ request' = [request EXCEPT ![q].pc = "marked"]
    /\ \/ token' = 0 /\ forced' = TRUE /\ Lost
       \/ UNCHANGED <<session, ended, due>>
    /\ UNCHANGED <<venue, last, alarm, window, disk, caller, monitor, fleet, events,
                   stray, dropped>>

\* mark_session_expired under the lock, then the entry, then the alert.
MarkExpired(q) ==
    /\ request[q].pc = "marked" /\ ~Ticking
    /\ token' = 0 /\ forced' = TRUE /\ last' = "expired" /\ Lost
    /\ request' = [request EXCEPT ![q] = [pc |-> "forget", held |-> 0]]
    /\ UNCHANGED <<venue, alarm, window, disk, caller, monitor, fleet, events, stray,
                   dropped>>

\* Mutant: the entry is left to the monitor.
ForgetSkips(q) ==
    /\ request[q].pc = "forget"
    /\ request' = [request EXCEPT ![q].pc = "page"]
    /\ UNCHANGED <<venue, session, last, alarm, window, disk, caller, monitor, fleet,
                   events, history>>

ForgetEntry(q) ==
    /\ request[q].pc = "forget"
    /\ DeleteSession
    /\ request' = [request EXCEPT ![q].pc = "page"]
    /\ UNCHANGED <<venue, session, last, alarm, window, toggle, others, caller, monitor,
                   fleet, events, ended, due, dropped>>

\* The alert, if none is open: what is open is closed, and one is raised.
PageOperator(q) ==
    /\ request[q].pc = "page"
    /\ request' = [request EXCEPT ![q].pc = IF alarm THEN "idle" ELSE "close"]
    /\ UNCHANGED <<venue, session, last, alarm, window, disk, caller, monitor, fleet,
                   events, history>>

PageCloses(q) ==
    /\ request[q].pc = "close"
    /\ alarm' = FALSE
    /\ request' = [request EXCEPT ![q].pc = "raise"]
    /\ UNCHANGED <<venue, session, last, window, disk, caller, monitor, fleet, events,
                   history>>

PageRaises(q) ==
    /\ request[q].pc = "raise"
    /\ Raised
    /\ request' = [request EXCEPT ![q] = Idle]
    /\ UNCHANGED <<venue, session, last, window, disk, caller, monitor, fleet, events,
                   ended, stray, dropped>>
-----------------------------------------------------------------------------
(* The monitor: a tick of _poll_once, all of it under the lock *)

Turns(pc) == monitor' = [monitor EXCEPT !.pc = pc]

\* The tick is over: what it read is what was seen last; a session seen for the
\* first time is told of once the lock is released.
TickOver ==
    /\ last' = monitor.seen
    /\ monitor' = [Resting EXCEPT !.pc =
         IF monitor.seen = "authenticated" /\ last # "authenticated" THEN "notify" ELSE "idle"]

\* The status it reads; an expired session is cleared, then its entry deleted.
TickExpired ==
    /\ Status = "expired"
    /\ token' = 0 /\ forced' = FALSE /\ Lost
    /\ monitor' = [Resting EXCEPT !.pc = "forget", !.seen = Status]
    /\ UNCHANGED last

TickValid ==
    /\ Valid
    /\ monitor' = [Resting EXCEPT !.pc = IF Status = "authenticated" THEN "resolve"
                                         ELSE "remember", !.seen = Status]
    /\ UNCHANGED <<session, last, ended, due>>

TickLoggedOut ==
    /\ Status = "unauthenticated"
    /\ last' = Status
    /\ UNCHANGED <<session, ended, due, monitor>>

Tick ==
    /\ monitor.pc = "idle"
    /\ TickExpired \/ TickValid \/ TickLoggedOut
    /\ UNCHANGED <<venue, alarm, window, disk, caller, request, fleet, events, stray, dropped>>

TickForgets ==
    /\ monitor.pc = "forget"
    /\ DeleteSession
    /\ Turns("page")
    /\ UNCHANGED <<venue, session, last, alarm, window, toggle, others, caller, request,
                   fleet, events, ended, due, dropped>>

\* A session that is not about to expire: its alerts are closed.
TickResolves ==
    /\ monitor.pc = "resolve"
    /\ Resolved
    /\ Turns("remember")
    /\ UNCHANGED <<venue, session, last, window, disk, caller, request, fleet, events, ended,
                   stray, dropped>>

\* Mutant: the page only on the first sight.
TickPagesOnce ==
    /\ monitor.pc = "page"
    /\ IF alarm \/ last = "expired" THEN TickOver ELSE Turns("close") /\ UNCHANGED last
    /\ UNCHANGED <<venue, session, alarm, window, disk, caller, request, fleet, events,
                   history>>

\* As a mark pages, PageOperator: an alert that is open is enough.
TickPages ==
    /\ monitor.pc = "page"
    /\ IF alarm THEN TickOver ELSE Turns("close") /\ UNCHANGED last
    /\ UNCHANGED <<venue, session, alarm, window, disk, caller, request, fleet, events,
                   history>>

TickCloses ==
    /\ monitor.pc = "close"
    /\ alarm' = FALSE
    /\ Turns("raise")
    /\ UNCHANGED <<venue, session, last, window, disk, caller, request, fleet, events,
                   history>>

TickRaises ==
    /\ monitor.pc = "raise"
    /\ Raised
    /\ TickOver
    /\ UNCHANGED <<venue, session, window, disk, caller, request, fleet, events, ended,
                   stray, dropped>>

\* The refresh: the choice and the token, which a rejection may have cleared
\* since; the lock the tick holds keeps neither as it is until the write.
TickRemembers ==
    /\ monitor.pc = "remember"
    /\ IF toggle /\ Valid
       THEN /\ monitor' = [monitor EXCEPT !.pc = "write", !.held = token,
                                         !.fit = toggle /\ token \notin ended]
            /\ UNCHANGED last
       ELSE TickOver
    /\ UNCHANGED <<venue, session, alarm, window, disk, caller, request, fleet, events,
                   history>>

TickWrites ==
    /\ monitor.pc = "write"
    /\ SaveSession(monitor.held, monitor.fit)
    /\ TickOver
    /\ UNCHANGED <<venue, session, alarm, window, toggle, others, caller, request, fleet,
                   events, ended, due, dropped>>

TickNotifies ==
    /\ monitor.pc = "notify"
    /\ Notify
    /\ monitor' = Resting
    /\ UNCHANGED <<venue, session, last, alarm, window, disk, caller, request, built, feed,
                   refused, events, ended, stray, due>>

Ticks == \/ Tick \/ TickForgets \/ TickPages \/ TickCloses \/ TickRaises
         \/ TickResolves \/ TickRemembers \/ TickWrites \/ TickNotifies
-----------------------------------------------------------------------------
(* The login wake and the books *)

\* on_broker_authenticated takes its list under the manager's lock; without a
\* manager there is nothing to wake.
WakeTakesList ==
    /\ wake.pc = "started"
    /\ wake' = [pc |-> "acting",
                todo |-> {k \in Books : built /\ feed[k] = "WAITING"}]
    /\ dropped' = FALSE /\ refused' = {}
    /\ UNCHANGED <<venue, session, last, alarm, window, disk, caller, request, monitor,
                   built, feed, events, ended, stray, due>>

\* Mutant: a session about to expire is none.
UpgradedFresh(k) ==
    \/ /\ feed' = [feed EXCEPT ![k] = IF @ = "WAITING" /\ Status = "authenticated"
                                      THEN "LIVE" ELSE @]
       /\ UNCHANGED refused
    \/ /\ feed[k] = "WAITING" /\ Valid
       /\ refused' = refused \cup {k} /\ UNCHANGED feed

\* _maybe_upgrade_to_live_chain, off the stub; the acquire of the chain may
\* fail, and leaves the book as it was.
Upgraded(k) ==
    \/ /\ feed' = [feed EXCEPT ![k] = IF @ = "WAITING" /\ Valid THEN "LIVE" ELSE @]
       /\ UNCHANGED refused
    \/ /\ feed[k] = "WAITING" /\ Valid
       /\ refused' = refused \cup {k} /\ UNCHANGED feed

WakeBook(k) ==
    /\ wake.pc = "acting" /\ k \in wake.todo
    /\ Upgraded(k)
    /\ wake' = [wake EXCEPT !.todo = @ \ {k}]
    /\ UNCHANGED <<venue, session, last, alarm, window, disk, caller, request, monitor,
                   built, events, history>>

\* Before it wakes the books the wake reconciles positions with the venue, and
\* after it marks them and runs the risk pass: only at the end of all that may
\* another wake of this broker start.
WakeEnds ==
    /\ wake.pc = "acting" /\ wake.todo = {}
    /\ wake' = Awake
    /\ UNCHANGED <<venue, session, last, alarm, window, disk, caller, request, monitor,
                   built, feed, refused, events, history>>

Constructed == IF Valid THEN "LIVE" ELSE "WAITING"

\* The manager is built on first use, with the books of its state file; who
\* asks for it meanwhile, a wake among them, waits for the lock it is built
\* under.  A book whose chain cannot be acquired is parked, and absent here.
Build ==
    /\ ~built /\ built' = TRUE
    /\ \E parked \in SUBSET {k \in Books : Valid /\ feed[k] # "absent"} :
          feed' = [k \in Books |-> IF feed[k] = "absent" \/ k \in parked
                                  THEN "absent" ELSE Constructed]
    /\ dropped' = FALSE /\ refused' = {}
    /\ UNCHANGED <<venue, session, last, alarm, window, disk, caller, request, monitor,
                   wake, events, ended, stray, due>>

\* add_runner.
Spawn(k) ==
    /\ built /\ feed[k] = "absent"
    /\ feed' = [feed EXCEPT ![k] = Constructed]
    /\ UNCHANGED <<venue, session, last, alarm, window, disk, caller, request, monitor,
                   wake, built, refused, events, history>>

\* StrategyRunner.resume and start.
Resume(k) ==
    /\ built /\ feed[k] = "WAITING" /\ Valid
    /\ Upgraded(k)
    /\ UNCHANGED <<venue, session, last, alarm, window, disk, caller, request, monitor,
                   wake, built, events, history>>

\* remove_runner; a wake that has the runner on its list goes on with an
\* object nobody holds any more.
Remove(k) ==
    /\ Happens
    /\ built /\ feed[k] # "absent"
    /\ feed' = [feed EXCEPT ![k] = "absent"]
    /\ wake' = [wake EXCEPT !.todo = @ \ {k}]
    /\ refused' = refused \ {k}
    /\ UNCHANGED <<venue, session, last, alarm, window, disk, caller, request, monitor,
                   built, history>>
-----------------------------------------------------------------------------
(* Time, the venue, the process *)

Age(n) ==
    /\ Happens
    /\ n <= issued /\ age[n] # "over"
    /\ age' = [age EXCEPT ![n] = IF @ = "fresh" THEN "soon" ELSE "over"]
    /\ UNCHANGED <<issued, session, last, alarm, window, disk, caller, request,
                   monitor, fleet, history>>

TurnWindow ==
    /\ Happens
    /\ window' = ~window
    /\ UNCHANGED <<venue, session, last, alarm, disk, caller, request, monitor, fleet, history>>

\* The process dies at any point and comes back with what the store holds, if
\* the choice is on; a session that is restored is told of like a login.
Restart ==
    /\ Happens
    /\ token' = IF toggle THEN Kept(saved) ELSE 0
    /\ saved' = IF toggle THEN Kept(saved) ELSE saved
    /\ forced' = FALSE /\ last' = "none" /\ alarm' = FALSE /\ others' = {}
    /\ caller' = [c \in Callers |-> Calm]
    /\ request' = [q \in Requests |-> Idle]
    /\ monitor' = Resting /\ built' = FALSE /\ refused' = {}
    /\ wake' = IF token' = 0 THEN Awake ELSE [Awake EXCEPT !.pc = "started"]
    /\ ended' = ended \ {token'}
    /\ stray' = (saved' # 0 /\ ~toggle)
    /\ due' = "no" /\ dropped' = FALSE
    /\ UNCHANGED <<venue, window, toggle, feed>>

Calls(c) ==
    \/ ResetCycle(c) \/ ResolveAlerts(c) \/ Capture(c) \/ Hold(c) \/ WriteEntry(c)
    \/ NotifyPortfolio(c) \/ HushAlerts(c) \/ DropEntry(c)

Marks(q) ==
    \/ MarkExpired(q) \/ ForgetEntry(q)
    \/ PageOperator(q) \/ PageCloses(q) \/ PageRaises(q)

Wakes == WakeTakesList \/ (\E k \in Books : WakeBook(k)) \/ WakeEnds

Next ==
    \/ \E c \in Callers : VerifyTotp(c) \/ Logout(c) \/ SetToggle(c) \/ Calls(c)
    \/ OtherReads \/ OtherWrites
    \/ \E q \in Requests : Send(q) \/ Rejected(q) \/ Marks(q)
    \/ Ticks
    \/ Wakes \/ Build
    \/ \E k \in Books : Spawn(k) \/ Resume(k) \/ Remove(k)
    \/ \E n \in Tokens : Age(n)
    \/ TurnWindow \/ Restart

Spec == Init /\ [][Next]_vars

\* The monitor ticks for ever; a call and a wake that began go on, and a call
\* gets the lock, which a tick gives back.
FairSpec ==
    /\ Spec
    /\ WF_vars(Ticks)
    /\ \A c \in Callers : SF_vars(Calls(c))
    /\ WF_vars(Wakes)
-----------------------------------------------------------------------------
(* Properties *)

\* Somebody is about to delete the remembered session.
Deleting == \/ monitor.pc = "forget"
            \/ \E c \in Callers : caller[c].pc \in {"hush", "drop"}
            \/ \E q \in Requests : request[q].pc \in {"marked", "forget"}

\* The store holds no session that was logged out, rejected or found expired,
\* and none while the choice is off, longer than the call, the mark or the tick
\* that ended it takes; unless it was written by a save that found the choice
\* on and the session good and was overtaken: a login's or the monitor's
\* refresh (session_manager.py:952-963), neither of which reads and writes
\* under a lock the choice or a deletion takes, or another broker's save, which
\* writes back the entry it read (remember_session.py:16, session_manager.py:608).
EndedIsForgotten == Unwanted(saved) => Deleting \/ stray

\* Who will still see to it that a waiting book gets the session.
Waker(k) ==
    \/ \E c \in Callers : caller[c].pc \in {"verified", "resolve", "capture", "hold", "write",
                                           "notify"}
    \/ wake.pc = "started"
    \/ wake.pc = "acting" /\ k \in wake.todo

Left(k) == built /\ feed[k] = "WAITING" /\ Valid /\ ~Waker(k)

\* No book waits for a session that is there without somebody on the way to
\* wake it, unless the notification of a login came to nothing beside a wake
\* that had its list already (session_manager.py:327), or the wake came and the
\* chain could not be acquired (paper_runner.py:2153).
WaitingHasWaker == \A k \in Books : Left(k) => dropped \/ k \in refused

\* A session lost to an expiry or a rejection is paged, or about to be, or is
\* still seen as expired by the next tick, however the look, the close and the
\* raise of marks, logins and ticks interleave; it is missed only where the
\* market window holds the page back, or a login or logout under way closes it,
\* with nobody left to see the expiry (session_manager.py:152).
LossIsPaged == due = "due" => alarm \/ Status = "expired" \/ Paging

\* A waiting book is priced once the session is there to stay, unless its
\* notification was dropped or its chain could not be acquired.
BooksWake ==
    \A k \in Books :
        (built /\ feed[k] = "WAITING" /\ Valid /\ ~dropped /\ k \notin refused)
            ~> (feed[k] # "WAITING" \/ ~Valid \/ dropped \/ k \in refused \/ ~built)
-----------------------------------------------------------------------------
(* What comments say, and the code does not do *)

\* "A wake for this broker is already running; it will see the same session
\* this one would have" (session_manager.py:339).
WakeSeesTheSession ==
    \A k \in Books :
        Left(k) => monitor.pc # "idle" \/ wake.pc # "idle" \/ k \in refused

\* "An expiry that happened outside the market window still gets reported at
\* the next open" (session_manager.py:1040).
NoLossIsMissed ==
    due = "missed" => monitor.pc # "idle" \/ \E q \in Requests : request[q].pc # "idle"

\* "When a broker rejects an active token" (mark_session_expired): what a
\* rejection ends is the session that was rejected.
KillsTheRejected ==
    [][token # 0 /\ token' = 0 /\ forced' => \E q \in Requests : request[q].held = token]_vars

\* "Keeping a dead session on disk after the user said 'log out' is wrong"
\* (logout), "the file is deleted immediately and no further saves happen"
\* (remember_session.py:18).
NothingIsKept ==
    [][saved' \notin {0, saved} /\ Unwanted(saved') => Deleting \/ Status = "expired"]_vars
=============================================================================
