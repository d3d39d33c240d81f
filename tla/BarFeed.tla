------------------------------- MODULE BarFeed -------------------------------
(***************************************************************************)
(* The live bar feed of one broker and the runners it drives:              *)
(* _BrokerBarFeedBase (forward/feed_registry.py) with its poll thread, its *)
(* websocket path and the shared `_last_ts`, and the part of               *)
(* PortfolioManager that subscribes symbols and keeps the thread in step   *)
(* with the fleet.  A bar is its symbol and its minute.  The manager's     *)
(* lock makes an operator's call one step; a poll holds no lock while it   *)
(* fetches and between accepting a bar and delivering it.  The market is   *)
(* open throughout; the runners trade minute bars.                         *)
(***************************************************************************)
EXTENDS Naturals

CONSTANTS Runners,         \* the runners whose source is this broker
          Paper,           \* those of them in the paper bucket
          Symbols,
          Watches,         \* the symbols of each runner's config
          Threads,         \* identities of poll threads: a bound
          HasWs,           \* mStock's ticks also come by websocket
          SyncsOnControl,  \* the source is mStock
          MaxMinute, MaxCrashes  \* bounds

Statuses == {"absent", "STOPPED", "PAUSED", "RUNNING"}

ASSUME FeedAssumption ==
    /\ Paper \subseteq Runners
    /\ Watches \in [Runners -> SUBSET Symbols]
    /\ HasWs \in BOOLEAN /\ SyncsOnControl \in BOOLEAN
    /\ HasWs => SyncsOnControl
    /\ MaxMinute \in Nat \ {0} /\ MaxCrashes \in Nat

VARIABLES
    now,       \* the minute that is forming
    crashes,
    status,    \* of every runner; "absent" is not in _runners
    last,      \* _last_bar_ts of every runner
    symbols,   \* the feed's _symbols
    lastTs,    \* the feed's _last_ts; 0 is no entry
    stop,      \* the feed's _stop event
    handle,    \* the feed's _thread, as a set of at most one
    thread,    \* every poll thread: where it is, what is left of its sweep, its bar
    attached,  \* the websocket's listener is the manager's
    forming,   \* the bar builder's open minute; 0 is none
    ws         \* the tick thread: where it is, the bar it carries

fleet == <<status, last>>
feed  == <<symbols, lastTs, stop, handle, thread>>
vars  == <<now, crashes, fleet, feed, attached, forming, ws>>

Bars   == Symbols \X Nat
Poller == [pc : {"ended", "loop", "sweep", "got", "push"}, todo : SUBSET Symbols, bar : SUBSET Bars]
Ticker == [pc : {"idle", "got", "push"}, bar : SUBSET Bars]

TypeOK ==
    /\ now \in Nat /\ crashes \in Nat
    /\ status \in [Runners -> Statuses]
    /\ last \in [Runners -> [Symbols -> Nat]]
    /\ symbols \subseteq Symbols
    /\ lastTs \in [Symbols -> Nat]
    /\ stop \in BOOLEAN /\ attached \in BOOLEAN
    /\ handle \subseteq Threads
    /\ thread \in [Threads -> Poller]
    /\ forming \in [Symbols -> Nat]
    /\ ws \in Ticker

Ended == [pc |-> "ended", todo |-> {}, bar |-> {}]
Loop  == [pc |-> "loop", todo |-> {}, bar |-> {}]
Idle  == [pc |-> "idle", bar |-> {}]
NoBar == [s \in Symbols |-> 0]

Init ==
    /\ now = 1 /\ crashes = 0
    /\ status = [r \in Runners |-> "absent"]
    /\ last = [r \in Runners |-> NoBar]
    /\ symbols = {} /\ lastTs = NoBar
    /\ stop = FALSE /\ handle = {} /\ thread = [t \in Threads |-> Ended]
    /\ attached = FALSE /\ forming = NoBar /\ ws = Idle
-----------------------------------------------------------------------------
(* The thread and the fleet. *)

HasLive(st) == \E r \in Runners : st[r] \in {"PAUSED", "RUNNING"}
Running     == \E t \in handle : thread[t].pc # "ended"

\* Mutant: the event that ended the last thread is not cleared.
StartUncleared ==
    \E t \in Threads :
       /\ thread[t].pc = "ended"
       /\ handle' = {t} /\ UNCHANGED stop
       /\ thread' = [thread EXCEPT ![t] = Loop]

StartFeed ==
    \E t \in Threads :
       /\ thread[t].pc = "ended"
       /\ handle' = {t} /\ stop' = FALSE
       /\ thread' = [thread EXCEPT ![t] = Loop]

\* Mutant: the handle is nulled with a value that is no thread's.
StopFeedNulls ==
    /\ stop' = TRUE /\ handle' = {0}
    /\ UNCHANGED thread

\* The caller holds the manager's lock and joins for five seconds: a thread
\* between two polls ends within them, one that fetches or waits for that lock
\* to deliver need not.
StopFeed ==
    /\ stop' = TRUE /\ handle' = {}
    /\ thread' = [t \in Threads |-> IF t \in handle /\ thread[t].pc = "loop"
                                   THEN Ended ELSE thread[t]]

\* _sync_mstock_thread, for the statuses the call leaves.
Sync(st) ==
    /\ CASE HasLive(st) /\ ~Running  -> StartFeed
         [] ~HasLive(st) /\ Running  -> StopFeed
         [] OTHER                    -> UNCHANGED <<stop, handle, thread>>
    /\ attached' = (HasWs /\ HasLive(st))

NoSync == UNCHANGED <<stop, handle, thread, attached>>

\* add_runner: subscribe, and sync if it is started.
AddRunner(r, start) ==
    /\ status[r] = "absent"
    /\ status' = [status EXCEPT ![r] = IF start THEN "RUNNING" ELSE "STOPPED"]
    /\ last' = [last EXCEPT ![r] = NoBar]
    /\ symbols' = symbols \cup Watches[r]
    /\ IF start THEN Sync(status') ELSE NoSync
    /\ UNCHANGED <<now, crashes, lastTs, forming, ws>>

\* remove_runner: its symbols leave the feed, and _last_ts with them.  The bar
\* builder keeps its open minute.
RemoveRunner(r) ==
    /\ status[r] # "absent"
    /\ status' = [status EXCEPT ![r] = "absent"]
    /\ symbols' = symbols \ Watches[r]
    /\ lastTs' = [s \in Symbols |-> IF s \in Watches[r] THEN 0 ELSE lastTs[s]]
    /\ Sync(status')
    /\ UNCHANGED <<now, crashes, last, forming, ws>>

\* Every runner of the scope that is in one of the states from.
Moved(scope, from, to) ==
    [r \in Runners |-> IF r \in scope /\ status[r] \in from THEN to ELSE status[r]]

\* control_runner: the thread is synced for an mStock runner only.
Control(st) ==
    /\ status' = st
    /\ IF SyncsOnControl THEN Sync(st) ELSE NoSync
    /\ UNCHANGED <<now, crashes, last, symbols, lastTs, forming, ws>>

Pause(r)  == status[r] # "absent" /\ Control(Moved({r}, {"RUNNING"}, "PAUSED"))
Resume(r) == status[r] # "absent" /\ Control(Moved({r}, {"PAUSED"}, "RUNNING"))
Stop(r)   == status[r] # "absent" /\ Control(Moved({r}, {"PAUSED", "RUNNING"}, "STOPPED"))

\* pause_all, resume_all and stop_all of one bucket or of all sync every source.
Scopes == {Runners, Paper, Runners \ Paper}
ControlAll(st) ==
    /\ status' = st /\ Sync(st)
    /\ UNCHANGED <<now, crashes, last, symbols, lastTs, forming, ws>>
PauseAll(scope)  == ControlAll(Moved(scope, {"RUNNING"}, "PAUSED"))
ResumeAll(scope) == ControlAll(Moved(scope, {"PAUSED"}, "RUNNING"))
StopAll(scope)   == ControlAll(Moved(scope, {"PAUSED", "RUNNING"}, "STOPPED"))

\* A spawn and a resume start a warm-up; any time later it comes back with the
\* session's candles, the forming one perhaps among them (seed_history).
Warmed(r) ==
    /\ status[r] # "absent"
    /\ \E m \in 0 .. now :
          last' = [last EXCEPT ![r] = [s \in Symbols |-> IF s \in Watches[r] /\ m > last[r][s]
                                                        THEN m ELSE last[r][s]]]
    /\ UNCHANGED <<now, crashes, status, feed, attached, forming, ws>>

\* The process dies and reads its file back: a runner that ran comes back
\* running if it holds a position, with the bar stamps of the last save.  The
\* thread is started for a runner that runs, not for one that is paused.
Restart ==
    /\ crashes < MaxCrashes
    /\ crashes' = crashes + 1
    /\ \E holders \in SUBSET Runners :
          status' = [r \in Runners |-> IF status[r] = "RUNNING" /\ r \notin holders
                                       THEN "PAUSED" ELSE status[r]]
    /\ \E saved \in 0 .. now :
          last' = [r \in Runners |-> [s \in Symbols |-> IF last[r][s] > saved
                                                       THEN saved ELSE last[r][s]]]
    /\ symbols' = UNION {Watches[r] : r \in {x \in Runners : status[x] # "absent"}}
    /\ lastTs' = NoBar /\ stop' = FALSE
    /\ attached' = (HasWs /\ \E r \in Runners : status'[r] = "RUNNING")
    /\ IF \E r \in Runners : status'[r] = "RUNNING"
       THEN \E t \in Threads : /\ handle' = {t}
                               /\ thread' = [x \in Threads |-> IF x = t THEN Loop ELSE Ended]
       ELSE handle' = {} /\ thread' = [t \in Threads |-> Ended]
    /\ forming' = NoBar /\ ws' = Idle
    /\ UNCHANGED now
-----------------------------------------------------------------------------
(* The bars. *)

\* _on_bar_core and process_candle_event: every runner of the symbol that is not
\* stopped takes a bar newer than its last.
Deliver(s, m) ==
    last' = [r \in Runners |->
               [last[r] EXCEPT ![s] = IF /\ s \in Watches[r]
                                         /\ status[r] \in {"PAUSED", "RUNNING"}
                                         /\ m > last[r][s]
                                      THEN m ELSE last[r][s]]]

Moves(t, w) ==
    /\ thread' = [thread EXCEPT ![t] = w]
    /\ UNCHANGED <<now, crashes, status, symbols, stop, handle, attached, forming, ws>>

\* The head of the loop.
Poll(t) ==
    /\ thread[t].pc = "loop"
    /\ Moves(t, IF stop THEN Ended ELSE [pc |-> "sweep", todo |-> symbols, bar |-> {}])
    /\ UNCHANGED <<last, lastTs>>

Swept(t, s) == [pc |-> "sweep", todo |-> thread[t].todo \ {s}, bar |-> {}]

\* Ask the broker for the latest bar, which is the forming minute's; without a
\* session it has none.
FetchOk(t, s) ==
    /\ thread[t].pc = "sweep" /\ s \in thread[t].todo /\ ~stop
    /\ Moves(t, [pc |-> "got", todo |-> thread[t].todo \ {s}, bar |-> {<<s, now>>}])
    /\ UNCHANGED <<last, lastTs>>
\* Mutant: an exception of the client ends the thread.
FetchKills(t, s) ==
    /\ thread[t].pc = "sweep" /\ s \in thread[t].todo /\ ~stop
    /\ Moves(t, Ended)
    /\ UNCHANGED <<last, lastTs>>
FetchFails(t, s) ==
    /\ thread[t].pc = "sweep" /\ s \in thread[t].todo /\ ~stop
    /\ Moves(t, Swept(t, s))
    /\ UNCHANGED <<last, lastTs>>

\* Under the feed's lock the bar is compared with the last one accepted, by
\* whichever path.  The symbol may have left the feed meanwhile.
Accept(t) ==
    /\ thread[t].pc = "got"
    /\ \E b \in thread[t].bar :
          IF b[2] > lastTs[b[1]]
          THEN /\ lastTs' = [lastTs EXCEPT ![b[1]] = b[2]]
               /\ Moves(t, [thread[t] EXCEPT !.pc = "push"])
          ELSE UNCHANGED lastTs /\ Moves(t, Swept(t, b[1]))
    /\ UNCHANGED last

Push(t) ==
    /\ thread[t].pc = "push"
    /\ \E b \in thread[t].bar : Deliver(b[1], b[2]) /\ Moves(t, Swept(t, b[1]))
    /\ UNCHANGED lastTs

EndSweep(t) ==
    /\ thread[t].pc = "sweep" /\ (thread[t].todo = {} \/ stop)
    /\ Moves(t, Loop)
    /\ UNCHANGED <<last, lastTs>>

Minute ==
    /\ now < MaxMinute
    /\ now' = now + 1
    /\ UNCHANGED <<crashes, fleet, feed, attached, forming, ws>>

\* A tick of a later minute seals the open one.
WsTick(s) ==
    /\ attached /\ ws.pc = "idle"
    /\ forming' = [forming EXCEPT ![s] = now]
    /\ ws' = IF forming[s] \in 1 .. (now - 1)
             THEN [pc |-> "got", bar |-> {<<s, forming[s]>>}] ELSE ws
    /\ UNCHANGED <<now, crashes, fleet, feed, attached>>

WsAccept ==
    /\ ws.pc = "got"
    /\ \E b \in ws.bar :
          IF b[1] \in symbols /\ b[2] > lastTs[b[1]]
          THEN lastTs' = [lastTs EXCEPT ![b[1]] = b[2]] /\ ws' = [ws EXCEPT !.pc = "push"]
          ELSE UNCHANGED lastTs /\ ws' = Idle
    /\ UNCHANGED <<now, crashes, fleet, symbols, stop, handle, thread, attached, forming>>

WsPush ==
    /\ ws.pc = "push"
    /\ \E b \in ws.bar : Deliver(b[1], b[2])
    /\ ws' = Idle
    /\ UNCHANGED <<now, crashes, status, feed, attached, forming>>

Next ==
    \/ \E r \in Runners : \/ AddRunner(r, TRUE) \/ AddRunner(r, FALSE) \/ RemoveRunner(r)
                          \/ Pause(r) \/ Resume(r) \/ Stop(r) \/ Warmed(r)
    \/ \E scope \in Scopes : PauseAll(scope) \/ ResumeAll(scope) \/ StopAll(scope)
    \/ \E t \in Threads :
          \/ Poll(t) \/ Accept(t) \/ Push(t) \/ EndSweep(t)
          \/ \E s \in Symbols : FetchOk(t, s) \/ FetchFails(t, s)
    \/ \E s \in Symbols : WsTick(s)
    \/ Restart \/ Minute \/ WsAccept \/ WsPush

Spec == Init /\ [][Next]_vars

\* A poll thread is scheduled, and a broker that is asked again and again
\* answers now and then.  No operator, tick, crash or warm-up need ever come.
FairSpec ==
    /\ Spec
    /\ WF_vars(Minute)
    /\ \A t \in Threads :
          /\ WF_vars(Poll(t)) /\ WF_vars(Accept(t)) /\ WF_vars(Push(t)) /\ WF_vars(EndSweep(t))
          /\ \A s \in Symbols : WF_vars(FetchFails(t, s)) /\ SF_vars(FetchOk(t, s))
-----------------------------------------------------------------------------
(* Properties. *)

\* A runner that runs is polled: its symbols are in the feed and a thread that
\* has not been told to stop owns it.  Through spawns, removals, controls of one
\* runner or of all, and a restart that brings runners back running or paused
\* (_sync_mstock_thread, add_runner, remove_runner, _apply_state_payload).
PolledWhileRunning ==
    \A r \in Runners : status[r] = "RUNNING" =>
       /\ Watches[r] \subseteq symbols
       /\ ~stop /\ Running

\* The other half of the rule: with no runner left to feed, no thread is in
\* charge and every one that is left has been told to stop.
IdleFeedRests ==
    ~HasLive(status) => ~Running /\ (stop \/ \A t \in Threads : thread[t].pc = "ended")

\* A runner that runs and goes on running gets the bar of the minute, or a later
\* one: whatever was removed, stopped, restarted or fetched late before.  Not of
\* the last minute: a thread that fetched it before a removal accepts it after
\* one, and the runner spawned next is not given that minute, only the next.
CatchesUp ==
    \A r \in Runners, n \in 1 .. (MaxMinute - 1) :
       status[r] = "RUNNING" /\ now = n
          ~> status[r] # "RUNNING" \/ \A s \in Watches[r] : last[r][s] >= n

\* Refuted: at most one thread polls ("ONE poll thread per manager per broker").
OnePollThread ==
    \A t, u \in Threads :
       ~stop /\ thread[t].pc # "ended" /\ thread[u].pc # "ended" => t = u

\* Refuted: a candle a runner appends is of a minute that is over ("strictly
\* immutable CLOSED timeframe candles").
ClosedBarsOnly ==
    [][\A r \in Runners, s \in Symbols : last'[r][s] > last[r][s] => last'[r][s] < now]_vars

=============================================================================
