----------------------------- MODULE FleetHalts -----------------------------
(***************************************************************************)
(* The circuit breakers of a fleet of runners, as PortfolioManager keeps   *)
(* them (forward/portfolio_manager.py): one latch of the whole portfolio   *)
(* (`halted`), one of each bucket and one of a live segment                *)
(* (`_bucket_halted`).  A tick evaluates every scope and latches those in  *)
(* breach; operators pause, resume, kill and reset; the latches roll at    *)
(* midnight; everything is saved to a state file and read back after a     *)
(* crash.  What a breach is (loss, drawdown, the sum of which runners) is  *)
(* an input: any scope with a runner may be in breach.                     *)
(*                                                                         *)
(* Ticks, kills and operators take turns under the manager's lock; a login *)
(* that wakes books, and the saves of some requests, do not take it.  A    *)
(* tick and a kill latch first, then pause and close at the venue, and     *)
(* save last: `pass` is the one under way.                                 *)
(***************************************************************************)
EXTENDS Naturals, FiniteSets

CONSTANTS PaperRunners, LiveRunners,  \* runners by mode of their config
          InSegment,                  \* runners whose config names the segment
          Limited, Addressed,         \* scopes with a risk limit; those operators name
          Wakes,                      \* a login may re-create parked runners
          MaxDay, MaxCrashes, MaxRequests, MaxDrafts  \* bounds

Runners  == PaperRunners \cup LiveRunners
Buckets  == {"paper", "live"}
Scopes   == Buckets \cup {"segment", "portfolio"}
Statuses == {"RUNNING", "PAUSED", "STOPPED", "absent"}
Free   == [at |-> "idle", set |-> {}, todo |-> {}, due |-> FALSE]
Nobody == [pc |-> "idle", runner |-> {}, status |-> "absent", set |-> {}, todo |-> {}]

ASSUME FleetAssumption ==
    /\ PaperRunners \cap LiveRunners = {}
    /\ InSegment \subseteq Runners
    /\ LiveRunners \cap InSegment # {}
    /\ Limited \subseteq Scopes /\ Addressed \subseteq Scopes \ {"segment"}
    /\ Wakes \in BOOLEAN
    /\ MaxDay \in Nat /\ MaxCrashes \in Nat /\ MaxRequests \in Nat /\ MaxDrafts \in Nat

VARIABLES
    day,      \* the IST date of the wall clock
    session,  \* _risk_session_date_ist
    latched,  \* the scopes whose breaker is latched
    status,   \* of every runner; "absent" is not in _runners and not parked
    parked,   \* refused at restore: status is their snapshot's
    pass,     \* under the lock: the scope being killed or where the evaluation is,
              \* the latches it set, the runners it has yet to pause and close,
              \* whether it ends in a save
    waking,   \* a login: where its wake is, the parked runner it has constructed
              \* and that one's snapshot, and its evaluation's latches and runners
    disk,     \* the saved payload
    drafts,   \* payloads read by saves without the lock and not yet written
    crashes,  \* so far
    requests, \* of operators, so far
    vouched,  \* history: runners an operator set going under a latch
    slipped,  \* history: runners a wake rehydrated between a kill's pauses and its latch
    overtaken \* history: latches the file lost to a save that had read before them

ghosts == <<vouched, slipped>>
vars == <<day, session, latched, status, parked, pass, waking, disk, drafts, crashes,
          requests, vouched, slipped, overtaken>>

Payload == [session : Nat, latched : SUBSET Scopes, status : [Runners -> Statuses]]
Pass    == [at : Scopes \cup {"idle", "latched", "evaluate"}, set : SUBSET Scopes,
            todo : SUBSET Runners, due : BOOLEAN]
Wake    == [pc : {"idle", "added", "restored", "woken", "evaluate"}, runner : SUBSET Runners,
            status : Statuses, set : SUBSET Scopes, todo : SUBSET Runners]

TypeOK ==
    /\ day \in Nat /\ session \in Nat /\ crashes \in Nat /\ requests \in Nat
    /\ latched \subseteq Scopes
    /\ status \in [Runners -> Statuses]
    /\ parked \subseteq Runners
    /\ pass \in Pass
    /\ waking \in Wake
    /\ disk \in Payload
    /\ drafts \subseteq Payload
    /\ vouched \subseteq Runners /\ slipped \subseteq Runners
    /\ overtaken \subseteq Scopes

Members(s) == CASE s = "paper"   -> PaperRunners
                [] s = "live"    -> LiveRunners
                [] s = "segment" -> LiveRunners \cap InSegment
                [] OTHER         -> Runners

Halted(l, r) == \E s \in l : r \in Members(s)

\* Mutant: the restore asks the bucket's latch and the portfolio's.
BlockedByBucket(l, r) ==
    \/ "portfolio" \in l
    \/ r \in PaperRunners /\ "paper" \in l
    \/ r \in LiveRunners /\ "live" \in l

\* The latches the restore asks: a paper runner with a segment in its config
\* is blocked by the segment's latch, though the segment does not count it.
BlockedByRisk(l, r) ==
    \/ "portfolio" \in l
    \/ r \in PaperRunners /\ "paper" \in l
    \/ r \in LiveRunners /\ "live" \in l
    \/ r \in InSegment /\ "segment" \in l

Present == {r \in Runners : status[r] # "absent"} \ parked

Memory == [session |-> session, latched |-> latched, status |-> status]

\* What a payload says of the latches of the running session.
Filed(p) == IF p.session = session THEN p.latched ELSE {}

\* Mutant: a save holds the runners in _runners and no parked snapshots.
PersistRunners ==
    /\ disk' = [Memory' EXCEPT !.status = [r \in Runners |-> IF r \in parked THEN "absent"
                                                             ELSE status'[r]]]
    /\ overtaken' = {}

\* A save under the lock: what memory holds after the step is written.
Persist == disk' = Memory' /\ overtaken' = {}
Unsaved == UNCHANGED <<disk, overtaken>>

\* What the histories keep: runners that run under a latch.
Vouch(started, slips) ==
    LET Going(r) == status'[r] = "RUNNING" /\ r \notin parked'
    IN /\ vouched' = {r \in vouched \cup started : Going(r) /\ Halted(latched', r)}
       /\ slipped' = {r \in slipped \cup slips : Going(r)}

\* The rollover every evaluation and every refresh of the anchors begins with:
\* on a new date all latches fall.
RolledLatches(l) == IF session # day THEN {} ELSE l
Roll == session' = day /\ latched' = RolledLatches(latched)

Paused(rs) == [r \in Runners |-> IF r \in rs /\ status[r] = "RUNNING" THEN "PAUSED"
                                 ELSE status[r]]

\* Nobody holds the manager's lock.
Unlocked == pass.at = "idle"

\* One more request of an operator.
Request == requests < MaxRequests /\ requests' = requests + 1

Init ==
    /\ day = 0 /\ session = 0 /\ latched = {}
    /\ status = [r \in Runners |-> "RUNNING"]
    /\ parked = {} /\ pass = Free /\ waking = Nobody
    /\ disk = Memory /\ drafts = {}
    /\ crashes = 0 /\ requests = 0 /\ vouched = {} /\ slipped = {} /\ overtaken = {}
-----------------------------------------------------------------------------
(* The risk monitor: one pass of a tick, or of the end of a kill. *)

\* A scope that was clear and is in breach latches (the order of the scopes is
\* left open); the runners it counts are those to pause and to close.
Breach(s) ==
    /\ s \notin latched /\ Members(s) \cap Present # {}
    /\ latched' = latched \cup {s}
    /\ UNCHANGED <<day, session, status, parked, drafts, crashes, requests>>
    /\ Unsaved
    /\ Vouch({}, {})

\* They are paused, and closed at the venue.
Act(todo) ==
    /\ todo # {}
    /\ status' = Paused(todo)
    /\ UNCHANGED <<day, session, latched, parked, drafts, crashes, requests>>
    /\ Unsaved
    /\ Vouch({}, {})

PassBegins ==
    /\ pass.at \in {"idle", "latched"}
    /\ pass' = [pass EXCEPT !.at = "evaluate"]
    /\ Roll
    /\ UNCHANGED <<day, status, parked, waking, drafts, crashes, requests>>
    /\ Unsaved
    /\ Vouch({}, {})

PassTrips(s) ==
    /\ pass.at = "evaluate" /\ pass.todo = {}
    /\ Breach(s)
    /\ pass' = [pass EXCEPT !.set = @ \cup {s}, !.todo = Members(s) \cap Present, !.due = TRUE]
    /\ UNCHANGED waking

PassActs ==
    /\ Act(pass.todo)
    /\ pass' = [pass EXCEPT !.todo = {}]
    /\ UNCHANGED waking

\* Mutant: a fresh halt waits for the fifth tick like any other.
PassEndsUnsaved ==
    /\ pass.at = "evaluate" /\ pass.todo = {}
    /\ pass' = Free
    /\ UNCHANGED <<day, session, latched, status, parked, waking, drafts, crashes, requests>>
    /\ Persist \/ Unsaved
    /\ Vouch({}, {})

\* A fresh halt and a kill are saved before the lock is given back; other ticks
\* save every fifth time or at a new peak.
PassEnds ==
    /\ pass.at = "evaluate" /\ pass.todo = {}
    /\ pass' = Free
    /\ UNCHANGED <<day, session, latched, status, parked, waking, drafts, crashes, requests>>
    /\ Persist \/ (~pass.due /\ Unsaved)
    /\ Vouch({}, {})

Midnight ==
    /\ day < MaxDay
    /\ day' = day + 1
    /\ UNCHANGED <<session, latched, status, parked, pass, waking, disk, drafts, crashes,
                   requests, vouched, slipped, overtaken>>

\* A runner's own fuse, or the end of a trade held across a code update, pauses
\* it; nothing saves that.
OwnFuse(r) ==
    /\ r \in Present /\ status[r] = "RUNNING"
    /\ status' = Paused({r})
    /\ UNCHANGED <<day, session, latched, parked, pass, waking, drafts, crashes, requests>>
    /\ Unsaved
    /\ Vouch({}, {})
-----------------------------------------------------------------------------
(* Operators.  Every control action takes the lock and saves. *)

Controls(st, started) ==
    /\ Request
    /\ Unlocked
    /\ status' = st
    /\ UNCHANGED <<day, session, latched, parked, pass, waking, drafts, crashes>>
    /\ Persist
    /\ Vouch(started, {})

Pause(r) == /\ r \in Present /\ status[r] = "RUNNING"
            /\ Controls(Paused({r}), {})
Resume(r) == /\ r \in Present /\ status[r] = "PAUSED"
             /\ Controls([status EXCEPT ![r] = "RUNNING"], {r})
Stop(r) == /\ r \in Present
           /\ Controls([status EXCEPT ![r] = "STOPPED"], {})

PauseAll(s) == Controls(Paused(Members(s) \cap Present), {})

\* resume_all asks the latch of the scope it is given and no other.
ResumedBy(s) == {r \in Members(s) \cap Present : status[r] = "PAUSED"}
ResumeAll(s) ==
    /\ s \notin latched
    /\ Controls([r \in Runners |-> IF r \in ResumedBy(s) THEN "RUNNING" ELSE status[r]],
                ResumedBy(s))

StopAll(s) ==
    Controls([r \in Runners |-> IF r \in Members(s) \cap Present THEN "STOPPED"
                                ELSE status[r]], {})

\* Mutant: the request's own word for the whole fleet is latched.
KillLatchesAll(s) == latched \cup {IF s = "portfolio" THEN "all" ELSE s}

\* emergency_flatten_all: the scope is closed at the venue and paused; then it is
\* latched.  The segment's latch is one of those "all buckets" asks.  A pass of
\* the risk monitor follows, and the save.
KillCloses(s) ==
    /\ Request
    /\ Unlocked
    /\ status' = Paused(Members(s) \cap Present)
    /\ pass' = [Free EXCEPT !.at = s, !.due = TRUE]
    /\ UNCHANGED <<day, session, latched, parked, waking, drafts, crashes>>
    /\ Unsaved
    /\ Vouch({}, {})

KillLatches(s) ==
    LET l == latched \cup {s}
    IN CASE s = "portfolio"                         -> latched \cup Buckets \cup {"portfolio"}
         [] s # "portfolio" /\ Buckets \cup {"segment"} \subseteq l -> l \cup {"portfolio"}
         [] OTHER                                   -> l
Kill(s) ==
    /\ pass.at = s
    /\ latched' = KillLatches(s)
    /\ pass' = [pass EXCEPT !.at = "latched", !.set = KillLatches(s) \ latched]
    /\ UNCHANGED <<day, session, status, parked, waking, drafts, crashes, requests>>
    /\ Unsaved
    /\ Vouch({}, {})

\* reset_circuit_breaker: what is saved is the reset, before the refresh of the
\* anchors rolls the date.
ResetLatches(s) ==
    LET l == latched \ {s}
    IN IF s = "portfolio" \/ l \subseteq {"portfolio"} THEN {} ELSE l
ResetBreaker(s) ==
    /\ Request
    /\ Unlocked
    /\ disk' = [Memory EXCEPT !.latched = ResetLatches(s)] /\ overtaken' = {}
    /\ latched' = RolledLatches(ResetLatches(s))
    /\ session' = day
    /\ UNCHANGED <<day, status, parked, pass, waking, drafts, crashes>>
    /\ Vouch({}, {})

\* add_runner: the anchors are refreshed, so the date may roll.
AddRunner(r, start) ==
    /\ Request
    /\ Unlocked
    /\ status[r] = "absent"
    /\ status' = [status EXCEPT ![r] = IF start THEN "RUNNING" ELSE "STOPPED"]
    /\ Roll
    /\ UNCHANGED <<day, parked, pass, waking, drafts, crashes>>
    /\ Persist
    /\ Vouch(IF start THEN {r} ELSE {}, {})

\* remove_runner: the last runner of a bucket takes the bucket's latch with it.
\* A parked one is only forgotten.  respawn_runner is a removal and an addition.
RemoveRunner(r) ==
    /\ Request
    /\ Unlocked
    /\ status[r] # "absent"
    /\ status' = [status EXCEPT ![r] = "absent"]
    /\ parked' = parked \ {r}
    /\ waking' = [waking EXCEPT !.runner = @ \ {r}, !.todo = @ \ {r}]
    /\ IF r \in parked
       THEN UNCHANGED <<session, latched>>
       ELSE /\ session' = day
            /\ latched' = RolledLatches(latched) \
                          {b \in Buckets : r \in Members(b) /\ Members(b) \cap Present = {r}}
    /\ Persist
    /\ UNCHANGED <<day, pass, drafts, crashes>>
    /\ Vouch({}, {})
-----------------------------------------------------------------------------
(* Saves without the lock: a change of the risk limits, the cancel and the  *)
(* amendment of an order, a warm-up, a square-off.  The payload is read     *)
(* first and written later.                                                 *)

SaveReads ==
    /\ Request
    /\ Cardinality(drafts \cup {Memory}) <= MaxDrafts
    /\ drafts' = drafts \cup {Memory}
    /\ UNCHANGED <<day, session, latched, status, parked, pass, waking, disk, crashes,
                   vouched, slipped, overtaken>>

SaveWrites(p) ==
    /\ disk' = p
    /\ drafts' = drafts \ {p}
    /\ overtaken' = latched \ Filed(p)
    /\ UNCHANGED <<day, session, latched, status, parked, pass, waking, crashes, requests, ghosts>>

-----------------------------------------------------------------------------
(* Crash and restart; a login that wakes what the restart refused. *)

\* The status restore_runner gives: a runner that ran comes back running if it
\* holds a position, which is for the snapshot to say.
RestoredStatus(st, holds) == IF st = "RUNNING" /\ ~holds THEN "PAUSED" ELSE st

\* The check that follows it.
BlockedStatus(st, l, r) == IF st = "RUNNING" /\ BlockedByRisk(l, r) THEN "PAUSED" ELSE st

\* Memory is gone; _apply_state_payload reads the file.  refused are parked:
\* their construction raises (no broker session).  Latches of another date fall.
Restart ==
    /\ crashes < MaxCrashes
    /\ crashes' = crashes + 1
    /\ latched' = IF disk.session = day THEN disk.latched ELSE {}
    /\ session' = day
    /\ \E refused \in SUBSET {r \in Runners : Wakes /\ disk.status[r] # "absent"},
          holders \in SUBSET Runners :
         /\ parked' = refused
         /\ status' = [r \in Runners |->
                          IF r \in refused THEN disk.status[r]
                          ELSE BlockedStatus(RestoredStatus(disk.status[r], r \in holders),
                                             latched', r)]
    /\ pass' = Free /\ waking' = Nobody
    /\ drafts' = {} /\ overtaken' = {} /\ vouched' = {} /\ slipped' = {}
    /\ UNCHANGED <<day, disk, requests>>

\* on_broker_authenticated, for each parked runner in turn.  add_runner, which
\* takes the lock, constructs it with an empty book and saves that.
WakeAdd(r) ==
    /\ Unlocked
    /\ r \in parked /\ waking.pc \in {"idle", "woken"}
    /\ waking' = [waking EXCEPT !.pc = "added", !.runner = {r}, !.status = status[r]]
    /\ status' = [status EXCEPT ![r] = "STOPPED"]
    /\ parked' = parked \ {r}
    /\ Roll
    /\ Persist
    /\ UNCHANGED <<day, pass, drafts, crashes, requests>>
    /\ Vouch({}, {})

\* Without the lock: it is rehydrated from the snapshot, a runner removed since
\* stays removed; ...
WakeRestores ==
    /\ waking.pc = "added"
    /\ waking' = [waking EXCEPT !.pc = "restored"]
    /\ \E holds \in BOOLEAN :
          status' = [r \in Runners |-> IF r \in waking.runner
                                       THEN RestoredStatus(waking.status, holds)
                                       ELSE status[r]]
    /\ UNCHANGED <<day, session, latched, parked, pass, drafts, crashes, requests>>
    /\ Unsaved
    /\ Vouch({}, {r \in waking.runner : pass.at \in Scopes /\ r \in Members(pass.at)})

\* ... blocked, if a latch stands; ...
WakeBlocks ==
    /\ waking.pc = "restored"
    /\ waking' = [waking EXCEPT !.pc = "woken", !.runner = {}, !.status = "absent"]
    /\ status' = [r \in Runners |-> IF r \in waking.runner
                                    THEN BlockedStatus(status[r], latched, r)
                                    ELSE status[r]]
    /\ UNCHANGED <<day, session, latched, parked, pass, drafts, crashes, requests>>
    /\ Unsaved
    /\ Vouch({}, {})

\* ... and when all are done, or none was parked, one evaluation, beside whoever
\* holds the lock, and the save.
WakeEvaluates ==
    /\ Wakes /\ waking.pc \in {"idle", "woken"}
    /\ waking' = [waking EXCEPT !.pc = "evaluate"]
    /\ Roll
    /\ UNCHANGED <<day, status, parked, pass, drafts, crashes, requests>>
    /\ Unsaved
    /\ Vouch({}, {})

WakeTrips(s) ==
    /\ waking.pc = "evaluate" /\ waking.todo = {}
    /\ Breach(s)
    /\ waking' = [waking EXCEPT !.set = @ \cup {s}, !.todo = Members(s) \cap Present]
    /\ UNCHANGED pass

WakeActs ==
    /\ Act(waking.todo)
    /\ waking' = [waking EXCEPT !.todo = {}]
    /\ UNCHANGED pass

WakeSaves ==
    /\ waking.pc = "evaluate" /\ waking.todo = {}
    /\ Cardinality(drafts \cup {Memory}) <= MaxDrafts
    /\ drafts' = drafts \cup {Memory}
    /\ waking' = Nobody
    /\ UNCHANGED <<day, session, latched, status, parked, pass, disk, crashes,
                   requests, vouched, slipped, overtaken>>

Next ==
    \/ PassBegins \/ PassActs \/ PassEnds \/ Midnight \/ Restart \/ SaveReads
    \/ \E p \in drafts : SaveWrites(p)
    \/ WakeRestores \/ WakeBlocks \/ WakeEvaluates \/ WakeActs \/ WakeSaves
    \/ \E r \in Runners : \/ OwnFuse(r) \/ Pause(r) \/ Resume(r) \/ Stop(r)
                          \/ AddRunner(r, TRUE) \/ AddRunner(r, FALSE) \/ RemoveRunner(r)
                          \/ WakeAdd(r)
    \/ \E s \in Addressed : PauseAll(s) \/ ResumeAll(s) \/ StopAll(s) \/ KillCloses(s) \/ Kill(s)
    \/ \E s \in Limited : PassTrips(s) \/ WakeTrips(s)
    \/ \E s \in Addressed \cup Limited : ResetBreaker(s)

Spec == Init /\ [][Next]_vars
-----------------------------------------------------------------------------
(* Properties. *)

\* A latch on its way to the file: its setter has not saved yet, or a save that
\* has read it has not written yet.
InFlight(s) == s \in pass.set \cup waking.set \/ \E p \in drafts : s \in Filed(p)

\* A runner somebody is about to pause: on the list of an evaluation that has
\* latched, or rehydrated by a wake that has yet to ask the latches.
Awaited(r) == \/ r \in pass.todo \cup waking.todo
              \/ waking.pc = "restored" /\ r \in waking.runner

\* A runner of a halted scope rests, unless an operator set that runner going
\* while the latch stood: no breach, kill, restart or login leaves or brings
\* back a running runner under a latch (_evaluate_risk, emergency_flatten_all,
\* _apply_state_payload, on_broker_authenticated).  Excepted are those about to be
\* paused, and a runner a wake rehydrated while a kill stood between its pauses
\* and its latch, which nobody will pause.
HaltedScopesRest ==
    \A r \in Present : status[r] = "RUNNING" /\ Halted(latched, r) =>
        r \in vouched \cup slipped \/ Awaited(r)

\* A latch falls for three reasons only: an operator resets it (or the last one
\* beside the portfolio's), the date rolls, the last runner of its bucket is
\* removed; or in a crash that comes before it is in the file.  A crash loses no
\* latch whose tick or kill has given the lock back, or whose wake's save is
\* written, unless a save without the lock that had read before the latch was
\* written after it (_evaluate_risk, emergency_flatten_all, save_state).
LatchesHold ==
    [][\A s \in latched \ latched' :
          \/ session' > session
          \/ \E x \in {s, "portfolio"} : ResetBreaker(x)
          \/ s = "portfolio" /\ \E x \in Scopes : ResetBreaker(x) /\ latched' = {}
          \/ s \in Buckets /\ \E r \in Members(s) : RemoveRunner(r) /\ Members(s) \cap Present' = {}
          \/ crashes' > crashes /\ (InFlight(s) \/ s \in overtaken)]_vars

\* What the file does not remember of the session's latches is on its way there
\* or was overtaken: the invariant LatchesHold rests on.
FileKnowsLatches ==
    /\ disk.session <= session /\ session <= day
    /\ \A p \in drafts : p.session <= session
    /\ \A s \in latched : s \in Filed(disk) \/ InFlight(s) \/ s \in overtaken

\* What a pass and a wake carry at each of their steps.
StepsInOrder ==
    /\ pass.set # {} => pass.due
    /\ pass.at # "evaluate" => pass.todo = {}
    /\ pass.at = "idle" => pass = Free
    /\ pass.at \in Scopes => pass.at # "segment" /\ pass.set = {} /\ pass.due
    /\ waking.pc # "evaluate" => waking.set = {} /\ waking.todo = {}
    /\ parked \cap (pass.todo \cup waking.todo \cup waking.runner) = {}

\* Between its pauses and its latch a kill's runners rest, but for those a wake
\* has rehydrated meanwhile.
ClosedScopeRests ==
    pass.at \in Scopes =>
        \A r \in Members(pass.at) \cap Present : status[r] = "RUNNING" => r \in slipped

\* A runner that could not be constructed after a restart stays in every later
\* save as it was read, whatever else is done to the fleet: a refusal is for
\* one boot (_snapshot_payload re-emits the parked snapshots).
ParkedOnFile == \A r \in parked : disk.status[r] = status[r] /\ status[r] # "absent"

\* So do the saves that are not yet written.
ParkedInDrafts == \A r \in parked : \A p \in drafts : p.status[r] = status[r]

\* Refuted: the same while a login rehydrates it; add_runner saves the empty
\* book before restore_runner fills it (on_broker_authenticated).
WakingOnFile == waking.pc = "added" => \A r \in waking.runner : disk.status[r] = waking.status

\* Refuted: a bulk resume starts no runner of a halted scope (resume_all asks one
\* latch; a bucket's, the portfolio's and the segment's are three).
BulkResumeAsks ==
    [][\A s \in Addressed : ResumeAll(s) =>
          \A r \in ResumedBy(s) : ~Halted(latched, r)]_vars

\* Refuted: the evaluation at the end of a kill finds its latches and leaves them
\* (it may be the first of a new date, and clears what was just set).
KillLatched == [][PassBegins => pass.set \subseteq latched']_vars

\* Refuted: a crash loses no latch that has already closed its runners (the save
\* comes after the orders).
ActedOnHolds ==
    [][crashes' > crashes /\ session' = session /\ pass.todo = {} /\ pass.at = "evaluate"
          => pass.set \subseteq latched']_vars

\* Refuted: a crash between two ticks loses no latch (a save without the lock may
\* have overtaken the one that wrote it).
SavedHolds ==
    [][crashes' > crashes /\ session' = session /\ Unlocked /\ waking = Nobody /\ drafts = {}
          => latched \subseteq latched']_vars

\* Refuted: no runner runs under the latch of a kill that no operator set going
\* since (a wake may rehydrate it after the kill's pauses and before its latch).
KillRests ==
    \A r \in Present : status[r] = "RUNNING" /\ Halted(latched, r) /\ pass = Free /\ waking = Nobody
        => r \in vouched

=============================================================================
