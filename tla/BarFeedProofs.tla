---------------------------- MODULE BarFeedProofs ----------------------------
(***************************************************************************)
(* Proofs about BarFeed: its types; that a running runner is polled, when  *)
(* no two runners watch the same symbol and every control syncs the        *)
(* thread; and that an idle feed rests, when every control syncs it.       *)
(***************************************************************************)
EXTENDS BarFeed, TLAPS

\* No symbol has two watchers.
WatchedOnce == \A r, q \in Runners : r # q => Watches[r] \cap Watches[q] = {}

\* The thread in charge is alive and has not been told to stop.
Owned == \A t \in handle : thread[t].pc # "ended" /\ ~stop

\* Without one in charge, whoever is left has been told to.
Rest == handle = {} => stop \/ \A t \in Threads : thread[t].pc = "ended"

ThreadInv == TypeOK /\ Owned /\ Rest

AllSubscribed == \A r \in Runners : status[r] # "absent" => Watches[r] \subseteq symbols
FedWhileRunning == \A r \in Runners : status[r] = "RUNNING" => handle # {}
NoneWhileIdle == ~HasLive(status) => handle = {}

-----------------------------------------------------------------------------
(* The values. *)

LEMMA PollerTypes ==
    /\ Ended \in Poller /\ Loop \in Poller /\ Idle \in Ticker
    /\ Ended.pc = "ended" /\ Loop.pc = "loop"
BY DEF Ended, Loop, Idle, Poller, Ticker

LEMMA NoBarType == NoBar \in [Symbols -> Nat]
BY DEF NoBar

LEMMA MovedType ==
    ASSUME TypeOK, NEW scope, NEW from, NEW to \in Statuses
    PROVE  Moved(scope, from, to) \in [Runners -> Statuses]
BY DEF Moved, TypeOK

\* A thread is in charge if and only if `running` says so.
LEMMA RunningIsOwned == ASSUME ThreadInv PROVE Running <=> handle # {}
BY DEF ThreadInv, Owned, Running

-----------------------------------------------------------------------------
(* The thread is synced. *)

\* What a sync leaves: types, a thread in charge that is alive, or everyone told
\* to stop; in charge exactly if a runner is live.
Synced(st) ==
    /\ stop' \in BOOLEAN /\ attached' \in BOOLEAN
    /\ handle' \subseteq Threads
    /\ thread' \in [Threads -> Poller]
    /\ Owned' /\ Rest'
    /\ HasLive(st) <=> handle' # {}

LEMMA StartKeeps ==
    ASSUME ThreadInv, StartFeed, NEW st, HasLive(st), attached' \in BOOLEAN
    PROVE  Synced(st)
<1>1. PICK t \in Threads : /\ thread[t].pc = "ended"
                           /\ handle' = {t} /\ stop' = FALSE
                           /\ thread' = [thread EXCEPT ![t] = Loop]
  BY DEF StartFeed
<1>2. thread \in [Threads -> Poller]  BY DEF ThreadInv, TypeOK
<1>3. thread' \in [Threads -> Poller] /\ thread'[t] = Loop
  BY <1>1, <1>2, PollerTypes
<1>4. Owned' /\ Rest'  BY <1>1, <1>3, PollerTypes DEF Owned, Rest
<1> QED  BY <1>1, <1>3, <1>4 DEF Synced

LEMMA StopKeeps ==
    ASSUME ThreadInv, StopFeed, NEW st, ~HasLive(st), attached' \in BOOLEAN
    PROVE  Synced(st)
<1>1. thread \in [Threads -> Poller]  BY DEF ThreadInv, TypeOK
<1>2. thread' \in [Threads -> Poller]  BY <1>1, PollerTypes DEF StopFeed
<1>3. Owned' /\ Rest'  BY DEF StopFeed, Owned, Rest
<1> QED  BY <1>2, <1>3 DEF Synced, StopFeed

LEMMA SyncKeeps ==
    ASSUME ThreadInv, NEW st, Sync(st)
    PROVE  Synced(st)
<1>1. attached' \in BOOLEAN  BY FeedAssumption DEF Sync, FeedAssumption, HasLive
<1>2. CASE HasLive(st) /\ ~Running
  BY <1>1, <1>2, StartKeeps DEF Sync
<1>3. CASE ~HasLive(st) /\ Running
  <2>1. StopFeed  BY <1>3 DEF Sync
  <2> QED  BY <1>1, <1>3, <2>1, StopKeeps
<1>4. CASE HasLive(st) <=> Running
  <2>1. UNCHANGED <<stop, handle, thread>>  BY <1>4 DEF Sync
  <2>2. HasLive(st) <=> handle # {}  BY <1>4, RunningIsOwned
  <2> QED  BY <1>1, <2>1, <2>2 DEF Synced, ThreadInv, TypeOK, Owned, Rest
<1> QED  BY <1>2, <1>3, <1>4

\* What is true of the threads after any step that leaves them alone or syncs.
ThreadsKept ==
    /\ stop' \in BOOLEAN /\ attached' \in BOOLEAN
    /\ handle' \subseteq Threads
    /\ thread' \in [Threads -> Poller]
    /\ Owned' /\ Rest'

LEMMA SyncedIsKept == ASSUME NEW st, Synced(st) PROVE ThreadsKept
BY DEF Synced, ThreadsKept

LEMMA NoSyncKeeps ==
    ASSUME ThreadInv, NoSync
    PROVE  ThreadsKept
BY DEF ThreadInv, TypeOK, NoSync, ThreadsKept, Owned, Rest

-----------------------------------------------------------------------------
(* One lemma per operation: what it does to the fleet and the feed. *)

LEMMA AddStep ==
    ASSUME ThreadInv, NEW r \in Runners, NEW start \in BOOLEAN, AddRunner(r, start)
    PROVE  /\ ThreadInv'
           /\ status' = [status EXCEPT ![r] = IF start THEN "RUNNING" ELSE "STOPPED"]
           /\ status[r] = "absent"
           /\ symbols' = symbols \cup Watches[r]
           /\ start => Synced(status')
           /\ ~start => UNCHANGED handle
<1>1. ThreadsKept
  <2>1. CASE start  BY <2>1, SyncKeeps, SyncedIsKept DEF AddRunner
  <2>2. CASE ~start  BY <2>2, NoSyncKeeps DEF AddRunner
  <2> QED  BY <2>1, <2>2
<1>2. Watches[r] \subseteq Symbols  BY FeedAssumption DEF FeedAssumption
<1>3. last' \in [Runners -> [Symbols -> Nat]]
  BY NoBarType DEF AddRunner, ThreadInv, TypeOK
<1>4. status' \in [Runners -> Statuses]  BY DEF AddRunner, ThreadInv, TypeOK, Statuses
<1>5. TypeOK'  BY <1>1, <1>2, <1>3, <1>4 DEF AddRunner, ThreadInv, TypeOK, ThreadsKept
<1>6. ThreadInv'  BY <1>1, <1>5 DEF ThreadInv, ThreadsKept
<1>7. start => Synced(status')  BY SyncKeeps DEF AddRunner
<1> QED  BY <1>6, <1>7 DEF AddRunner, NoSync

LEMMA RemoveStep ==
    ASSUME ThreadInv, NEW r \in Runners, RemoveRunner(r)
    PROVE  /\ ThreadInv' /\ Synced(status')
           /\ status' = [status EXCEPT ![r] = "absent"]
           /\ symbols' = symbols \ Watches[r]
<1>1. Synced(status')  BY SyncKeeps DEF RemoveRunner
<1>2. ThreadsKept  BY <1>1, SyncedIsKept
<1>3. status' \in [Runners -> Statuses]  BY DEF RemoveRunner, ThreadInv, TypeOK, Statuses
<1>4. lastTs' \in [Symbols -> Nat]  BY DEF RemoveRunner, ThreadInv, TypeOK
<1>5. TypeOK'  BY <1>2, <1>3, <1>4 DEF RemoveRunner, ThreadInv, TypeOK, ThreadsKept
<1> QED  BY <1>1, <1>2, <1>5 DEF RemoveRunner, ThreadInv, ThreadsKept

LEMMA ControlAllStep ==
    ASSUME ThreadInv, NEW st \in [Runners -> Statuses], ControlAll(st)
    PROVE  ThreadInv' /\ Synced(st) /\ status' = st /\ UNCHANGED symbols
<1>1. Synced(st)  BY SyncKeeps DEF ControlAll
<1>2. ThreadsKept  BY <1>1, SyncedIsKept
<1>3. TypeOK'  BY <1>2 DEF ControlAll, ThreadInv, TypeOK, ThreadsKept
<1> QED  BY <1>1, <1>2, <1>3 DEF ControlAll, ThreadInv, ThreadsKept

LEMMA ControlStep ==
    ASSUME ThreadInv, NEW st \in [Runners -> Statuses], Control(st)
    PROVE  /\ ThreadInv' /\ status' = st /\ UNCHANGED symbols
           /\ SyncsOnControl => Synced(st)
<1>1. SyncsOnControl => Synced(st)  BY SyncKeeps DEF Control
<1>2. ThreadsKept  BY SyncKeeps, SyncedIsKept, NoSyncKeeps DEF Control
<1>3. TypeOK'  BY <1>2 DEF Control, ThreadInv, TypeOK, ThreadsKept
<1> QED  BY <1>1, <1>2, <1>3 DEF Control, ThreadInv, ThreadsKept

\* A step of one thread that does not end the one in charge.
LEMMA MovesKeep ==
    ASSUME ThreadInv, NEW t \in Threads, NEW w \in Poller, Moves(t, w),
           w.pc = "ended" => stop, thread[t].pc # "ended",
           lastTs' \in [Symbols -> Nat], last' \in [Runners -> [Symbols -> Nat]],
           UNCHANGED crashes
    PROVE  ThreadInv' /\ UNCHANGED <<status, symbols, handle>>
<1>1. UNCHANGED <<now, status, symbols, stop, handle, attached, forming, ws>>
  BY DEF Moves
<1>2. thread \in [Threads -> Poller] /\ thread' = [thread EXCEPT ![t] = w]
  BY DEF Moves, ThreadInv, TypeOK
<1>3. Owned'
  <2> SUFFICES ASSUME NEW u \in handle PROVE thread'[u].pc # "ended" /\ ~stop
    BY <1>1 DEF Owned
  <2>1. u \in Threads /\ thread[u].pc # "ended" /\ ~stop
    BY DEF ThreadInv, Owned, TypeOK
  <2> QED  BY <1>2, <2>1
<1>4. Rest'
  <2>1. handle = {} => stop  BY DEF ThreadInv, Rest
  <2> QED  BY <1>1, <2>1 DEF Rest
<1>5. TypeOK'  BY <1>1, <1>2 DEF ThreadInv, TypeOK
<1> QED  BY <1>1, <1>3, <1>4, <1>5 DEF ThreadInv

\* A step that moves bars and minutes, not runners or the feed's threads' owner.
Quiet == ThreadInv' /\ UNCHANGED <<status, symbols, handle>>

LEMMA DeliverType ==
    ASSUME TypeOK, NEW s, NEW m \in Nat, Deliver(s, m)
    PROVE  last' \in [Runners -> [Symbols -> Nat]]
BY DEF TypeOK, Deliver

LEMMA PollerParts ==
    ASSUME TypeOK, NEW t \in Threads, NEW s
    PROVE  /\ Swept(t, s) \in Poller /\ Swept(t, s).pc = "sweep"
           /\ thread[t].bar \subseteq Bars
           /\ [thread[t] EXCEPT !.pc = "push"] \in Poller
           /\ [thread[t] EXCEPT !.pc = "push"].pc = "push"
<1>1. thread[t] \in Poller  BY DEF TypeOK
<1> QED  BY <1>1 DEF Poller, Swept

LEMMA PollStep == ASSUME ThreadInv, NEW t \in Threads, Poll(t) PROVE Quiet
<1> DEFINE w == IF stop THEN Ended ELSE [pc |-> "sweep", todo |-> symbols, bar |-> {}]
<1>1. w \in Poller /\ (w.pc = "ended" => stop)
  BY PollerTypes DEF ThreadInv, TypeOK, Poller
<1>2. Moves(t, w)  BY DEF Poll
<1> HIDE DEF w
<1>3. thread[t].pc # "ended" /\ UNCHANGED <<last, lastTs>> /\ UNCHANGED crashes
  BY DEF Poll, Moves
<1> QED  BY <1>1, <1>2, <1>3, MovesKeep DEF Quiet, ThreadInv, TypeOK

LEMMA FetchOkStep ==
    ASSUME ThreadInv, NEW t \in Threads, NEW s \in Symbols, FetchOk(t, s) PROVE Quiet
<1> DEFINE w == [pc |-> "got", todo |-> thread[t].todo \ {s}, bar |-> {<<s, now>>}]
<1>1. thread[t] \in Poller /\ now \in Nat  BY DEF ThreadInv, TypeOK
<1>2. w \in Poller /\ w.pc # "ended"  BY <1>1 DEF Poller, Bars
<1>3. Moves(t, w)  BY DEF FetchOk
<1> HIDE DEF w
<1>4. thread[t].pc # "ended" /\ UNCHANGED <<last, lastTs>> /\ UNCHANGED crashes
  BY DEF FetchOk, Moves
<1> QED  BY <1>2, <1>3, <1>4, MovesKeep DEF Quiet, ThreadInv, TypeOK

LEMMA FetchFailsStep ==
    ASSUME ThreadInv, NEW t \in Threads, NEW s \in Symbols, FetchFails(t, s) PROVE Quiet
<1>1. thread[t].pc # "ended" /\ UNCHANGED <<last, lastTs>> /\ UNCHANGED crashes
  BY DEF FetchFails, Moves
<1>2. Moves(t, Swept(t, s))  BY DEF FetchFails
<1>3. Swept(t, s) \in Poller /\ Swept(t, s).pc # "ended"  BY PollerParts DEF ThreadInv
<1> QED  BY <1>1, <1>2, <1>3, MovesKeep DEF Quiet, ThreadInv, TypeOK

LEMMA AcceptStep == ASSUME ThreadInv, NEW t \in Threads, Accept(t) PROVE Quiet
<1>1. thread[t].pc # "ended" /\ UNCHANGED last  BY DEF Accept
<1>2. PICK b \in thread[t].bar :
         IF b[2] > lastTs[b[1]]
         THEN /\ lastTs' = [lastTs EXCEPT ![b[1]] = b[2]]
              /\ Moves(t, [thread[t] EXCEPT !.pc = "push"])
         ELSE UNCHANGED lastTs /\ Moves(t, Swept(t, b[1]))
  BY DEF Accept
<1>3. b[1] \in Symbols /\ b[2] \in Nat  BY PollerParts DEF ThreadInv, Bars
<1>4. lastTs' \in [Symbols -> Nat]  BY <1>2, <1>3 DEF ThreadInv, TypeOK
<1>5. PICK w \in Poller : Moves(t, w) /\ w.pc # "ended"
  BY <1>2, PollerParts DEF ThreadInv
<1>6. UNCHANGED crashes  BY <1>5 DEF Moves
<1> QED  BY <1>1, <1>4, <1>5, <1>6, MovesKeep DEF Quiet, ThreadInv, TypeOK

LEMMA PushStep == ASSUME ThreadInv, NEW t \in Threads, Push(t) PROVE Quiet
<1>1. thread[t].pc # "ended" /\ UNCHANGED lastTs  BY DEF Push
<1>2. PICK b \in thread[t].bar : Deliver(b[1], b[2]) /\ Moves(t, Swept(t, b[1]))
  BY DEF Push
<1>3. b[2] \in Nat  BY PollerParts DEF ThreadInv, Bars
<1>4. last' \in [Runners -> [Symbols -> Nat]]  BY <1>2, <1>3, DeliverType DEF ThreadInv
<1>5. Swept(t, b[1]) \in Poller /\ Swept(t, b[1]).pc # "ended"
  BY PollerParts DEF ThreadInv
<1>6. UNCHANGED crashes  BY <1>2 DEF Moves
<1> QED  BY <1>1, <1>2, <1>4, <1>5, <1>6, MovesKeep DEF Quiet, ThreadInv, TypeOK

LEMMA EndSweepStep == ASSUME ThreadInv, NEW t \in Threads, EndSweep(t) PROVE Quiet
<1>1. thread[t].pc # "ended" /\ UNCHANGED <<last, lastTs>> /\ UNCHANGED crashes
  BY DEF EndSweep, Moves
<1>2. Moves(t, Loop)  BY DEF EndSweep
<1> QED  BY <1>1, <1>2, PollerTypes, MovesKeep DEF Quiet, ThreadInv, TypeOK

\* A step that leaves the threads alone.
LEMMA ThreadsAlone ==
    ASSUME ThreadInv, UNCHANGED <<status, symbols, stop, handle, thread>>, TypeOK'
    PROVE  Quiet
BY DEF Quiet, ThreadInv, Owned, Rest

LEMMA MinuteStep == ASSUME ThreadInv, Minute PROVE Quiet
<1>1. TypeOK'  BY DEF Minute, ThreadInv, TypeOK, fleet, feed
<1> QED  BY <1>1, ThreadsAlone DEF Minute, fleet, feed

LEMMA WarmedStep == ASSUME ThreadInv, NEW r \in Runners, Warmed(r) PROVE Quiet
<1>1. last' \in [Runners -> [Symbols -> Nat]]
  BY DEF Warmed, ThreadInv, TypeOK
<1>2. TypeOK'  BY <1>1 DEF Warmed, ThreadInv, TypeOK, feed
<1> QED  BY <1>2, ThreadsAlone DEF Warmed, feed

LEMMA WsTickStep == ASSUME ThreadInv, NEW s \in Symbols, WsTick(s) PROVE Quiet
<1>1. ws' \in Ticker  BY DEF WsTick, ThreadInv, TypeOK, Ticker, Bars
<1>2. TypeOK'  BY <1>1 DEF WsTick, ThreadInv, TypeOK, fleet, feed
<1> QED  BY <1>2, ThreadsAlone DEF WsTick, fleet, feed

LEMMA WsAcceptStep == ASSUME ThreadInv, WsAccept PROVE Quiet
<1>1. ws.bar \subseteq Bars /\ ws \in Ticker  BY DEF ThreadInv, TypeOK, Ticker
<1>2. PICK b \in ws.bar :
         IF b[1] \in symbols /\ b[2] > lastTs[b[1]]
         THEN lastTs' = [lastTs EXCEPT ![b[1]] = b[2]] /\ ws' = [ws EXCEPT !.pc = "push"]
         ELSE UNCHANGED lastTs /\ ws' = Idle
  BY DEF WsAccept
<1>3. lastTs' \in [Symbols -> Nat]  BY <1>1, <1>2 DEF ThreadInv, TypeOK, Bars
<1>4. ws' \in Ticker  BY <1>1, <1>2, PollerTypes DEF Ticker
<1>5. TypeOK'  BY <1>3, <1>4 DEF WsAccept, ThreadInv, TypeOK, fleet
<1> QED  BY <1>5, ThreadsAlone DEF WsAccept, fleet

LEMMA WsPushStep == ASSUME ThreadInv, WsPush PROVE Quiet
<1>1. PICK b \in ws.bar : Deliver(b[1], b[2])  BY DEF WsPush
<1>2. b[2] \in Nat  BY DEF ThreadInv, TypeOK, Ticker, Bars
<1>3. last' \in [Runners -> [Symbols -> Nat]]  BY <1>1, <1>2, DeliverType DEF ThreadInv
<1>4. TypeOK'  BY <1>3, PollerTypes DEF WsPush, ThreadInv, TypeOK, feed
<1> QED  BY <1>4, ThreadsAlone DEF WsPush, feed

\* After a restart a thread is in charge exactly if some runner runs, and the
\* feed has the symbols of every runner that is there.
LEMMA RestartStep ==
    ASSUME ThreadInv, Restart
    PROVE  /\ ThreadInv'
           /\ \A r \in Runners : status'[r] = "absent" <=> status[r] = "absent"
           /\ symbols' = UNION {Watches[r] : r \in {x \in Runners : status[x] # "absent"}}
           /\ (\E r \in Runners : status'[r] = "RUNNING") <=> handle' # {}
<1>1. PICK holders \in SUBSET Runners :
         status' = [r \in Runners |-> IF status[r] = "RUNNING" /\ r \notin holders
                                      THEN "PAUSED" ELSE status[r]]
  BY DEF Restart
<1>2. status \in [Runners -> Statuses]  BY DEF ThreadInv, TypeOK
<1>3. status' \in [Runners -> Statuses]  BY <1>1, <1>2 DEF Statuses
<1>4. \A r \in Runners : status'[r] = "absent" <=> status[r] = "absent"
  BY <1>1, <1>2
<1>5. last' \in [Runners -> [Symbols -> Nat]]  BY DEF Restart, ThreadInv, TypeOK
<1>6. symbols' \subseteq Symbols  BY FeedAssumption DEF FeedAssumption, Restart
<1>7. /\ handle' \subseteq Threads /\ thread' \in [Threads -> Poller]
      /\ Owned' /\ Rest'
      /\ (\E r \in Runners : status'[r] = "RUNNING") <=> handle' # {}
  <2>1. CASE \E r \in Runners : status'[r] = "RUNNING"
    <3>1. PICK t \in Threads :
             /\ handle' = {t}
             /\ thread' = [x \in Threads |-> IF x = t THEN Loop ELSE Ended]
      BY <2>1 DEF Restart
    <3>2. stop' = FALSE  BY DEF Restart
    <3> QED  BY <2>1, <3>1, <3>2, PollerTypes DEF Owned, Rest
  <2>2. CASE ~\E r \in Runners : status'[r] = "RUNNING"
    <3>1. handle' = {} /\ thread' = [t \in Threads |-> Ended]
      BY <2>2 DEF Restart
    <3> QED  BY <2>2, <3>1, PollerTypes DEF Owned, Rest
  <2> QED  BY <2>1, <2>2
<1>8. attached' \in BOOLEAN  BY FeedAssumption DEF Restart, FeedAssumption
<1>9. TypeOK'
  <2>1. crashes' \in Nat /\ now' \in Nat  BY DEF Restart, ThreadInv, TypeOK
  <2>2. ws' \in Ticker /\ stop' \in BOOLEAN  BY PollerTypes DEF Restart
  <2>3. lastTs' \in [Symbols -> Nat] /\ forming' \in [Symbols -> Nat]
    BY NoBarType DEF Restart
  <2> QED  BY <1>3, <1>5, <1>6, <1>7, <1>8, <2>1, <2>2, <2>3 DEF TypeOK
<1> QED  BY <1>4, <1>7, <1>9 DEF ThreadInv, Restart

-----------------------------------------------------------------------------
(* The step of the whole specification. *)

LEMMA InitHolds ==
    ASSUME Init
    PROVE  ThreadInv /\ AllSubscribed /\ FedWhileRunning /\ NoneWhileIdle
<1>1. \A t \in Threads : thread[t] = Ended  BY DEF Init
<1>2. Owned /\ Rest  BY <1>1, PollerTypes DEF Init, Owned, Rest
<1>3. TypeOK  BY NoBarType, PollerTypes DEF Init, TypeOK, Statuses
<1> QED  BY <1>2, <1>3 DEF ThreadInv, Init, AllSubscribed, FedWhileRunning, NoneWhileIdle

\* Every step of the bars is a quiet one.
Bar ==
    \/ Minute \/ WsAccept \/ WsPush
    \/ \E s \in Symbols : WsTick(s)
    \/ \E r \in Runners : Warmed(r)
    \/ \E t \in Threads :
          \/ Poll(t) \/ Accept(t) \/ Push(t) \/ EndSweep(t)
          \/ \E s \in Symbols : FetchOk(t, s) \/ FetchFails(t, s)

LEMMA BarStep == ASSUME ThreadInv, Bar PROVE Quiet
<1>1. CASE Minute \/ WsAccept \/ WsPush
  BY <1>1, MinuteStep, WsAcceptStep, WsPushStep
<1>2. CASE \E s \in Symbols : WsTick(s)  BY <1>2, WsTickStep
<1>3. CASE \E r \in Runners : Warmed(r)  BY <1>3, WarmedStep
<1>4. ASSUME NEW t \in Threads,
             \/ Poll(t) \/ Accept(t) \/ Push(t) \/ EndSweep(t)
             \/ \E s \in Symbols : FetchOk(t, s) \/ FetchFails(t, s)
      PROVE  Quiet
  BY <1>4, PollStep, AcceptStep, PushStep, EndSweepStep, FetchOkStep, FetchFailsStep
<1> QED  BY <1>1, <1>2, <1>3, <1>4 DEF Bar

\* Every step that moves the status of a runner already there is a control of
\* one runner or of a scope.
SamePresent(st) == \A r \in Runners : st[r] = "absent" <=> status[r] = "absent"
OneControlled == \E st \in [Runners -> Statuses] : Control(st) /\ SamePresent(st)
AllControlled == \E st \in [Runners -> Statuses] : ControlAll(st) /\ SamePresent(st)

LEMMA MovedStays ==
    ASSUME NEW scope, NEW from, "absent" \notin from, NEW to, to # "absent"
    PROVE  SamePresent(Moved(scope, from, to))
BY DEF SamePresent, Moved

LEMMA NextCases ==
    ASSUME TypeOK, Next
    PROVE  \/ Bar \/ Restart \/ OneControlled \/ AllControlled
           \/ \E r \in Runners, start \in BOOLEAN : AddRunner(r, start)
           \/ \E r \in Runners : RemoveRunner(r)
<1>1. {"PAUSED", "RUNNING", "STOPPED"} \subseteq Statuses  BY DEF Statuses
<1>2. ASSUME NEW r \in Runners, Pause(r) \/ Resume(r) \/ Stop(r) PROVE OneControlled
  BY <1>1, <1>2, MovedType, MovedStays DEF Pause, Resume, Stop, OneControlled
<1>3. ASSUME NEW scope \in Scopes, PauseAll(scope) \/ ResumeAll(scope) \/ StopAll(scope)
      PROVE  AllControlled
  BY <1>1, <1>3, MovedType, MovedStays DEF PauseAll, ResumeAll, StopAll, AllControlled
<1> QED  BY <1>2, <1>3 DEF Next, Bar

LEMMA ThreadStep == ASSUME ThreadInv, [Next]_vars PROVE ThreadInv'
<1>1. CASE Next
  <2>1. CASE Bar  BY <2>1, BarStep DEF Quiet
  <2>2. CASE Restart  BY <2>2, RestartStep
  <2>3. CASE OneControlled  BY <2>3, ControlStep DEF OneControlled
  <2>4. CASE AllControlled  BY <2>4, ControlAllStep DEF AllControlled
  <2>5. CASE \E r \in Runners, start \in BOOLEAN : AddRunner(r, start)
    BY <2>5, AddStep
  <2>6. CASE \E r \in Runners : RemoveRunner(r)  BY <2>6, RemoveStep
  <2> QED  BY <1>1, <2>1, <2>2, <2>3, <2>4, <2>5, <2>6, NextCases DEF ThreadInv
<1>2. CASE UNCHANGED vars
  BY <1>2 DEF vars, fleet, feed, ThreadInv, TypeOK, Owned, Rest
<1> QED  BY <1>1, <1>2

\* The types are invariant: of the feed and its threads, of the runners' stamps
\* and of the bars under way (every operation of _BrokerBarFeedBase).
THEOREM FeedTypes == ASSUME FeedAssumption PROVE Spec => []TypeOK
<1>1. Init => ThreadInv  BY InitHolds
<1>2. ThreadInv /\ [Next]_vars => ThreadInv'  BY ThreadStep
<1>3. ThreadInv => TypeOK  BY DEF ThreadInv
<1> QED  BY <1>1, <1>2, <1>3, PTL DEF Spec

-----------------------------------------------------------------------------
(* A running runner is polled. *)

Polled == ThreadInv /\ AllSubscribed /\ FedWhileRunning

LEMMA PolledStep ==
    ASSUME Polled, [Next]_vars, WatchedOnce, SyncsOnControl
    PROVE  Polled'
<1> USE DEF Polled
<1>1. ThreadInv'  BY ThreadStep
<1>2. status \in [Runners -> Statuses]  BY DEF ThreadInv, TypeOK
<1>3. ASSUME NEW st \in [Runners -> Statuses], Synced(st), status' = st
      PROVE  FedWhileRunning'
  BY <1>3 DEF Synced, HasLive, FedWhileRunning
<1>4. CASE Bar
  BY <1>4, BarStep DEF Quiet, AllSubscribed, FedWhileRunning
<1>5. CASE Restart
  <2>1. AllSubscribed'  BY <1>5, RestartStep DEF AllSubscribed
  <2>2. FedWhileRunning'  BY <1>5, RestartStep DEF FedWhileRunning
  <2> QED  BY <1>1, <2>1, <2>2
<1>6. CASE OneControlled \/ AllControlled
  <2>1. PICK st \in [Runners -> Statuses] : (Control(st) \/ ControlAll(st)) /\ SamePresent(st)
    BY <1>6 DEF OneControlled, AllControlled
  <2>2. Synced(st) /\ status' = st /\ UNCHANGED symbols
    BY <2>1, ControlStep, ControlAllStep
  <2>3. AllSubscribed'  BY <2>1, <2>2 DEF SamePresent, AllSubscribed
  <2>4. FedWhileRunning'  BY <1>3, <2>2
  <2> QED  BY <1>1, <2>3, <2>4
<1>7. ASSUME NEW r \in Runners, NEW start \in BOOLEAN, AddRunner(r, start)
      PROVE  Polled'
  <2>1. AllSubscribed'  BY <1>2, <1>7, AddStep DEF AllSubscribed
  <2>2. FedWhileRunning'
    BY <1>2, <1>7, AddStep DEF FedWhileRunning, Synced, HasLive
  <2> QED  BY <1>1, <2>1, <2>2
<1>8. ASSUME NEW r \in Runners, RemoveRunner(r) PROVE Polled'
  <2>1. AllSubscribed'
    BY <1>2, <1>8, RemoveStep DEF AllSubscribed, WatchedOnce
  <2>2. FedWhileRunning'
    BY <1>2, <1>8, RemoveStep DEF FedWhileRunning, Synced, HasLive
  <2> QED  BY <1>1, <2>1, <2>2
<1>9. CASE UNCHANGED vars
  BY <1>1, <1>9 DEF vars, fleet, feed, AllSubscribed, FedWhileRunning
<1> QED  BY <1>4, <1>5, <1>6, <1>7, <1>8, <1>9, NextCases DEF ThreadInv

\* PolledWhileRunning, for any number of runners, threads, minutes and restarts,
\* if no symbol has two watchers and every control syncs the thread: so does
\* mStock's (control_runner, _sync_mstock_thread).
THEOREM RunningIsPolled ==
    ASSUME FeedAssumption, WatchedOnce, SyncsOnControl
    PROVE  Spec => []PolledWhileRunning
<1>1. Init => Polled  BY InitHolds DEF Polled
<1>2. Polled /\ [Next]_vars => Polled'  BY PolledStep
<1>3. Polled => PolledWhileRunning
  <2> SUFFICES ASSUME Polled, NEW r \in Runners, status[r] = "RUNNING"
               PROVE  Watches[r] \subseteq symbols /\ ~stop /\ Running
    BY DEF PolledWhileRunning
  <2>1. handle # {}  BY DEF Polled, FedWhileRunning
  <2>2. Running /\ ~stop  BY <2>1, RunningIsOwned DEF Polled, ThreadInv, Owned
  <2> QED  BY <2>2 DEF Polled, AllSubscribed
<1> QED  BY <1>1, <1>2, <1>3, PTL DEF Spec

-----------------------------------------------------------------------------
(* An idle feed rests. *)

Idles == ThreadInv /\ NoneWhileIdle

LEMMA IdlesStep ==
    ASSUME Idles, [Next]_vars, SyncsOnControl
    PROVE  Idles'
<1> USE DEF Idles
<1>1. ThreadInv'  BY ThreadStep
<1>2. status \in [Runners -> Statuses]  BY DEF ThreadInv, TypeOK
<1>3. ASSUME NEW st, Synced(st), status' = st PROVE NoneWhileIdle'
  BY <1>3 DEF Synced, HasLive, NoneWhileIdle
<1>4. CASE Bar
  BY <1>4, BarStep DEF Quiet, NoneWhileIdle, HasLive
<1>5. CASE Restart
  BY <1>1, <1>5, RestartStep DEF NoneWhileIdle, HasLive
<1>6. CASE OneControlled \/ AllControlled
  <2>1. PICK st \in [Runners -> Statuses] : Control(st) \/ ControlAll(st)
    BY <1>6 DEF OneControlled, AllControlled
  <2> QED  BY <1>1, <1>3, <2>1, ControlStep, ControlAllStep
<1>7. ASSUME NEW r \in Runners, NEW start \in BOOLEAN, AddRunner(r, start)
      PROVE  Idles'
  <2>1. CASE start  BY <1>1, <1>3, <1>7, <2>1, AddStep
  <2>2. CASE ~start
    <3>1. HasLive(status) => HasLive(status')
      BY <1>2, <1>7, <2>2, AddStep DEF HasLive
    <3> QED  BY <1>1, <1>7, <2>2, <3>1, AddStep DEF NoneWhileIdle, HasLive
  <2> QED  BY <2>1, <2>2
<1>8. ASSUME NEW r \in Runners, RemoveRunner(r) PROVE Idles'
  BY <1>1, <1>3, <1>8, RemoveStep
<1>9. CASE UNCHANGED vars
  BY <1>1, <1>9 DEF vars, fleet, feed, NoneWhileIdle, HasLive
<1> QED  BY <1>4, <1>5, <1>6, <1>7, <1>8, <1>9, NextCases DEF ThreadInv

\* IdleFeedRests, whoever watches what, if every control syncs the thread: no
\* poll is paid for when no runner is left to be fed (_sync_mstock_thread).
THEOREM IdleThreadsRest ==
    ASSUME FeedAssumption, SyncsOnControl
    PROVE  Spec => []IdleFeedRests
<1>1. Init => Idles  BY InitHolds DEF Idles
<1>2. Idles /\ [Next]_vars => Idles'  BY IdlesStep
<1>3. Idles => IdleFeedRests
  BY RunningIsOwned DEF Idles, NoneWhileIdle, ThreadInv, Rest, IdleFeedRests
<1> QED  BY <1>1, <1>2, <1>3, PTL DEF Spec

=============================================================================
