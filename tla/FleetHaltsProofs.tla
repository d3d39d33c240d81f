-------------------------- MODULE FleetHaltsProofs --------------------------
(***************************************************************************)
(* Proofs about FleetHalts, for any fleet, any number of days, crashes,    *)
(* requests and overlapping saves: a halted scope rests, a saved latch     *)
(* outlives every restart of its day, a parked runner stays on file.       *)
(***************************************************************************)
EXTENDS FleetHalts, TLAPS

LEMMA MembersOf ==
    /\ Members("paper") = PaperRunners /\ Members("live") = LiveRunners
    /\ Members("segment") = LiveRunners \cap InSegment
    /\ Members("portfolio") = Runners
    /\ \A s \in Scopes : Members(s) \subseteq Runners
BY DEF Members, Scopes, Buckets, Runners

\* Whoever a latch covers, the restore blocks.
LEMMA BlockedIfHalted ==
    ASSUME NEW l \in SUBSET Scopes, NEW r \in Runners, Halted(l, r)
    PROVE  BlockedByRisk(l, r)
BY MembersOf DEF Halted, BlockedByRisk, Scopes, Buckets

LEMMA HaltedMono ==
    ASSUME NEW l, NEW k, l \subseteq k, NEW r, Halted(l, r)
    PROVE  Halted(k, r)
BY DEF Halted

LEMMA RolledSub == ASSUME NEW l PROVE RolledLatches(l) \subseteq l
BY DEF RolledLatches

LEMMA KillType ==
    ASSUME latched \subseteq Scopes, NEW s \in Scopes, s # "segment"
    PROVE  KillLatches(s) \subseteq Scopes /\ latched \subseteq KillLatches(s)
BY DEF KillLatches, Scopes, Buckets

\* A kill latches the portfolio only over runners that its scope or the latch of
\* the other bucket covers.
LEMMA KillCovers ==
    ASSUME latched \subseteq Scopes, NEW s \in Scopes, s # "segment", NEW r \in Runners,
           Halted(KillLatches(s), r), r \notin Members(s)
    PROVE  Halted(latched, r)
<1>1. s # "portfolio"
  BY MembersOf
<1>2. PICK x \in KillLatches(s) : r \in Members(x)
  BY DEF Halted
<1>3. CASE x \in latched
  BY <1>2, <1>3 DEF Halted
<1>4. CASE x \notin latched
  <2>1. x # s
    BY <1>2
  <2>2. x = "portfolio" /\ Buckets \cup {"segment"} \subseteq latched \cup {s}
    BY <1>1, <1>2, <1>4, <2>1 DEF KillLatches
  <2>3. \E b \in Buckets : r \in Members(b)
    BY MembersOf DEF Buckets, Runners
  <2> QED BY <2>2, <2>3 DEF Halted
<1> QED BY <1>3, <1>4

LEMMA StatusTypes ==
    ASSUME TypeOK
    PROVE  /\ \A rs : Paused(rs) \in [Runners -> Statuses]
           /\ \A st \in Statuses : \A h : RestoredStatus(st, h) \in Statuses
           /\ \A st \in Statuses : \A l, r : BlockedStatus(st, l, r) \in Statuses
BY DEF TypeOK, Paused, RestoredStatus, BlockedStatus, Statuses

LEMMA MemoryType ==
    ASSUME TypeOK
    PROVE  Memory \in Payload
BY DEF TypeOK, Memory, Payload
-----------------------------------------------------------------------------
LEMMA PersistType ==
    ASSUME session' \in Nat, latched' \subseteq Scopes, status' \in [Runners -> Statuses], Persist
    PROVE  disk' \in Payload /\ overtaken' \subseteq Scopes
BY DEF Persist, Memory, Payload

LEMMA VouchType ==
    ASSUME TypeOK, NEW started \in SUBSET Runners, NEW slips \in SUBSET Runners,
           Vouch(started, slips)
    PROVE  vouched' \subseteq Runners /\ slipped' \subseteq Runners
BY DEF Vouch, TypeOK

LEMMA RollType == ASSUME TypeOK, Roll PROVE session' \in Nat /\ latched' \subseteq Scopes
BY RolledSub DEF Roll, TypeOK

LEMMA ControlsType ==
    ASSUME TypeOK, NEW st \in [Runners -> Statuses], NEW started \in SUBSET Runners,
           Controls(st, started)
    PROVE  TypeOK'
BY PersistType, VouchType DEF Controls, Request, TypeOK

LEMMA TypeInit == ASSUME FleetAssumption PROVE Init => TypeOK
BY FleetAssumption DEF FleetAssumption, Init, TypeOK, Memory, Payload, Pass, Wake, Free, Nobody,
   Statuses

LEMMA TypeStep == ASSUME FleetAssumption, TypeOK, [Next]_vars PROVE TypeOK'
<1> USE DEF TypeOK
<1>1. CASE PassBegins
  <2>1. pass' \in Pass
    BY <1>1 DEF PassBegins, Pass
  <2> QED BY <1>1, <2>1, RollType, VouchType DEF PassBegins, Unsaved
<1>2. ASSUME NEW s \in Scopes, PassTrips(s) PROVE TypeOK'
  <2>1. pass' \in Pass
    BY <1>2 DEF PassTrips, Pass, Present
  <2> QED BY <1>2, <2>1, VouchType DEF PassTrips, Breach, Unsaved
<1>3. CASE PassActs
  <2>1. pass' \in Pass
    BY <1>3 DEF PassActs, Pass
  <2> QED BY <1>3, <2>1, StatusTypes, VouchType DEF PassActs, Act, Unsaved
<1>4. CASE PassEnds
  <2>1. pass' \in Pass
    BY <1>4 DEF PassEnds, Pass, Free
  <2> QED BY <1>4, <2>1, PersistType, VouchType DEF PassEnds, Unsaved
<1>5. CASE Midnight
  BY <1>5 DEF Midnight
<1>6. ASSUME NEW r \in Runners, OwnFuse(r) PROVE TypeOK'
  BY <1>6, StatusTypes, VouchType DEF OwnFuse, Unsaved
<1>7. ASSUME NEW r \in Runners, Pause(r) \/ Resume(r) \/ Stop(r) PROVE TypeOK'
  <2>1. \A x \in Statuses : [status EXCEPT ![r] = x] \in [Runners -> Statuses]
    OBVIOUS
  <2>2. PICK st \in [Runners -> Statuses], started \in SUBSET Runners : Controls(st, started)
    BY <1>7, <2>1, StatusTypes DEF Pause, Resume, Stop, Statuses
  <2> QED BY <2>2, ControlsType
<1>8. ASSUME NEW s \in Scopes, PauseAll(s) \/ ResumeAll(s) \/ StopAll(s) PROVE TypeOK'
  <2>1. ResumedBy(s) \subseteq Runners
    BY DEF ResumedBy, Present
  <2> QED BY <1>8, <2>1, ControlsType, StatusTypes DEF PauseAll, ResumeAll, StopAll, Statuses
<1>9. ASSUME NEW s \in Scopes, KillCloses(s) PROVE TypeOK'
  <2>1. pass' \in Pass
    BY <1>9 DEF KillCloses, Pass, Free
  <2> QED BY <1>9, <2>1, StatusTypes, VouchType DEF KillCloses, Request, Unsaved
<1>10. ASSUME NEW s \in Scopes, s # "segment", Kill(s) PROVE TypeOK'
  <2>1. pass' \in Pass /\ latched' \subseteq Scopes
    BY <1>10, KillType DEF Kill, Pass
  <2> QED BY <1>10, <2>1, VouchType DEF Kill, Unsaved
<1>11. ASSUME NEW s \in Scopes, ResetBreaker(s) PROVE TypeOK'
  <2>1. ResetLatches(s) \subseteq Scopes
    BY DEF ResetLatches
  <2>2. disk' \in Payload
    BY <1>11, <2>1 DEF ResetBreaker, Memory, Payload
  <2> QED BY <1>11, <2>1, <2>2, VouchType, RolledSub DEF ResetBreaker, Request
<1>12. ASSUME NEW r \in Runners, NEW start \in BOOLEAN, AddRunner(r, start) PROVE TypeOK'
  <2>1. session' \in Nat /\ latched' \subseteq Scopes
    BY <1>12, RollType DEF AddRunner
  <2>2. status' \in [Runners -> Statuses]
    BY <1>12 DEF AddRunner, Statuses
  <2> QED BY <1>12, <2>1, <2>2, PersistType, VouchType DEF AddRunner, Request
<1>13. ASSUME NEW r \in Runners, RemoveRunner(r) PROVE TypeOK'
  <2>1. session' \in Nat /\ latched' \subseteq Scopes
    BY <1>13, RolledSub DEF RemoveRunner
  <2>2. status' \in [Runners -> Statuses]
    BY <1>13 DEF RemoveRunner, Statuses
  <2>3. waking' \in Wake
    BY <1>13 DEF RemoveRunner, Wake
  <2> QED BY <1>13, <2>1, <2>2, <2>3, PersistType, VouchType DEF RemoveRunner, Request
<1>14. CASE SaveReads
  BY <1>14, MemoryType DEF SaveReads, Request
<1>15. ASSUME NEW p \in drafts, SaveWrites(p) PROVE TypeOK'
  BY <1>15 DEF SaveWrites, ghosts
<1>16. CASE Restart
  <2>1. disk \in Payload
    OBVIOUS
  <2>2. latched' \subseteq Scopes /\ session' \in Nat /\ crashes' \in Nat
    BY <1>16, <2>1 DEF Restart, Payload
  <2>3. status' \in [Runners -> Statuses] /\ parked' \subseteq Runners
    <3>1. \A r \in Runners : disk.status[r] \in Statuses
      BY <2>1 DEF Payload
    <3> QED BY <1>16, <3>1, StatusTypes DEF Restart
  <2>4. waking' \in Wake /\ pass' \in Pass
    BY <1>16 DEF Restart, Wake, Pass, Nobody, Free, Statuses
  <2> QED BY <1>16, <2>2, <2>3, <2>4 DEF Restart
<1>17. ASSUME NEW r \in Runners, WakeAdd(r) PROVE TypeOK'
  <2>1. session' \in Nat /\ latched' \subseteq Scopes
    BY <1>17, RollType DEF WakeAdd
  <2>2. status' \in [Runners -> Statuses]
    BY <1>17 DEF WakeAdd, Statuses
  <2>3. waking' \in Wake
    BY <1>17 DEF WakeAdd, Wake
  <2> QED BY <1>17, <2>1, <2>2, <2>3, PersistType, VouchType DEF WakeAdd
<1>18. CASE WakeRestores
  <2>1. waking' \in Wake /\ waking.status \in Statuses /\ waking.runner \subseteq Runners
    BY <1>18 DEF WakeRestores, Wake
  <2>2. status' \in [Runners -> Statuses]
    BY <1>18, <2>1, StatusTypes DEF WakeRestores
  <2>3. {r \in waking.runner : pass.at \in Scopes /\ r \in Members(pass.at)} \in SUBSET Runners
    BY <2>1
  <2> QED BY <1>18, <2>1, <2>2, <2>3, VouchType DEF WakeRestores, Unsaved
<1>19. CASE WakeBlocks
  <2>1. waking' \in Wake
    BY <1>19 DEF WakeBlocks, Wake, Statuses
  <2>2. status' \in [Runners -> Statuses]
    BY <1>19, StatusTypes DEF WakeBlocks
  <2> QED BY <1>19, <2>1, <2>2, VouchType DEF WakeBlocks, Unsaved
<1>20. CASE WakeEvaluates
  <2>1. waking' \in Wake
    BY <1>20 DEF WakeEvaluates, Wake
  <2> QED BY <1>20, <2>1, RollType, VouchType DEF WakeEvaluates, Unsaved
<1>21. ASSUME NEW s \in Scopes, WakeTrips(s) PROVE TypeOK'
  <2>1. waking' \in Wake
    BY <1>21 DEF WakeTrips, Wake, Present
  <2> QED BY <1>21, <2>1, VouchType DEF WakeTrips, Breach, Unsaved
<1>22. CASE WakeActs
  <2>1. waking' \in Wake
    BY <1>22 DEF WakeActs, Wake
  <2> QED BY <1>22, <2>1, StatusTypes, VouchType DEF WakeActs, Act, Unsaved
<1>23. CASE WakeSaves
  <2>1. waking' \in Wake
    BY <1>23 DEF WakeSaves, Wake, Nobody, Statuses
  <2> QED BY <1>23, <2>1, MemoryType DEF WakeSaves
<1>24. CASE UNCHANGED vars
  BY <1>24 DEF vars
<1> QED
  BY <1>1, <1>2, <1>3, <1>4, <1>5, <1>6, <1>7, <1>8, <1>9, <1>10, <1>11, <1>12, <1>13, <1>14,
     <1>15, <1>16, <1>17, <1>18, <1>19, <1>20, <1>21, <1>22, <1>23, <1>24, FleetAssumption
     DEF Next, FleetAssumption

\* Every variable keeps its type.
THEOREM FleetTypes == ASSUME FleetAssumption PROVE Spec => []TypeOK
<1>1. TypeOK /\ [Next]_vars => TypeOK'
  BY FleetAssumption, TypeStep
<1> QED BY <1>1, FleetAssumption, TypeInit, PTL DEF Spec
-----------------------------------------------------------------------------
(* What a pass and a wake carry. *)

\* The steps that touch neither a pass nor a wake, nor park a runner.
LEMMA StepsQuiet ==
    ASSUME StepsInOrder, UNCHANGED <<pass, waking>>, parked' \subseteq parked
    PROVE  StepsInOrder'
BY DEF StepsInOrder

LEMMA StepsInit == Init => StepsInOrder
BY DEF Init, StepsInOrder, Free, Nobody, Scopes, Buckets

LEMMA StepsStep == ASSUME TypeOK, StepsInOrder, [Next]_vars, FleetAssumption PROVE StepsInOrder'
<1> USE DEF StepsInOrder
<1>0. /\ Scopes = {"paper", "live", "segment", "portfolio"}
      /\ pass \in Pass /\ waking \in Wake
  BY DEF Scopes, Buckets, TypeOK
<1>1. CASE PassBegins
  BY <1>0, <1>1 DEF PassBegins, Pass, Free
<1>2. ASSUME NEW s \in Scopes, PassTrips(s) PROVE StepsInOrder'
  BY <1>0, <1>2 DEF PassTrips, Breach, Pass, Present
<1>3. CASE PassActs
  BY <1>0, <1>3 DEF PassActs, Act, Pass
<1>4. CASE PassEnds
  BY <1>0, <1>4 DEF PassEnds, Free
<1>5. ASSUME NEW s \in Scopes, s # "segment", KillCloses(s) PROVE StepsInOrder'
  BY <1>0, <1>5 DEF KillCloses, Unlocked, Free, Pass
<1>6. ASSUME NEW s \in Scopes, Kill(s) PROVE StepsInOrder'
  <2>1. pass.due /\ pass.todo = {}
    BY <1>0, <1>6 DEF Kill
  <2>2. /\ pass' = [pass EXCEPT !.at = "latched", !.set = KillLatches(s) \ latched]
        /\ parked' = parked /\ waking' = waking
    BY <1>6 DEF Kill
  <2> QED BY <1>0, <2>1, <2>2 DEF Pass
<1>7. CASE Restart
  BY <1>0, <1>7 DEF Restart, Free, Nobody
<1>8. ASSUME NEW r \in Runners, WakeAdd(r) PROVE StepsInOrder'
  BY <1>0, <1>8 DEF WakeAdd, Wake
<1>9. ASSUME NEW r \in Runners, RemoveRunner(r) PROVE StepsInOrder'
  BY <1>0, <1>9 DEF RemoveRunner, Wake
<1>10. CASE WakeRestores \/ WakeBlocks \/ WakeEvaluates
  BY <1>0, <1>10 DEF WakeRestores, WakeBlocks, WakeEvaluates, Wake
<1>11. ASSUME NEW s \in Scopes, WakeTrips(s) PROVE StepsInOrder'
  BY <1>0, <1>11 DEF WakeTrips, Breach, Wake, Present
<1>12. CASE WakeActs \/ WakeSaves
  BY <1>0, <1>12 DEF WakeActs, Act, WakeSaves, Nobody, Wake
<1>13. CASE \/ Midnight \/ UNCHANGED vars \/ SaveReads \/ \E p \in drafts : SaveWrites(p)
            \/ \E r \in Runners : \/ OwnFuse(r) \/ Pause(r) \/ Resume(r) \/ Stop(r)
                                  \/ AddRunner(r, TRUE) \/ AddRunner(r, FALSE)
            \/ \E s \in Scopes : PauseAll(s) \/ ResumeAll(s) \/ StopAll(s) \/ ResetBreaker(s)
  <2>1. UNCHANGED <<pass, waking, parked>>
    BY <1>13 DEF Midnight, vars, SaveReads, SaveWrites, OwnFuse, Pause, Resume, Stop, AddRunner,
       PauseAll, ResumeAll, StopAll, ResetBreaker, Controls
  <2> HIDE DEF StepsInOrder
  <2> QED BY <2>1, StepsQuiet
<1> QED
  BY <1>1, <1>2, <1>3, <1>4, <1>5, <1>6, <1>7, <1>8, <1>9, <1>10, <1>11, <1>12, <1>13,
     FleetAssumption DEF Next, FleetAssumption
-----------------------------------------------------------------------------
(* A closed scope rests until it is latched. *)

\* Before the kill's latch: whoever runs in its scope ran before or was slipped.
LEMMA ClosedKept ==
    ASSUME TypeOK, ClosedScopeRests, pass'.at = pass.at, NEW slips, Vouch({}, slips),
           \A r \in Present' : status'[r] = "RUNNING" /\ pass.at \in Scopes /\ r \in Members(pass.at) =>
               r \in slips \/ (r \in Present /\ status[r] = "RUNNING")
    PROVE  ClosedScopeRests'
<1> SUFFICES ASSUME pass'.at \in Scopes, NEW r \in Members(pass'.at) \cap Present',
                    status'[r] = "RUNNING"
             PROVE  r \in slipped'
  BY DEF ClosedScopeRests, Members
<1>1. r \in slipped \cup slips
  BY DEF ClosedScopeRests
<1>2. r \in Runners /\ r \notin parked'
  BY DEF Present
<1> QED BY <1>1, <1>2 DEF Vouch, TypeOK

LEMMA PausedFacts ==
    ASSUME NEW rs, status' = Paused(rs), parked' = parked
    PROVE  /\ Present' = Present
           /\ \A r \in Runners : /\ status'[r] = "RUNNING" => status[r] = "RUNNING" /\ r \notin rs
                                 /\ r \notin rs => status'[r] = status[r]
<1>1. \A r \in Runners : /\ status'[r] = "RUNNING" => status[r] = "RUNNING" /\ r \notin rs
                         /\ status'[r] = "absent" <=> status[r] = "absent"
                         /\ r \notin rs => status'[r] = status[r]
  BY DEF Paused
<1> QED BY <1>1 DEF Present

LEMMA ClosedInit == Init => ClosedScopeRests
BY DEF Init, ClosedScopeRests, Free, Scopes, Buckets

\* Who holds the lock, or has just taken or left it, stands at no killed scope.
LEMMA ClosedElsewhere ==
    ASSUME pass'.at \notin Scopes
    PROVE  ClosedScopeRests'
BY DEF ClosedScopeRests

LEMMA ClosedStep ==
    ASSUME FleetAssumption, TypeOK, StepsInOrder, ClosedScopeRests, [Next]_vars
    PROVE  ClosedScopeRests'
<1>0. /\ {"idle", "latched", "evaluate"} \cap Scopes = {}
      /\ pass \in Pass /\ waking \in Wake
  BY DEF Scopes, Buckets, TypeOK
<1>1. CASE \/ PassBegins \/ PassActs \/ PassEnds \/ Restart
           \/ \E s \in Scopes : PassTrips(s) \/ Kill(s)
  <2>1. CASE PassBegins \/ PassEnds \/ Restart
    BY <1>0, <2>1, ClosedElsewhere DEF PassBegins, PassEnds, Restart, Free, Pass
  <2>2. CASE PassActs
    <3>1. pass.todo # {} /\ pass' = [pass EXCEPT !.todo = {}]
      BY <2>2 DEF PassActs, Act
    <3> QED BY <1>0, <3>1, ClosedElsewhere DEF StepsInOrder, Pass
  <2>3. ASSUME NEW s \in Scopes, PassTrips(s) \/ Kill(s) PROVE ClosedScopeRests'
    <3>1. pass'.at = "evaluate" \/ pass'.at = "latched"
      BY <1>0, <2>3 DEF PassTrips, Kill, Pass
    <3> QED BY <1>0, <3>1, ClosedElsewhere
  <2> QED BY <1>1, <2>1, <2>2, <2>3
<1>2. CASE \/ \E r \in Runners : \/ Pause(r) \/ Resume(r) \/ Stop(r) \/ AddRunner(r, TRUE)
                                 \/ AddRunner(r, FALSE) \/ RemoveRunner(r) \/ WakeAdd(r)
           \/ \E s \in Scopes : PauseAll(s) \/ ResumeAll(s) \/ StopAll(s) \/ ResetBreaker(s)
  <2>1. pass'.at = "idle"
    BY <1>2 DEF Unlocked, Pause, Resume, Stop, AddRunner, RemoveRunner, WakeAdd, PauseAll, ResumeAll,
       StopAll, ResetBreaker, Controls
  <2> QED BY <1>0, <2>1, ClosedElsewhere
<1>3. ASSUME NEW s \in Scopes, KillCloses(s) PROVE ClosedScopeRests'
  <2>1. pass'.at = s /\ status' = Paused(Members(s) \cap Present) /\ parked' = parked
    BY <1>3 DEF KillCloses, Free
  <2> QED BY <2>1, PausedFacts DEF ClosedScopeRests, Present, Members
<1>4. CASE \/ Midnight \/ UNCHANGED vars \/ SaveReads \/ WakeSaves
           \/ \E p \in drafts : SaveWrites(p)
  <2>1. pass' = pass /\ status' = status /\ parked' = parked /\ slipped' = slipped
    BY <1>4 DEF Midnight, vars, SaveReads, WakeSaves, SaveWrites, ghosts
  <2> QED BY <2>1 DEF ClosedScopeRests, Present, Members
<1>5. CASE WakeEvaluates \/ \E s \in Scopes : WakeTrips(s)
  <2>1. pass' = pass /\ status' = status /\ parked' = parked /\ Vouch({}, {})
    BY <1>5 DEF WakeEvaluates, WakeTrips, Breach
  <2> QED BY <2>1, ClosedKept DEF Present
<1>6. CASE WakeActs \/ \E r \in Runners : OwnFuse(r)
  <2>1. pass' = pass /\ parked' = parked /\ Vouch({}, {}) /\ \E rs : status' = Paused(rs)
    BY <1>6 DEF WakeActs, Act, OwnFuse
  <2> QED BY <2>1, PausedFacts, ClosedKept DEF Present
<1>7. CASE WakeRestores
  <2> DEFINE slips == {r \in waking.runner : pass.at \in Scopes /\ r \in Members(pass.at)}
  <2>1. pass' = pass /\ parked' = parked /\ Vouch({}, slips)
    BY <1>7 DEF WakeRestores
  <2>2. \A r \in Runners : r \notin waking.runner => status'[r] = status[r]
    BY <1>7 DEF WakeRestores
  <2>3. ASSUME NEW r \in Present', status'[r] = "RUNNING", pass.at \in Scopes, r \in Members(pass.at)
        PROVE  r \in slips \/ (r \in Present /\ status[r] = "RUNNING")
    BY <2>1, <2>2, <2>3 DEF Present
  <2> HIDE DEF slips
  <2> QED BY <2>1, <2>3, ClosedKept
<1>8. CASE WakeBlocks
  <2>1. pass' = pass /\ parked' = parked /\ Vouch({}, {})
    BY <1>8 DEF WakeBlocks
  <2>2. \A r \in Runners : status'[r] = "RUNNING" => status[r] = "RUNNING"
    BY <1>8 DEF WakeBlocks, BlockedStatus
  <2>3. ASSUME NEW r \in Present', status'[r] = "RUNNING"
        PROVE  r \in Present /\ status[r] = "RUNNING"
    BY <2>1, <2>2, <2>3 DEF Present
  <2> QED BY <2>1, <2>3, ClosedKept
<1> QED
  BY <1>1, <1>2, <1>3, <1>4, <1>5, <1>6, <1>7, <1>8, FleetAssumption DEF Next, FleetAssumption
-----------------------------------------------------------------------------
(* A halted scope rests. *)

\* What a step has to show of a runner that runs under a latch: it ran under one
\* before and nobody struck it off a list, or it is on one, or it is vouched for.
LEMMA VouchRests ==
    ASSUME TypeOK, HaltedScopesRest, NEW started, NEW slips, Vouch(started, slips),
           \A r \in Present' : status'[r] = "RUNNING" /\ Halted(latched', r) =>
               \/ r \in started \/ r \in slipped \/ Awaited(r)'
               \/ /\ r \in Present /\ status[r] = "RUNNING" /\ Halted(latched, r)
                  /\ Awaited(r) => Awaited(r)'
    PROVE  HaltedScopesRest'
<1> SUFFICES ASSUME NEW r \in Present', status'[r] = "RUNNING", Halted(latched', r),
                    ~Awaited(r)'
             PROVE  r \in vouched' \cup slipped'
  BY DEF HaltedScopesRest
<1>1. r \in vouched \cup started \cup slipped
  BY DEF HaltedScopesRest
<1>2. r \in Runners /\ r \notin parked'
  BY DEF Present
<1> QED BY <1>1, <1>2 DEF Vouch, TypeOK

\* The lists are where they were.
LEMMA AwaitedSame ==
    ASSUME UNCHANGED <<pass, waking>>, NEW r
    PROVE  Awaited(r) <=> Awaited(r)'
BY DEF Awaited

LEMMA RestsStep ==
    ASSUME FleetAssumption, TypeOK, StepsInOrder, ClosedScopeRests, HaltedScopesRest, [Next]_vars
    PROVE  HaltedScopesRest'
<1>0. pass \in Pass /\ waking \in Wake /\ latched \subseteq Scopes
  BY DEF TypeOK
<1>1. CASE PassBegins
  <2>1. /\ latched' \subseteq latched /\ status' = status /\ parked' = parked /\ Vouch({}, {})
        /\ pass' = [pass EXCEPT !.at = "evaluate"] /\ waking' = waking
    BY <1>1, RolledSub DEF PassBegins, Roll
  <2>2. \A r : Awaited(r) => Awaited(r)'
    BY <1>0, <2>1 DEF Awaited, Pass
  <2> QED BY <2>1, <2>2, HaltedMono, VouchRests DEF Present
<1>2. ASSUME NEW s \in Scopes, PassTrips(s) PROVE HaltedScopesRest'
  <2>1. /\ latched' = latched \cup {s} /\ status' = status /\ parked' = parked
        /\ Vouch({}, {}) /\ waking' = waking
        /\ pass.todo = {} /\ pass'.todo = Members(s) \cap Present
    BY <1>0, <1>2 DEF PassTrips, Breach, Pass
  <2>2. \A r \in Present : /\ Halted(latched', r) => Halted(latched, r) \/ r \in pass'.todo
                           /\ Awaited(r) => Awaited(r)'
    BY <2>1 DEF Halted, Awaited
  <2>3. Present' = Present
    BY <2>1 DEF Present
  <2>4. \A r \in pass'.todo : Awaited(r)'
    BY DEF Awaited
  <2> QED BY <2>1, <2>2, <2>3, <2>4, VouchRests
<1>3. CASE PassActs
  <2>1. /\ latched' = latched /\ status' = Paused(pass.todo) /\ parked' = parked
        /\ Vouch({}, {}) /\ waking' = waking
    BY <1>3 DEF PassActs, Act
  <2>2. \A r : r \notin pass.todo /\ Awaited(r) => Awaited(r)'
    BY <2>1 DEF Awaited
  <2> QED BY <2>1, <2>2, PausedFacts, VouchRests DEF Present
<1>4. CASE PassEnds
  <2>1. UNCHANGED <<latched, status, parked, waking>> /\ Vouch({}, {}) /\ pass.todo = {}
    BY <1>4 DEF PassEnds
  <2>2. \A r : Awaited(r) => Awaited(r)'
    BY <2>1 DEF Awaited
  <2> QED BY <2>1, <2>2, VouchRests DEF Present
<1>5. CASE Midnight \/ UNCHANGED vars \/ SaveReads \/ \E p \in drafts : SaveWrites(p)
  <2>1. UNCHANGED <<latched, status, parked, pass, waking, vouched, slipped>>
    BY <1>5 DEF Midnight, vars, SaveReads, SaveWrites, ghosts
  <2> QED BY <2>1 DEF HaltedScopesRest, Present, Awaited
<1>6. ASSUME NEW r \in Runners, OwnFuse(r) PROVE HaltedScopesRest'
  <2>1. /\ status' = Paused({r}) /\ UNCHANGED <<latched, parked, pass, waking>>
        /\ Vouch({}, {})
    BY <1>6 DEF OwnFuse
  <2> QED BY <2>1, PausedFacts, AwaitedSame, VouchRests DEF Present
<1>7. ASSUME NEW r \in Runners, Pause(r) \/ Resume(r) \/ Stop(r) PROVE HaltedScopesRest'
  <2>1. CASE Pause(r)
    <3>1. /\ status' = Paused({r}) /\ UNCHANGED <<latched, parked, pass, waking>>
          /\ Vouch({}, {})
      BY <2>1 DEF Pause, Controls
    <3> QED BY <3>1, PausedFacts, AwaitedSame, VouchRests DEF Present
  <2>2. CASE Resume(r) \/ Stop(r)
    <3>1. PICK started \in {{}, {r}}, v \in {"RUNNING", "STOPPED"} :
             /\ Controls([status EXCEPT ![r] = v], started)
             /\ v = "RUNNING" => started = {r}
      BY <2>2 DEF Resume, Stop
    <3>2. r \in Present
      BY <2>2 DEF Resume, Stop
    <3>3. /\ status' = [status EXCEPT ![r] = v] /\ Vouch(started, {})
          /\ UNCHANGED <<latched, parked, pass, waking>>
      BY <3>1 DEF Controls
    <3>4. ASSUME NEW x \in Present', status'[x] = "RUNNING"
          PROVE  x \in started \/ (x \in Present /\ status[x] = "RUNNING")
      BY <3>1, <3>2, <3>3, <3>4 DEF Present, TypeOK
    <3> QED BY <3>3, <3>4, AwaitedSame, VouchRests
  <2> QED BY <1>7, <2>1, <2>2
<1>8. ASSUME NEW s \in Scopes, PauseAll(s) \/ ResumeAll(s) \/ StopAll(s) PROVE HaltedScopesRest'
  <2>1. CASE PauseAll(s)
    <3>1. /\ status' = Paused(Members(s) \cap Present) /\ UNCHANGED <<latched, parked, pass, waking>>
          /\ Vouch({}, {})
      BY <2>1 DEF PauseAll, Controls
    <3> QED BY <3>1, PausedFacts, AwaitedSame, VouchRests DEF Present
  <2>2. CASE ResumeAll(s)
    <3>1. /\ status' = [r \in Runners |-> IF r \in ResumedBy(s) THEN "RUNNING" ELSE status[r]]
          /\ UNCHANGED <<latched, parked, pass, waking>> /\ Vouch(ResumedBy(s), {})
      BY <2>2 DEF ResumeAll, Controls
    <3>2. Present' = Present
      BY <3>1 DEF Present, ResumedBy
    <3> QED BY <3>1, <3>2, AwaitedSame, VouchRests DEF Present
  <2>3. CASE StopAll(s)
    <3>1. /\ status' = [r \in Runners |-> IF r \in Members(s) \cap Present THEN "STOPPED"
                                          ELSE status[r]]
          /\ UNCHANGED <<latched, parked, pass, waking>> /\ Vouch({}, {})
      BY <2>3 DEF StopAll, Controls
    <3>2. ASSUME NEW x \in Present', status'[x] = "RUNNING"
          PROVE  x \in Present /\ status[x] = "RUNNING"
      BY <3>1, <3>2 DEF Present
    <3> QED BY <3>1, <3>2, AwaitedSame, VouchRests
  <2> QED BY <1>8, <2>1, <2>2, <2>3
<1>9. ASSUME NEW s \in Scopes, KillCloses(s) PROVE HaltedScopesRest'
  <2>1. /\ status' = Paused(Members(s) \cap Present) /\ UNCHANGED <<latched, parked, waking>>
        /\ Vouch({}, {}) /\ pass = Free
    BY <1>9 DEF KillCloses, Unlocked, StepsInOrder
  <2>2. \A r : Awaited(r) => Awaited(r)'
    BY <2>1 DEF Awaited, Free
  <2> QED BY <2>1, <2>2, PausedFacts, VouchRests DEF Present
<1>10. ASSUME NEW s \in Scopes, Kill(s) PROVE HaltedScopesRest'
  <2>1. /\ latched' = KillLatches(s) /\ UNCHANGED <<status, parked, waking>> /\ Vouch({}, {})
        /\ pass.at = s /\ s # "segment" /\ pass'.todo = pass.todo
    BY <1>0, <1>10 DEF Kill, StepsInOrder, Pass
  <2>2. \A r : Awaited(r) => Awaited(r)'
    BY <2>1 DEF Awaited
  <2>3. ASSUME NEW r \in Present, status[r] = "RUNNING", Halted(latched', r)
        PROVE  r \in slipped \/ Halted(latched, r)
    <3>1. CASE r \in Members(s)
      BY <2>1, <2>3, <3>1 DEF ClosedScopeRests
    <3>2. CASE r \notin Members(s)
      BY <1>0, <2>1, <2>3, <3>2, KillCovers DEF Present
    <3> QED BY <3>1, <3>2
  <2> QED BY <2>1, <2>2, <2>3, VouchRests DEF Present
<1>11. ASSUME NEW s \in Scopes, ResetBreaker(s) PROVE HaltedScopesRest'
  <2>1. latched' \subseteq latched
    BY <1>11, RolledSub DEF ResetBreaker, ResetLatches
  <2>2. UNCHANGED <<status, parked, pass, waking>> /\ Vouch({}, {})
    BY <1>11 DEF ResetBreaker
  <2> QED BY <2>1, <2>2, HaltedMono, AwaitedSame, VouchRests DEF Present
<1>12. ASSUME NEW r \in Runners, NEW start \in BOOLEAN, AddRunner(r, start) PROVE HaltedScopesRest'
  <2>1. latched' \subseteq latched /\ UNCHANGED <<parked, pass, waking>>
    BY <1>12, RolledSub DEF AddRunner, Roll
  <2>2. ASSUME NEW x \in Present', status'[x] = "RUNNING"
        PROVE  (start /\ x = r) \/ (x \in Present /\ status[x] = "RUNNING")
    BY <1>12, <2>1, <2>2 DEF AddRunner, Present, TypeOK
  <2>3. PICK started : Vouch(started, {}) /\ (start => started = {r})
    BY <1>12 DEF AddRunner
  <2> QED BY <2>1, <2>2, <2>3, HaltedMono, AwaitedSame, VouchRests
<1>13. ASSUME NEW r \in Runners, RemoveRunner(r) PROVE HaltedScopesRest'
  <2>1. latched' \subseteq latched /\ Vouch({}, {}) /\ pass' = pass
        /\ waking' = [waking EXCEPT !.runner = @ \ {r}, !.todo = @ \ {r}]
    BY <1>13, RolledSub DEF RemoveRunner
  <2>2. \A x \in Present' : x \in Present /\ status'[x] = status[x] /\ x # r
    BY <1>13 DEF RemoveRunner, Present, TypeOK
  <2>3. \A x : x # r /\ Awaited(x) => Awaited(x)'
    BY <1>0, <2>1 DEF Awaited, Wake
  <2> QED BY <2>1, <2>2, <2>3, HaltedMono, VouchRests
<1>14. CASE Restart
  <2>1. ASSUME NEW r \in Present', status'[r] = "RUNNING", Halted(latched', r) PROVE FALSE
    <3>1. r \in Runners /\ r \notin parked'
      BY <2>1 DEF Present
    <3>2. PICK st : status'[r] = BlockedStatus(st, latched', r)
      BY <1>14, <3>1 DEF Restart
    <3>3. latched' \subseteq Scopes
      BY <1>14 DEF Restart, TypeOK, Payload
    <3>4. BlockedByRisk(latched', r)
      BY <2>1, <3>1, <3>3, BlockedIfHalted
    <3> QED BY <2>1, <3>2, <3>4 DEF BlockedStatus
  <2> QED BY <2>1 DEF HaltedScopesRest
<1>15. ASSUME NEW r \in Runners, WakeAdd(r) PROVE HaltedScopesRest'
  <2>1. latched' \subseteq latched /\ Vouch({}, {}) /\ pass' = pass
        /\ waking.pc # "restored" /\ waking'.todo = waking.todo
    BY <1>0, <1>15, RolledSub DEF WakeAdd, Roll, Wake
  <2>2. \A x \in Present' : status'[x] = "RUNNING" => x \in Present /\ status[x] = "RUNNING"
    BY <1>15 DEF WakeAdd, Present, TypeOK
  <2>3. \A x : Awaited(x) => Awaited(x)'
    BY <2>1 DEF Awaited
  <2> QED BY <2>1, <2>2, <2>3, HaltedMono, VouchRests
<1>16. CASE WakeRestores
  <2>1. PICK slips : Vouch({}, slips)
    BY <1>16 DEF WakeRestores
  <2>2. UNCHANGED <<latched, parked, pass>> /\ waking.pc # "restored"
        /\ waking' = [waking EXCEPT !.pc = "restored"]
    BY <1>16 DEF WakeRestores
  <2>3. \A r \in Runners : r \notin waking.runner => status'[r] = status[r]
    BY <1>16 DEF WakeRestores
  <2>4. \A r : (r \in waking.runner \/ Awaited(r)) => Awaited(r)'
    BY <1>0, <2>2 DEF Awaited, Wake
  <2> QED BY <2>1, <2>2, <2>3, <2>4, VouchRests DEF Present
<1>17. CASE WakeBlocks
  <2>1. UNCHANGED <<latched, parked, pass>> /\ Vouch({}, {}) /\ waking'.todo = waking.todo
    BY <1>0, <1>17 DEF WakeBlocks, Wake
  <2>2. ASSUME NEW r \in Present', status'[r] = "RUNNING", Halted(latched', r)
        PROVE  r \notin waking.runner /\ r \in Present /\ status[r] = "RUNNING"
    <3>1. r \in Runners
      BY DEF Present
    <3>2. BlockedByRisk(latched, r)
      BY <1>0, <2>1, <2>2, <3>1, BlockedIfHalted
    <3>3. status'[r] = IF r \in waking.runner THEN BlockedStatus(status[r], latched, r) ELSE status[r]
      BY <1>17, <3>1 DEF WakeBlocks
    <3>4. r \notin waking.runner
      BY <2>2, <3>2, <3>3 DEF BlockedStatus
    <3> QED BY <2>1, <2>2, <3>3, <3>4 DEF Present
  <2>3. \A r : r \notin waking.runner /\ Awaited(r) => Awaited(r)'
    BY <2>1 DEF Awaited
  <2> QED BY <2>1, <2>2, <2>3, VouchRests
<1>18. CASE WakeEvaluates
  <2>1. latched' \subseteq latched /\ UNCHANGED <<status, parked, pass>> /\ Vouch({}, {})
        /\ waking.pc # "restored" /\ waking'.todo = waking.todo
    BY <1>0, <1>18, RolledSub DEF WakeEvaluates, Roll, Wake
  <2>2. \A x : Awaited(x) => Awaited(x)'
    BY <2>1 DEF Awaited
  <2> QED BY <2>1, <2>2, HaltedMono, VouchRests DEF Present
<1>19. ASSUME NEW s \in Scopes, WakeTrips(s) PROVE HaltedScopesRest'
  <2>1. /\ latched' = latched \cup {s} /\ status' = status /\ parked' = parked
        /\ Vouch({}, {}) /\ pass' = pass /\ waking.pc = "evaluate"
        /\ waking.todo = {} /\ waking'.todo = Members(s) \cap Present
    BY <1>0, <1>19 DEF WakeTrips, Breach, Wake
  <2>2. \A r \in Present : /\ Halted(latched', r) => Halted(latched, r) \/ r \in waking'.todo
                           /\ Awaited(r) => Awaited(r)'
    BY <2>1 DEF Halted, Awaited
  <2>3. Present' = Present
    BY <2>1 DEF Present
  <2>4. \A r \in waking'.todo : Awaited(r)'
    BY DEF Awaited
  <2> QED BY <2>1, <2>2, <2>3, <2>4, VouchRests
<1>20. CASE WakeActs
  <2>1. /\ latched' = latched /\ status' = Paused(waking.todo) /\ parked' = parked
        /\ Vouch({}, {}) /\ pass' = pass /\ waking.todo # {}
        /\ waking' = [waking EXCEPT !.todo = {}]
    BY <1>20 DEF WakeActs, Act
  <2>2. \A r : r \notin waking.todo /\ Awaited(r) => Awaited(r)'
    BY <1>0, <2>1 DEF Awaited, Wake
  <2> QED BY <2>1, <2>2, PausedFacts, VouchRests DEF Present
<1>21. CASE WakeSaves
  <2>1. UNCHANGED <<latched, status, parked, pass, vouched, slipped>>
        /\ waking.pc = "evaluate" /\ waking.todo = {}
    BY <1>21 DEF WakeSaves
  <2> QED BY <2>1 DEF HaltedScopesRest, Present, Awaited
<1> QED
  BY <1>1, <1>2, <1>3, <1>4, <1>5, <1>6, <1>7, <1>8, <1>9, <1>10, <1>11, <1>12, <1>13, <1>14,
     <1>15, <1>16, <1>17, <1>18, <1>19, <1>20, <1>21, FleetAssumption DEF Next, FleetAssumption

LEMMA RestsInit == Init => HaltedScopesRest
BY DEF Init, HaltedScopesRest, Halted

\* No breach, kill, restart or login leaves or brings back a running runner under
\* a latch: whoever runs there was set going by an operator, is about to be
\* paused, or was rehydrated by a wake between a kill's pauses and its latch.
THEOREM HaltedScopesStayAtRest == ASSUME FleetAssumption PROVE Spec => []HaltedScopesRest
<1> DEFINE Safe == TypeOK /\ StepsInOrder /\ ClosedScopeRests /\ HaltedScopesRest
<1>1. Init => Safe
  BY FleetAssumption, TypeInit, StepsInit, ClosedInit, RestsInit
<1>2. Safe /\ [Next]_vars => Safe'
  BY FleetAssumption, TypeStep, StepsStep, ClosedStep, RestsStep
<1>3. Safe => HaltedScopesRest
  OBVIOUS
<1> HIDE DEF Safe
<1> QED BY <1>1, <1>2, <1>3, PTL DEF Spec
-----------------------------------------------------------------------------
(* What the file does not remember is on its way there, or was overtaken. *)

LEMMA FileInit == Init => FileKnowsLatches
BY DEF Init, FileKnowsLatches, Memory

\* A save under the lock, on the session of the day or the running one.
LEMMA FileSaved ==
    ASSUME TypeOK, FileKnowsLatches, Persist, UNCHANGED <<day, drafts>>,
           session' = day \/ session' = session
    PROVE  FileKnowsLatches'
<1>1. disk' = Memory' /\ disk'.session = session' /\ disk'.latched = latched'
  BY DEF Persist, Memory
<1>2. Filed(disk)' = latched'
  BY <1>1 DEF Filed
<1>3. session' <= day /\ session <= session' /\ session' \in Nat
  BY DEF FileKnowsLatches, TypeOK
<1>4. \A p \in drafts : p.session \in Nat /\ p.session <= session
  BY DEF FileKnowsLatches, TypeOK, Payload
<1>5. \A p \in drafts' : p.session <= session'
  BY <1>3, <1>4 DEF TypeOK
<1> QED BY <1>1, <1>2, <1>3, <1>5 DEF FileKnowsLatches

\* A step that saves nothing, in the same session: nobody forgets what he set,
\* and what is new is in a set.
LEMMA FileUnsaved ==
    ASSUME TypeOK, FileKnowsLatches, Unsaved, session' = session, drafts' = drafts,
           day' \in Nat, day <= day',
           pass.set \subseteq pass'.set, waking.set \subseteq waking'.set,
           latched' \ latched \subseteq pass'.set \cup waking'.set
    PROVE  FileKnowsLatches'
<1>1. \A s : InFlight(s) => InFlight(s)'
  BY DEF InFlight, Filed
<1>2. \A s \in latched' \ latched : InFlight(s)'
  BY DEF InFlight
<1>3. Filed(disk)' = Filed(disk)
  BY DEF Filed, Unsaved
<1>4. disk' = disk /\ overtaken' = overtaken
  BY DEF Unsaved
<1>5. session <= day'
  BY DEF FileKnowsLatches, TypeOK
<1> QED BY <1>1, <1>2, <1>3, <1>4, <1>5 DEF FileKnowsLatches

\* So does the roll of the date.
LEMMA FileRolled ==
    ASSUME TypeOK, FileKnowsLatches, Unsaved, Roll, UNCHANGED <<day, drafts>>,
           pass'.set = pass.set, waking'.set = waking.set
    PROVE  FileKnowsLatches'
<1>1. CASE session = day
  <2>1. session' = session /\ latched' = latched
    BY <1>1 DEF Roll, RolledLatches
  <2> QED BY <2>1, FileUnsaved DEF TypeOK
<1>2. CASE session # day
  <2>1. latched' = {} /\ session' = day /\ disk' = disk
    BY <1>2 DEF Roll, RolledLatches, Unsaved
  <2>2. /\ disk.session \in Nat /\ disk.session <= day
        /\ \A p \in drafts : p.session \in Nat /\ p.session <= day
    BY DEF FileKnowsLatches, TypeOK, Payload
  <2> QED BY <2>1, <2>2 DEF FileKnowsLatches, TypeOK
<1> QED BY <1>1, <1>2

LEMMA FileStep ==
    ASSUME FleetAssumption, TypeOK, StepsInOrder, FileKnowsLatches, [Next]_vars
    PROVE  FileKnowsLatches'
<1>0. pass \in Pass /\ waking \in Wake /\ day \in Nat /\ day <= day
  BY DEF TypeOK
<1>1. CASE PassBegins \/ WakeEvaluates
  BY <1>0, <1>1, FileRolled DEF PassBegins, WakeEvaluates, Pass, Wake
<1>2. ASSUME NEW s \in Scopes, PassTrips(s) \/ WakeTrips(s) PROVE FileKnowsLatches'
  <2>1. UNCHANGED <<day, session, drafts>> /\ Unsaved /\ latched' = latched \cup {s}
    BY <1>2 DEF PassTrips, WakeTrips, Breach
  <2>2. \/ pass'.set = pass.set \cup {s} /\ waking'.set = waking.set
        \/ waking'.set = waking.set \cup {s} /\ pass'.set = pass.set
    BY <1>0, <1>2 DEF PassTrips, WakeTrips, Pass, Wake
  <2> QED BY <1>0, <2>1, <2>2, FileUnsaved
<1>3. CASE PassActs \/ WakeActs
  <2>1. /\ UNCHANGED <<day, session, latched, drafts>> /\ Unsaved
        /\ pass'.set = pass.set /\ waking'.set = waking.set
    BY <1>0, <1>3 DEF PassActs, WakeActs, Act, Pass, Wake
  <2> QED BY <1>0, <2>1, FileUnsaved
<1>4. CASE PassEnds
  <2>1. CASE Persist
    BY <1>4, <2>1, FileSaved DEF PassEnds
  <2>2. CASE ~pass.due /\ Unsaved
    BY <1>0, <1>4, <2>2, FileUnsaved DEF PassEnds, StepsInOrder, Free
  <2> QED BY <1>4, <2>1, <2>2 DEF PassEnds
<1>5. CASE Midnight
  <2>1. day' \in Nat /\ day <= day' /\ Unsaved
    BY <1>0, <1>5 DEF Midnight, Unsaved
  <2> QED BY <1>5, <2>1, FileUnsaved DEF Midnight
<1>6. ASSUME NEW r \in Runners, OwnFuse(r) PROVE FileKnowsLatches'
  <2>1. UNCHANGED <<day, session, latched, drafts, pass, waking>> /\ Unsaved
    BY <1>6 DEF OwnFuse
  <2> QED BY <1>0, <2>1, FileUnsaved
<1>7. CASE \/ \E r \in Runners : Pause(r) \/ Resume(r) \/ Stop(r)
           \/ \E s \in Scopes : PauseAll(s) \/ ResumeAll(s) \/ StopAll(s)
  BY <1>7, FileSaved DEF Pause, Resume, Stop, PauseAll, ResumeAll, StopAll, Controls
<1>8. ASSUME NEW s \in Scopes, KillCloses(s) PROVE FileKnowsLatches'
  <2>1. /\ UNCHANGED <<day, session, latched, drafts, waking>> /\ Unsaved
        /\ pass'.set = pass.set
    BY <1>8 DEF KillCloses, Unlocked, StepsInOrder, Free
  <2> QED BY <1>0, <2>1, FileUnsaved
<1>9. ASSUME NEW s \in Scopes, Kill(s) PROVE FileKnowsLatches'
  <2>1. /\ UNCHANGED <<day, session, drafts, waking>> /\ Unsaved
        /\ pass.set = {} /\ pass'.set = latched' \ latched
    BY <1>0, <1>9 DEF Kill, StepsInOrder, Pass
  <2> QED BY <1>0, <2>1, FileUnsaved
<1>10. ASSUME NEW s \in Scopes, ResetBreaker(s) PROVE FileKnowsLatches'
  <2>1. /\ disk'.session = session /\ disk'.latched = ResetLatches(s)
        /\ latched' = RolledLatches(ResetLatches(s)) /\ session' = day
        /\ UNCHANGED <<day, drafts>>
    BY <1>10 DEF ResetBreaker, Memory
  <2>2. session \in Nat /\ session <= day
        /\ \A p \in drafts : p.session \in Nat /\ p.session <= session
    BY DEF FileKnowsLatches, TypeOK, Payload
  <2>3. \A p \in drafts' : p.session <= session'
    BY <1>0, <2>1, <2>2
  <2>4. latched' \subseteq Filed(disk)'
    BY <2>1 DEF RolledLatches, Filed
  <2> QED BY <1>0, <2>1, <2>2, <2>3, <2>4 DEF FileKnowsLatches
<1>11. CASE \E r \in Runners : \/ AddRunner(r, TRUE) \/ AddRunner(r, FALSE)
                               \/ RemoveRunner(r) \/ WakeAdd(r)
  BY <1>11, FileSaved DEF AddRunner, RemoveRunner, WakeAdd, Roll
<1>12. CASE SaveReads \/ WakeSaves
  <2>1. /\ UNCHANGED <<day, session, latched, pass, disk, overtaken>>
        /\ drafts' = drafts \cup {Memory} /\ waking'.set \in {{}, waking.set}
        /\ waking'.set = {} => waking.set \subseteq {} \/ Memory \in drafts'
    BY <1>12 DEF SaveReads, WakeSaves, Nobody
  <2>2. Filed(Memory) = latched /\ Memory.session = session
    BY DEF Filed, Memory
  <2>3. \A p : (p.session = session) <=> (p.session = session')
    BY <2>1
  <2>4. \A s \in latched : InFlight(s)'
    BY <2>1, <2>2 DEF InFlight, Filed
  <2>5. \A p \in drafts' : p.session <= session'
    BY <2>1, <2>2 DEF FileKnowsLatches, TypeOK
  <2> QED BY <2>1, <2>4, <2>5 DEF FileKnowsLatches
<1>13. ASSUME NEW p \in drafts, SaveWrites(p) PROVE FileKnowsLatches'
  <2>1. /\ UNCHANGED <<day, session, latched>> /\ disk' = p
        /\ drafts' \subseteq drafts /\ overtaken' = latched \ Filed(p)
    BY <1>13 DEF SaveWrites
  <2>2. Filed(disk)' = Filed(p)
    BY <2>1 DEF Filed
  <2> QED BY <2>1, <2>2 DEF FileKnowsLatches
<1>14. CASE Restart
  <2>1. disk' = disk /\ day' = day /\ session' = day /\ drafts' = {}
        /\ latched' = IF disk.session = day THEN disk.latched ELSE {}
    BY <1>14 DEF Restart
  <2>2. disk.session \in Nat /\ disk.session <= day
    BY DEF FileKnowsLatches, TypeOK, Payload
  <2>3. latched' \subseteq Filed(disk)'
    BY <2>1 DEF Filed
  <2> QED BY <1>0, <2>1, <2>2, <2>3 DEF FileKnowsLatches
<1>15. CASE WakeRestores \/ WakeBlocks
  <2>1. /\ UNCHANGED <<day, session, latched, drafts, pass>> /\ Unsaved
        /\ waking'.set = waking.set
    BY <1>0, <1>15 DEF WakeRestores, WakeBlocks, Wake
  <2> QED BY <1>0, <2>1, FileUnsaved
<1>16. CASE UNCHANGED vars
  BY <1>16 DEF vars, FileKnowsLatches, InFlight, Filed
<1> QED
  BY <1>1, <1>2, <1>3, <1>4, <1>5, <1>6, <1>7, <1>8, <1>9, <1>10, <1>11, <1>12, <1>13, <1>14,
     <1>15, <1>16, FleetAssumption DEF Next, FleetAssumption
-----------------------------------------------------------------------------
(* A latch outlives a crash once it is saved. *)

\* The reasons LatchesHold allows, for one scope.
MayFall(s) ==
    \/ session' > session
    \/ \E x \in {s, "portfolio"} : ResetBreaker(x)
    \/ s = "portfolio" /\ \E x \in Scopes : ResetBreaker(x) /\ latched' = {}
    \/ s \in Buckets /\ \E r \in Members(s) : RemoveRunner(r) /\ Members(s) \cap Present' = {}
    \/ crashes' > crashes /\ (InFlight(s) \/ s \in overtaken)

LEMMA RollHolds ==
    ASSUME TypeOK, FileKnowsLatches, Roll, NEW s \in latched \ latched'
    PROVE  MayFall(s)
<1>1. session' = day /\ session # day
  BY DEF Roll, RolledLatches
<1> QED BY <1>1 DEF FileKnowsLatches, TypeOK, MayFall

LEMMA HoldStep ==
    ASSUME FleetAssumption, TypeOK, FileKnowsLatches, [Next]_vars, NEW s \in latched \ latched'
    PROVE  MayFall(s)
<1> s \in Scopes
  BY DEF TypeOK
<1>1. CASE \/ PassBegins \/ WakeEvaluates
           \/ \E r \in Runners : AddRunner(r, TRUE) \/ AddRunner(r, FALSE) \/ WakeAdd(r)
  BY <1>1, RollHolds DEF PassBegins, WakeEvaluates, AddRunner, WakeAdd
<1>2. CASE \/ Midnight \/ UNCHANGED vars \/ PassActs \/ PassEnds \/ SaveReads
           \/ WakeRestores \/ WakeBlocks \/ WakeActs \/ WakeSaves
           \/ \E p \in drafts : SaveWrites(p)
           \/ \E r \in Runners : OwnFuse(r) \/ Pause(r) \/ Resume(r) \/ Stop(r)
           \/ \E x \in Scopes : PauseAll(x) \/ ResumeAll(x) \/ StopAll(x) \/ KillCloses(x)
  <2>1. latched' = latched
    BY <1>2 DEF Midnight, vars, PassActs, Act, PassEnds, SaveReads, WakeRestores, WakeBlocks,
       WakeActs, WakeSaves, SaveWrites, OwnFuse, Pause, Resume, Stop, PauseAll, ResumeAll, StopAll,
       Controls, KillCloses
  <2> QED BY <2>1
<1>3. CASE \E x \in Scopes : PassTrips(x) \/ WakeTrips(x) \/ (x # "segment" /\ Kill(x))
  <2>1. latched \subseteq latched'
    BY <1>3, KillType DEF PassTrips, WakeTrips, Breach, Kill, TypeOK
  <2> QED BY <2>1
<1>4. CASE Restart
  <2>1. /\ session' = day /\ crashes' > crashes
        /\ latched' = IF disk.session = day THEN disk.latched ELSE {}
    BY <1>4 DEF Restart, TypeOK
  <2>2. CASE session = day
    <3>1. s \notin Filed(disk)
      BY <2>1, <2>2 DEF Filed
    <3> QED BY <2>1, <3>1 DEF FileKnowsLatches, MayFall
  <2>3. CASE session # day
    <3>1. session' > session
      BY <2>1, <2>3 DEF FileKnowsLatches, TypeOK
    <3> QED BY <3>1 DEF MayFall
  <2> QED BY <2>2, <2>3
<1>5. ASSUME NEW x \in Scopes, ResetBreaker(x) PROVE MayFall(s)
  <2>1. CASE session = day
    <3>1. latched' = ResetLatches(x)
      BY <1>5, <2>1 DEF ResetBreaker, RolledLatches
    <3>2. CASE x = s \/ x = "portfolio"
      BY <1>5, <3>2 DEF MayFall
    <3>3. CASE x # s /\ x # "portfolio"
      <4>1. s \in latched \ {x} /\ s \notin ResetLatches(x)
        BY <3>1, <3>3
      <4>2. latched \ {x} \subseteq {"portfolio"} /\ latched' = {}
        BY <3>1, <3>3, <4>1 DEF ResetLatches
      <4> QED BY <1>5, <4>1, <4>2 DEF MayFall
    <3> QED BY <3>2, <3>3
  <2>2. CASE session # day
    <3>1. session' > session
      BY <1>5, <2>2 DEF ResetBreaker, FileKnowsLatches, TypeOK
    <3> QED BY <3>1 DEF MayFall
  <2> QED BY <2>1, <2>2
<1>6. ASSUME NEW r \in Runners, RemoveRunner(r) PROVE MayFall(s)
  <2>1. CASE r \in parked
    BY <1>6, <2>1 DEF RemoveRunner
  <2>2. CASE r \notin parked /\ session # day
    <3>1. session' > session
      BY <1>6, <2>2 DEF RemoveRunner, FileKnowsLatches, TypeOK
    <3> QED BY <3>1 DEF MayFall
  <2>3. CASE r \notin parked /\ session = day
    <3>1. s \in Buckets /\ r \in Members(s) /\ Members(s) \cap Present = {r}
      BY <1>6, <2>3 DEF RemoveRunner, RolledLatches
    <3>2. Present' \subseteq Present \ {r}
      BY <1>6 DEF RemoveRunner, Present, TypeOK
    <3> QED BY <1>6, <3>1, <3>2 DEF MayFall
  <2> QED BY <2>1, <2>2, <2>3
<1> QED BY <1>1, <1>2, <1>3, <1>4, <1>5, <1>6, FleetAssumption DEF Next, FleetAssumption

\* A crash unlatches no breaker within its day once the tick, the kill or the
\* wake that latched it has saved, unless a save without the lock overtook that
\* one; otherwise a latch falls with a reset, a new date, or the removal of its
\* bucket's last runner.
THEOREM LatchesOutliveRestarts == ASSUME FleetAssumption PROVE Spec => LatchesHold
<1> DEFINE Known == TypeOK /\ StepsInOrder /\ FileKnowsLatches
<1>1. Init => Known
  BY FleetAssumption, TypeInit, StepsInit, FileInit
<1>2. Known /\ [Next]_vars => Known'
  BY FleetAssumption, TypeStep, StepsStep, FileStep
<1>3. Known /\ [Next]_vars => \A s \in latched \ latched' : MayFall(s)
  BY FleetAssumption, HoldStep
<1>4. Known /\ [Next]_vars =>
        [\A s \in latched \ latched' :
           \/ session' > session
           \/ \E x \in {s, "portfolio"} : ResetBreaker(x)
           \/ s = "portfolio" /\ \E x \in Scopes : ResetBreaker(x) /\ latched' = {}
           \/ s \in Buckets /\ \E r \in Members(s) : RemoveRunner(r) /\ Members(s) \cap Present' = {}
           \/ crashes' > crashes /\ (InFlight(s) \/ s \in overtaken)]_vars
  BY <1>3 DEF MayFall
<1> HIDE DEF Known
<1> QED BY <1>1, <1>2, <1>4, PTL DEF Spec, LatchesHold
-----------------------------------------------------------------------------
(* What the restart refused stays on file. *)

ParkedKept == ParkedOnFile /\ ParkedInDrafts

LEMMA ParkedInit == Init => ParkedKept
BY DEF Init, ParkedKept, ParkedOnFile, ParkedInDrafts

\* A save writes the parked snapshots with the rest: it is enough that the step
\* parks nobody and leaves the parked as they were.
LEMMA ParkedSaved ==
    ASSUME ParkedKept, Persist, parked' \subseteq parked, drafts' = drafts,
           \A r \in parked' : status'[r] = status[r]
    PROVE  ParkedKept'
BY DEF ParkedKept, ParkedOnFile, ParkedInDrafts, Persist, Memory

LEMMA ParkedUntouched ==
    ASSUME ParkedKept, UNCHANGED <<parked, drafts>>, Unsaved,
           \A r \in parked : status'[r] = status[r]
    PROVE  ParkedKept'
BY DEF ParkedKept, ParkedOnFile, ParkedInDrafts, Unsaved

LEMMA ParkedStep ==
    ASSUME FleetAssumption, TypeOK, StepsInOrder, ParkedKept, [Next]_vars
    PROVE  ParkedKept'
<1>0. /\ parked \subseteq Runners
      /\ \A r \in parked : r \notin Present \cup pass.todo \cup waking.todo \cup waking.runner
  BY DEF TypeOK, StepsInOrder, Present
<1>1. CASE \/ PassBegins \/ WakeEvaluates
           \/ \E s \in Scopes : PassTrips(s) \/ WakeTrips(s) \/ Kill(s)
  <2>1. UNCHANGED <<parked, drafts, status>> /\ Unsaved
    BY <1>1 DEF PassBegins, WakeEvaluates, PassTrips, WakeTrips, Breach, Kill
  <2> QED BY <2>1, ParkedUntouched
<1>2. CASE \/ PassActs \/ WakeActs \/ \E r \in Runners : OwnFuse(r)
           \/ \E s \in Scopes : KillCloses(s)
  <2>1. UNCHANGED <<parked, drafts>> /\ Unsaved
    BY <1>2 DEF PassActs, WakeActs, Act, OwnFuse, KillCloses
  <2>2. \E rs : status' = Paused(rs) /\ \A r \in parked : r \notin rs
    <3>1. CASE PassActs \/ WakeActs
      BY <1>0, <3>1 DEF PassActs, WakeActs, Act
    <3>2. CASE \E s \in Scopes : KillCloses(s)
      BY <1>0, <3>2 DEF KillCloses
    <3>3. ASSUME NEW r \in Runners, OwnFuse(r)
          PROVE  status' = Paused({r}) /\ \A x \in parked : x \notin {r}
      BY <1>0, <3>3 DEF OwnFuse
    <3> QED BY <1>2, <3>1, <3>2, <3>3
  <2>3. \A r \in parked : status'[r] = status[r]
    BY <1>0, <2>1, <2>2, PausedFacts
  <2> QED BY <2>1, <2>3, ParkedUntouched
<1>3. CASE PassEnds
  <2>1. UNCHANGED <<parked, drafts, status>> /\ (Persist \/ Unsaved)
    BY <1>3 DEF PassEnds
  <2> QED BY <2>1, ParkedSaved, ParkedUntouched
<1>4. CASE Midnight \/ UNCHANGED vars
  BY <1>4 DEF Midnight, vars, ParkedKept, ParkedOnFile, ParkedInDrafts
<1>5. ASSUME NEW r \in Runners, Pause(r) \/ Resume(r) \/ Stop(r) PROVE ParkedKept'
  <2>1. Persist /\ UNCHANGED <<parked, drafts>> /\ r \notin parked
    BY <1>0, <1>5 DEF Pause, Resume, Stop, Controls
  <2>2. \A x \in parked : status'[x] = status[x]
    BY <1>0, <1>5, <2>1 DEF Pause, Resume, Stop, Controls, Paused, TypeOK
  <2> QED BY <2>1, <2>2, ParkedSaved
<1>6. ASSUME NEW s \in Scopes, PauseAll(s) \/ ResumeAll(s) \/ StopAll(s) PROVE ParkedKept'
  <2>1. Persist /\ UNCHANGED <<parked, drafts>>
    BY <1>6 DEF PauseAll, ResumeAll, StopAll, Controls
  <2>2. \A x \in parked : status'[x] = status[x]
    BY <1>0, <1>6 DEF PauseAll, ResumeAll, ResumedBy, StopAll, Controls, Paused
  <2> QED BY <2>1, <2>2, ParkedSaved
<1>7. ASSUME NEW s \in Scopes, ResetBreaker(s) PROVE ParkedKept'
  <2>1. disk'.status = status /\ UNCHANGED <<parked, drafts, status>>
    BY <1>7 DEF ResetBreaker, Memory
  <2> QED BY <2>1 DEF ParkedKept, ParkedOnFile, ParkedInDrafts
<1>8. ASSUME NEW r \in Runners, NEW start \in BOOLEAN, AddRunner(r, start) PROVE ParkedKept'
  <2>1. r \notin parked
    BY <1>8 DEF AddRunner, ParkedKept, ParkedOnFile
  <2> QED BY <1>0, <1>8, <2>1, ParkedSaved DEF AddRunner, TypeOK
<1>9. ASSUME NEW r \in Runners, RemoveRunner(r) \/ WakeAdd(r) PROVE ParkedKept'
  <2>1. Persist /\ parked' = parked \ {r} /\ drafts' = drafts
    BY <1>9 DEF RemoveRunner, WakeAdd
  <2>2. \A x \in parked' : status'[x] = status[x]
    BY <1>0, <1>9, <2>1 DEF RemoveRunner, WakeAdd, TypeOK
  <2> QED BY <2>1, <2>2, ParkedSaved
<1>10. CASE SaveReads \/ WakeSaves
  <2>1. UNCHANGED <<parked, status, disk>> /\ drafts' = drafts \cup {Memory}
    BY <1>10 DEF SaveReads, WakeSaves
  <2>2. Memory.status = status
    BY DEF Memory
  <2> QED BY <2>1, <2>2 DEF ParkedKept, ParkedOnFile, ParkedInDrafts
<1>11. ASSUME NEW p \in drafts, SaveWrites(p) PROVE ParkedKept'
  <2>1. UNCHANGED <<parked, status>> /\ disk' = p /\ drafts' \subseteq drafts
    BY <1>11 DEF SaveWrites
  <2> QED BY <2>1 DEF ParkedKept, ParkedOnFile, ParkedInDrafts
<1>12. CASE Restart
  <2>1. PICK refused \in SUBSET {r \in Runners : Wakes /\ disk.status[r] # "absent"} :
           /\ parked' = refused /\ disk' = disk /\ drafts' = {}
           /\ \A r \in refused : status'[r] = disk.status[r]
    BY <1>12 DEF Restart
  <2> QED BY <2>1 DEF ParkedKept, ParkedOnFile, ParkedInDrafts
<1>13. CASE WakeRestores \/ WakeBlocks
  <2>1. UNCHANGED <<parked, drafts>> /\ Unsaved
    BY <1>13 DEF WakeRestores, WakeBlocks
  <2>2. \A x \in parked : status'[x] = status[x]
    BY <1>0, <1>13 DEF WakeRestores, WakeBlocks
  <2> QED BY <2>1, <2>2, ParkedUntouched
<1> QED
  BY <1>1, <1>2, <1>3, <1>4, <1>5, <1>6, <1>7, <1>8, <1>9, <1>10, <1>11, <1>12, <1>13,
     FleetAssumption DEF Next, FleetAssumption

\* A runner a restart could not construct keeps its record: through every tick,
\* control, kill, reset, addition, removal of others, overlapping save and further
\* restart, the file holds it as it was read.
THEOREM ParkedStaysOnFile == ASSUME FleetAssumption PROVE Spec => []ParkedOnFile
<1> DEFINE Kept == TypeOK /\ StepsInOrder /\ ParkedKept
<1>1. Init => Kept
  BY FleetAssumption, TypeInit, StepsInit, ParkedInit
<1>2. Kept /\ [Next]_vars => Kept'
  BY FleetAssumption, TypeStep, StepsStep, ParkedStep
<1>3. Kept => ParkedOnFile
  BY DEF ParkedKept
<1> HIDE DEF Kept
<1> QED BY <1>1, <1>2, <1>3, PTL DEF Spec
=============================================================================
