------------------------- MODULE RunnerOrdersProofs -------------------------
(* Proofs about RunnerOrders: its types, and the three safety properties of *)
(* the retry machinery, for every size, budget, cooldown and re-arm time.   *)
EXTENDS RunnerOrders, TLAPS

Queued(k) == retry.kind = k

\* A live runner queues no retry.  On paper nothing works at a venue, the
\* position is at most one entry's, an entry is queued or given up only while
\* the runner is flat, and one given up leaves the queue empty.
Holding ==
    /\ config.mode = "live" => Queued("none")
    /\ config.mode = "paper" =>
        /\ \A s \in Slots : working[s] = 0
        /\ pos \in 0 .. Lot
        /\ Queued("entry") => pos = 0 /\ retry.qty = Lot
        /\ blocked.kind = "entry" => pos = 0 /\ Queued("none")

\* The cooldown left and the time gone since the order make the cooldown.
Pacing == Queued("entry") => since + retry.wait >= config.cooldown

\* An entry sent on this bar is not queued for this bar's pump.
OncePerBar ==
    /\ entered <= 1
    /\ stage = "strategy" => entered = 0
    /\ stage # "idle" /\ entered = 1 => ~Queued("entry") \/ retry.same

\* What was sent is what the queue says, or the kind was given up; a kind that
\* is neither has nothing on its account (an exit: while there is a position).
Account ==
    config.mode = "paper" /\ config.budget > 0 =>
        /\ ~Queued("none") => retry.attempts <= config.budget
        /\ \A k \in Kinds : /\ spent[k] <= 1 + config.budget
                            /\ Queued(k) => spent[k] <= 1 + retry.attempts
        /\ ~Queued("entry") /\ blocked.kind # "entry" => spent["entry"] = 0
        /\ ~Queued("exit") /\ blocked.kind # "exit" /\ pos # 0 => spent["exit"] = 0

IInv == TypeOK /\ Holding /\ Pacing /\ OncePerBar /\ Account

-----------------------------------------------------------------------------
(* The invariant without the control of the bar, which orders do not touch. *)

ControlOK ==
    /\ config \in [mode : Modes, budget : Budgets, cooldown : Cooldowns]
    /\ status \in {"RUNNING", "PAUSED", "STOPPED"} /\ halted \in BOOLEAN
    /\ ask \in {"long", "flat"} /\ window \in BOOLEAN
    /\ stage \in {"idle", "strategy", "risk", "rules", "requests", "pump"}

DataOK ==
    /\ pos \in -MaxPos .. MaxPos /\ levels \in {"none", "own", "carried"}
    /\ working \in [Slots -> -MaxPos .. MaxPos]
    /\ retry \in Retries /\ blocked \in Blocks
    /\ spent \in [Kinds -> Nat] /\ entered \in Nat /\ since \in 0 .. config.cooldown

Core == DataOK /\ Holding /\ Pacing /\ Account

\* The block as it is, or lifted.
Lifting(b) == b = blocked \/ b = NoBlock

LEMMA TypeParts == TypeOK <=> ControlOK /\ DataOK
BY DEF TypeOK, ControlOK, DataOK

\* The configuration is one of those the constants allow.
LEMMA ConfigFacts ==
    ASSUME ControlOK
    PROVE  /\ config.mode \in {"paper", "live"}
           /\ config.budget \in Nat /\ config.cooldown \in Nat
BY SizesAssumption DEF ControlOK

\* What a member of Retries is, field by field, and the converse.
LEMMA RetryFields ==
    ASSUME DataOK
    PROVE  /\ retry.kind \in {"none", "entry", "exit"}
           /\ retry.kind # "none" => retry.qty \in 1 .. MaxPos
           /\ retry.attempts \in Nat
           /\ retry.kind # "none" => retry.wait \in 0 .. config.cooldown
           /\ retry.kind = "none" => retry = NoRetry
           /\ retry.same \in BOOLEAN
<1> DEFINE Full == [kind : Kinds, qty : 1 .. MaxPos, attempts : Nat,
                    wait : 0 .. config.cooldown, same : BOOLEAN]
<1>1. retry \in Full \/ retry = NoRetry
  BY DEF DataOK, Retries
<1>2. CASE retry \in Full
  BY <1>2 DEF Kinds
<1>3. CASE retry = NoRetry
  BY <1>3 DEF NoRetry
<1>4. QED
  BY <1>1, <1>2, <1>3

LEMMA BlockFields ==
    ASSUME DataOK
    PROVE  /\ blocked.kind \in {"none", "entry", "exit"}
           /\ blocked.kind = "none" => blocked = NoBlock
           /\ blocked.wait \in 0 .. RearmAfter
<1>1. blocked \in [kind : Kinds, wait : 0 .. RearmAfter] \/ blocked = NoBlock
  BY DEF DataOK, Blocks, NoBlock
<1>2. CASE blocked \in [kind : Kinds, wait : 0 .. RearmAfter]
  BY <1>2 DEF Kinds
<1>3. CASE blocked = NoBlock
  BY <1>3, SizesAssumption DEF NoBlock
<1>4. QED
  BY <1>1, <1>2, <1>3

\* The account after a block is lifted.
LEMMA SpentAfterFacts ==
    ASSUME DataOK, NEW b, Lifting(b)
    PROVE  /\ b \in Blocks
           /\ SpentAfter(b) \in [Kinds -> Nat]
           /\ \A k \in Kinds : SpentAfter(b)[k] = 0 \/ SpentAfter(b)[k] = spent[k]
           /\ \A k \in Kinds : b.kind # k /\ blocked.kind = k => SpentAfter(b)[k] = 0
           /\ \A k \in Kinds : b.kind = blocked.kind => SpentAfter(b)[k] = spent[k]
BY DEF DataOK, Lifting, SpentAfter, Blocks, NoBlock, Kinds

\* Holding back an order keeps the invariant.
LEMMA HoldKeeps ==
    ASSUME ControlOK, Core, NEW b, Lifting(b), Hold(b), config' = config
    PROVE  Core'
<1> USE DEF Core
<1>1. /\ blocked' = b /\ spent' = SpentAfter(b)
      /\ pos' = pos /\ levels' = levels /\ working' = working
      /\ retry' = retry /\ entered' = entered /\ since' = since
  BY DEF Hold, Book
<1>2. DataOK'
  BY <1>1, SpentAfterFacts DEF DataOK, Retries, Blocks
<1>3. b.kind = "none" \/ b.kind = blocked.kind
  BY DEF Lifting, NoBlock
<1>4. Holding'
  BY <1>1, <1>3 DEF Holding, Queued
<1>5. Pacing'
  BY <1>1 DEF Pacing, Queued
<1>6. Account'
  <2> SUFFICES ASSUME config.mode = "paper", config.budget > 0
               PROVE  /\ retry.kind # "none" => retry.attempts <= config.budget
                      /\ \A k \in Kinds : /\ SpentAfter(b)[k] <= 1 + config.budget
                                          /\ retry.kind = k => SpentAfter(b)[k] <= 1 + retry.attempts
                      /\ retry.kind # "entry" /\ b.kind # "entry" => SpentAfter(b)["entry"] = 0
                      /\ retry.kind # "exit" /\ b.kind # "exit" /\ pos # 0 => SpentAfter(b)["exit"] = 0
    BY <1>1 DEF Account, Queued
  <2>1. QED
    BY <1>3, SpentAfterFacts, RetryFields, ConfigFacts DEF Account, Queued, Kinds
<1>7. QED
  BY <1>2, <1>4, <1>5, <1>6

-----------------------------------------------------------------------------
(* Orders *)

\* Where an accepted order goes: types, and on paper the position it makes.
LEMMA AcceptedFacts ==
    ASSUME ControlOK, Core, NEW q \in -MaxPos .. MaxPos, NEW pops,
           Accepted(q, pops), config.mode = "paper" => pos + q \in 0 .. Lot
    PROVE  /\ pos' \in -MaxPos .. MaxPos
           /\ levels' \in {"none", "own", "carried"}
           /\ working' \in [Slots -> -MaxPos .. MaxPos]
           /\ config.mode = "paper" => pos' = pos + q /\ working' = working
<1>1. CASE config.mode = "paper"
  <2>1. pos' = pos + q /\ working' = working /\ levels' = LevelsAfter(pos + q, pops)
    BY <1>1 DEF Accepted
  <2>2. LevelsAfter(pos + q, pops) \in {"none", "own", "carried"}
    BY DEF LevelsAfter, Core, DataOK
  <2>3. pos + q \in -MaxPos .. MaxPos
    BY <1>1, SizesAssumption
  <2>4. QED
    BY <2>1, <2>2, <2>3 DEF Core, DataOK
<1>2. CASE config.mode = "live"
  BY <1>2 DEF Accepted, Core, DataOK
<1>3. QED
  BY <1>1, <1>2, ConfigFacts

\* The four ways _queue_retry ends.
LEMMA QueueCases ==
    ASSUME ControlOK, Core, NEW b, Lifting(b), NEW kind \in Kinds,
           NEW qty \in 1 .. MaxPos, NEW onBar \in BOOLEAN,
           QueueRetry(b, kind, qty, onBar)
    PROVE  /\ retry' \in Retries /\ blocked' \in Blocks
           /\ \/ /\ config.budget = 0 \/ b.kind = kind
                 /\ retry' = retry /\ blocked' = b
              \/ /\ config.budget # 0 /\ b.kind # kind /\ retry.kind = kind
                 /\ retry'.kind = kind /\ retry'.attempts = retry.attempts
                 /\ retry'.qty = qty /\ retry'.wait = retry.wait
                 /\ blocked' = b
              \/ config.mode = "live" /\ retry' = retry
              \/ /\ config.budget # 0 /\ b.kind # kind /\ retry.kind # kind
                 /\ config.mode = "paper"
                 /\ retry'.kind = kind /\ retry'.attempts = 0 /\ retry'.qty = qty
                 /\ retry'.wait = config.cooldown /\ retry'.same = onBar
                 /\ blocked' = b
<1> DEFINE Full == [kind : Kinds, qty : 1 .. MaxPos, attempts : Nat,
                    wait : 0 .. config.cooldown, same : BOOLEAN]
<1>0. /\ b \in Blocks /\ retry \in Retries /\ Full \subseteq Retries
      /\ kind # "none"
  BY SpentAfterFacts DEF Core, DataOK, Retries, Kinds
<1>1. CASE config.budget = 0 \/ b.kind = kind
  BY <1>0, <1>1 DEF QueueRetry
<1>2. CASE ~(config.budget = 0 \/ b.kind = kind) /\ retry.kind = kind
  <2>1. retry \in Full
    BY <1>0, <1>2 DEF Retries, NoRetry
  <2>2. retry' = [retry EXCEPT !.qty = qty] /\ blocked' = b
    BY <1>2 DEF QueueRetry
  <2>3. retry' \in Full
    BY <2>1, <2>2
  <2>4. /\ retry'.kind = kind /\ retry'.attempts = retry.attempts
        /\ retry'.qty = qty /\ retry'.wait = retry.wait
    BY <1>2, <2>1, <2>2
  <2>5. QED
    BY <1>0, <1>2, <2>2, <2>3, <2>4
<1>3. CASE ~(config.budget = 0 \/ b.kind = kind) /\ retry.kind # kind /\ ~Retryable
  <2>1. retry' = retry /\ blocked' = Spent(kind) /\ config.mode = "live"
    BY <1>3, ConfigFacts DEF QueueRetry, Retryable
  <2>2. Spent(kind) \in Blocks
    BY SizesAssumption DEF Spent, Blocks
  <2>3. QED
    BY <1>0, <2>1, <2>2
<1>4. CASE ~(config.budget = 0 \/ b.kind = kind) /\ retry.kind # kind /\ Retryable
  <2> DEFINE new == [kind |-> kind, qty |-> qty, attempts |-> 0,
                     wait |-> config.cooldown, same |-> onBar]
  <2>1. retry' = new /\ blocked' = b /\ config.mode = "paper"
    BY <1>4 DEF QueueRetry, Retryable
  <2>2. new \in Full
    BY ConfigFacts
  <2>3. QED
    BY <1>0, <1>4, <2>1, <2>2
<1>5. QED
  BY <1>1, <1>2, <1>3, <1>4

\* The account after one more send of a kind.
LEMMA CountedFacts ==
    ASSUME ControlOK, Core, NEW b, Lifting(b), NEW kind \in Kinds
    PROVE  /\ Counted(b, kind) \in [Kinds -> Nat]
           /\ \A k \in Kinds \ {kind} :
                Counted(b, kind)[k] = 0 \/ Counted(b, kind)[k] = SpentAfter(b)[k]
           /\ Counted(b, kind)[kind] <= 1 + SpentAfter(b)[kind]
           /\ config.budget > 0 => \A k \in Kinds \ {kind} :
                Counted(b, kind)[k] = SpentAfter(b)[k]
<1>1. CASE config.budget = 0
  BY <1>1, SpentAfterFacts DEF Core, Counted, NoSends
<1>2. CASE config.budget # 0
  <2>1. Counted(b, kind) = [SpentAfter(b) EXCEPT ![kind] = IF @ < 2 + config.budget THEN @ + 1 ELSE @]
    BY <1>2 DEF Counted
  <2>2. SpentAfter(b) \in [Kinds -> Nat]
    BY SpentAfterFacts DEF Core
  <2>3. QED
    BY <2>1, <2>2, ConfigFacts
<1>3. QED
  BY <1>1, <1>2

\* An entry of the strategy's own, no retry of one queued or given up.
LEMMA SendEntryKeeps ==
    ASSUME ControlOK, Core, NEW b, Lifting(b), config' = config,
           pos = 0, retry.kind # "entry", b.kind # "entry", SendEntry(b)
    PROVE  Core' /\ entered' = entered + 1 /\ (Queued("entry")' => retry'.same)
<1> USE DEF Core
<1>0. entered' = entered + 1 /\ since' = 0 /\ entered' \in Nat /\ since' \in 0 .. config.cooldown
  BY ConfigFacts DEF SendEntry, DataOK
<1>1. CASE Accepted(Lot, FALSE) /\ blocked' = b /\ spent' = NoSends /\ UNCHANGED retry
  <2>1. /\ pos' \in -MaxPos .. MaxPos /\ levels' \in {"none", "own", "carried"}
        /\ working' \in [Slots -> -MaxPos .. MaxPos]
        /\ config.mode = "paper" => pos' = pos + Lot /\ working' = working
    <3>1. Lot \in -MaxPos .. MaxPos /\ pos + Lot \in 0 .. Lot
      BY SizesAssumption
    <3>2. QED
      BY <1>1, <3>1, AcceptedFacts, Zenon
  <2>2. DataOK'
    BY <1>0, <1>1, <2>1, SpentAfterFacts DEF DataOK, Retries, Blocks, NoSends
  <2>3. Holding'
    BY <1>1, <2>1, SizesAssumption DEF Holding, Queued
  <2>4. Pacing'
    BY <1>1 DEF Pacing, Queued
  <2>5. Account'
    BY <1>1, ConfigFacts, RetryFields DEF Account, Queued, NoSends, Kinds
  <2>6. QED
    BY <1>0, <1>1, <2>2, <2>3, <2>4, <2>5 DEF Queued
<1>2. CASE /\ QueueRetry(b, "entry", Lot, TRUE)
           /\ spent' = Counted(b, "entry") /\ UNCHANGED Book
  <2>1. Lot \in 1 .. MaxPos /\ "entry" \in Kinds /\ "exit" \in Kinds
    BY SizesAssumption DEF Kinds
  <2>2. /\ retry' \in Retries /\ blocked' \in Blocks
        /\ \/ /\ config.budget = 0
              /\ retry' = retry /\ blocked' = b
           \/ config.mode = "live" /\ retry' = retry
           \/ /\ config.mode = "paper"
              /\ retry'.kind = "entry" /\ retry'.attempts = 0 /\ retry'.qty = Lot
              /\ retry'.wait = config.cooldown /\ retry'.same = TRUE
              /\ blocked' = b
    BY <1>2, <2>1, QueueCases
  <2>3. /\ pos' = pos /\ levels' = levels /\ working' = working
        /\ spent' = Counted(b, "entry")
    BY <1>2 DEF Book
  <2>4. DataOK'
    BY <1>0, <2>1, <2>2, <2>3, CountedFacts DEF DataOK, Retries, Blocks
  <2>5. Holding'
    BY <2>2, <2>3 DEF Holding, Queued
  <2>6. Pacing'
    BY <1>0, <2>2, ConfigFacts DEF Pacing, Queued
  <2>7. Account'
    <3> SUFFICES ASSUME config.mode = "paper", config.budget > 0
                 PROVE  Account'
      BY DEF Account
    <3>1. SpentAfter(b)["entry"] = 0 /\ SpentAfter(b)["exit"] <= 1 + config.budget
      BY <2>1, SpentAfterFacts, BlockFields, ConfigFacts DEF Account, Queued, Kinds
    <3>2. SpentAfter(b) \in [Kinds -> Nat] /\ Counted(b, "entry") \in [Kinds -> Nat]
      BY <2>1, SpentAfterFacts, CountedFacts
    <3>3. spent'["entry"] <= 1 /\ spent'["exit"] <= 1 + config.budget
      BY <2>1, <2>3, <3>1, <3>2, CountedFacts, ConfigFacts DEF Kinds
    <3>4. retry'.kind = "entry" /\ retry'.attempts = 0 /\ pos' = 0
      BY <2>2, <2>3, ConfigFacts
    <3>5. \A k \in Kinds : spent'[k] <= 1 + config.budget
                           /\ (retry'.kind = k => spent'[k] <= 1 + retry'.attempts)
      BY <3>3, <3>4, <2>1, <2>3, <3>2, ConfigFacts DEF Kinds
    <3>6. QED
      BY <3>4, <3>5, ConfigFacts DEF Account, Queued
  <2>8. QED
    BY <1>0, <2>2, <2>4, <2>5, <2>6, <2>7 DEF Queued
<1>3. QED
  BY <1>1, <1>2 DEF SendEntry

\* What leaves the entries of this bar as they are.
Aside == entered' = entered /\ (Queued("entry")' => retry' = retry)

\* A close: an operator's, or one no retry of an exit is queued or given up.
LEMMA SendCloseKeeps ==
    ASSUME ControlOK, Core, NEW b, Lifting(b), NEW manual \in BOOLEAN, NEW onBar \in BOOLEAN,
           config' = config, pos # 0,
           manual \/ (retry.kind # "exit" /\ b.kind # "exit"), SendClose(b, manual, onBar)
    PROVE  Core' /\ Aside
<1> USE DEF Core
<1>0. /\ entered' = entered /\ since' = since
      /\ Size(pos) \in 1 .. MaxPos /\ -Size(pos) \in -MaxPos .. MaxPos
  <2>1. pos \in -MaxPos .. MaxPos /\ MaxPos \in Nat /\ entered' = entered /\ since' = since
    BY SizesAssumption DEF SendClose, DataOK
  <2>2. CASE pos < 0
    <3>1. Size(pos) = -pos
      BY <2>2 DEF Size
    <3>2. QED
      BY <2>1, <2>2, <3>1
  <2>3. CASE ~(pos < 0)
    <3>1. Size(pos) = pos
      BY <2>3 DEF Size
    <3>2. QED
      BY <2>1, <2>3, <3>1
  <2>4. QED
    BY <2>2, <2>3
<1>1. config.mode = "paper" => /\ pos \in 1 .. Lot /\ retry.kind # "entry"
                              /\ blocked.kind # "entry" /\ b.kind # "entry"
                              /\ Size(pos) = pos
  BY SizesAssumption DEF Holding, Queued, Lifting, NoBlock, Size
<1>2. CASE Accepted(-Size(pos), TRUE) /\ blocked' = b /\ spent' = NoSends /\ UNCHANGED retry
  <2>1. config.mode = "paper" => pos + (-Size(pos)) \in 0 .. Lot
    BY <1>1, SizesAssumption
  <2>2. /\ pos' \in -MaxPos .. MaxPos /\ levels' \in {"none", "own", "carried"}
        /\ working' \in [Slots -> -MaxPos .. MaxPos]
        /\ config.mode = "paper" => pos' \in 0 .. Lot /\ working' = working
    BY <1>0, <1>2, <2>1, AcceptedFacts
  <2>3. DataOK'
    BY <1>0, <1>2, <2>2, SpentAfterFacts DEF DataOK, Retries, Blocks, NoSends
  <2>4. Holding'
    BY <1>1, <1>2, <2>2 DEF Holding, Queued
  <2>5. Pacing'
    BY <1>0, <1>2 DEF Pacing, Queued
  <2>6. Account'
    BY <1>2, ConfigFacts, RetryFields DEF Account, Queued, NoSends, Kinds
  <2>7. QED
    BY <1>0, <1>2, <2>3, <2>4, <2>5, <2>6 DEF Aside
<1>3. CASE /\ QueueRetry(b, "exit", Size(pos), onBar)
           /\ spent' = IF manual THEN SpentAfter(b) ELSE Counted(b, "exit")
           /\ UNCHANGED Book
  <2>1. "entry" \in Kinds /\ "exit" \in Kinds
    BY DEF Kinds
  <2>2. /\ retry' \in Retries /\ blocked' \in Blocks
        /\ \/ /\ config.budget = 0 \/ b.kind = "exit"
              /\ retry' = retry /\ blocked' = b
           \/ /\ config.budget # 0 /\ b.kind # "exit" /\ retry.kind = "exit"
              /\ retry'.kind = "exit" /\ retry'.attempts = retry.attempts
              /\ blocked' = b
           \/ config.mode = "live" /\ retry' = retry
           \/ /\ config.budget # 0 /\ b.kind # "exit" /\ retry.kind # "exit"
              /\ config.mode = "paper"
              /\ retry'.kind = "exit" /\ retry'.attempts = 0
              /\ blocked' = b
    BY <1>0, <1>3, <2>1, QueueCases
  <2>3. pos' = pos /\ levels' = levels /\ working' = working
    BY <1>3 DEF Book
  <2>4. spent' \in [Kinds -> Nat]
    BY <1>3, <2>1, CountedFacts, SpentAfterFacts
  <2>5. DataOK'
    BY <1>0, <2>2, <2>3, <2>4 DEF DataOK, Retries, Blocks
  <2>6. Holding'
    BY <1>1, <2>2, <2>3 DEF Holding, Queued
  <2>7. Pacing'
    BY <1>0, <2>2 DEF Pacing, Queued
  <2>8. Account'
    <3> SUFFICES ASSUME config.mode = "paper", config.budget > 0
                 PROVE  /\ retry'.kind # "none" => retry'.attempts <= config.budget
                        /\ spent'["entry"] = 0 /\ spent'["exit"] <= 1 + config.budget
                        /\ retry'.kind = "exit" => spent'["exit"] <= 1 + retry'.attempts
                        /\ retry'.kind # "exit" => blocked'.kind = "exit"
                        /\ retry'.kind # "entry"
      BY <2>3, ConfigFacts DEF Account, Queued, Kinds
    <3>1. /\ SpentAfter(b)["entry"] = 0 /\ SpentAfter(b)["exit"] <= 1 + config.budget
          /\ retry.kind = "exit" => SpentAfter(b)["exit"] <= 1 + retry.attempts
          /\ retry.kind # "exit" /\ b.kind # "exit" => SpentAfter(b)["exit"] = 0
      BY <1>1, <2>1, SpentAfterFacts, ConfigFacts, RetryFields DEF Account, Queued, Kinds
    <3>2. SpentAfter(b) \in [Kinds -> Nat]
      BY SpentAfterFacts
    <3>3. CASE manual
      BY <1>1, <1>3, <2>1, <2>2, <3>1, <3>2, <3>3, ConfigFacts, RetryFields DEF Account, Queued
    <3>4. CASE ~manual
      <4>1. /\ Counted(b, "exit")["entry"] = SpentAfter(b)["entry"]
            /\ Counted(b, "exit")["exit"] <= 1
        BY <2>1, <3>1, <3>2, <3>4, CountedFacts, ConfigFacts DEF Kinds
      <4>2. QED
        BY <1>1, <1>3, <2>1, <2>2, <2>4, <3>1, <3>4, <4>1, ConfigFacts, RetryFields
    <3>5. QED
      BY <3>3, <3>4
  <2>9. QED
    BY <1>0, <2>2, <2>5, <2>6, <2>7, <2>8 DEF Aside, Queued
<1>4. QED
  BY <1>2, <1>3 DEF SendClose

\* A spent budget that has waited long enough is lifted, any other stays.
LEMMA RearmedFacts ==
    ASSUME Core, NEW b, Lifting(b), NEW kind \in Kinds
    PROVE  /\ Lifting(Rearmed(b, kind))
           /\ ~RetryOwns(b, kind) => retry.kind # kind /\ Rearmed(b, kind).kind # kind
<1>1. b.wait \in 0 .. RearmAfter /\ RearmAfter \in Nat /\ NoBlock.kind # kind
  BY BlockFields, SizesAssumption DEF Core, Lifting, NoBlock, Kinds
<1>2. Lifting(Rearmed(b, kind))
  BY DEF Rearmed, Lifting
<1>3. ASSUME ~RetryOwns(b, kind)
      PROVE  retry.kind # kind /\ Rearmed(b, kind).kind # kind
  <2>1. retry.kind # kind /\ (b.kind # kind \/ b.wait = 0)
    BY <1>1, <1>3 DEF RetryOwns
  <2>2. QED
    BY <1>1, <2>1 DEF Rearmed
<1>4. QED
  BY <1>2, <1>3

\* What an order does to the entries of this bar.
Entering == entered' = entered + 1 /\ (Queued("entry")' => retry'.same)

LEMMA EmitEntryKeeps ==
    ASSUME ControlOK, Core, NEW b, Lifting(b), config' = config, pos = 0, EmitEntry(b)
    PROVE  Core' /\ (Aside \/ Entering)
<1>1. /\ Lifting(Rearmed(b, "entry")) /\ "entry" \in Kinds
      /\ ~RetryOwns(b, "entry") => retry.kind # "entry" /\ Rearmed(b, "entry").kind # "entry"
  BY RearmedFacts DEF Kinds
<1>2. ASSUME NEW c, Lifting(c), Hold(c)
      PROVE  Core' /\ Aside
  BY <1>2, HoldKeeps DEF Hold, Aside
<1>3. CASE RetryOwns(b, "entry")
  BY <1>2, <1>3 DEF EmitEntry
<1>4. CASE ~RetryOwns(b, "entry") /\ ~window
  BY <1>1, <1>2, <1>4 DEF EmitEntry
<1>5. CASE ~RetryOwns(b, "entry") /\ window
  <2>1. SendEntry(Rearmed(b, "entry"))
    BY <1>5 DEF EmitEntry
  <2>2. QED
    BY <1>1, <1>5, <2>1, SendEntryKeeps DEF Entering
<1>6. QED
  BY <1>3, <1>4, <1>5

LEMMA EmitCloseKeeps ==
    ASSUME ControlOK, Core, NEW b, Lifting(b), NEW manual \in BOOLEAN, NEW onBar \in BOOLEAN,
           config' = config, pos # 0, EmitClose(b, manual, onBar)
    PROVE  Core' /\ Aside
<1>1. /\ Lifting(Rearmed(b, "exit")) /\ "exit" \in Kinds
      /\ ~RetryOwns(b, "exit") => retry.kind # "exit" /\ Rearmed(b, "exit").kind # "exit"
  BY RearmedFacts DEF Kinds
<1>2. CASE RetryOwns(b, "exit") /\ ~manual
  <2>1. Hold(b)
    BY <1>2 DEF EmitClose
  <2>2. QED
    BY <2>1, HoldKeeps DEF Hold, Aside
<1>3. CASE ~(RetryOwns(b, "exit") /\ ~manual)
  <2>1. SendClose(Rearmed(b, "exit"), manual, onBar)
    BY <1>3 DEF EmitClose
  <2>2. QED
    BY <1>1, <1>3, <2>1, SendCloseKeeps
<1>4. QED
  BY <1>2, <1>3

\* A close on request sells all of the position or half of it.
LEMMA ClosePositionKeeps ==
    ASSUME ControlOK, Core, config' = config, ClosePosition
    PROVE  Core' /\ Aside
<1> PICK part \in {Size(pos), Size(pos) \div 2} \ {0} :
        /\ Accepted(IF pos > 0 THEN -part ELSE part, TRUE)
        /\ spent' = NoSends
        /\ UNCHANGED <<Queue, entered, since>>
  BY DEF ClosePosition
<1> DEFINE q == IF pos > 0 THEN -part ELSE part
<1>1. /\ spent' = NoSends /\ retry' = retry /\ blocked' = blocked
      /\ entered' = entered /\ since' = since /\ Accepted(q, TRUE)
  BY DEF Queue
<1>2. pos \in -MaxPos .. MaxPos /\ MaxPos \in Nat
  BY SizesAssumption DEF Core, DataOK
<1>3. Size(pos) \in 0 .. MaxPos /\ (pos > 0 => Size(pos) = pos) /\ (pos = 0 => Size(pos) = 0)
  BY <1>2 DEF Size
<1>4. part \in 1 .. Size(pos)
  BY <1>3
<1>5. q \in -MaxPos .. MaxPos /\ pos # 0 /\ (pos > 0 => pos + q \in 0 .. pos)
  BY <1>2, <1>3, <1>4
<1>6. config.mode = "paper" => pos > 0 /\ pos + q \in 0 .. Lot
  BY <1>2, <1>5, SizesAssumption DEF Core, Holding
<1> HIDE DEF q
<1>7. /\ pos' \in -MaxPos .. MaxPos /\ levels' \in {"none", "own", "carried"}
      /\ working' \in [Slots -> -MaxPos .. MaxPos]
      /\ config.mode = "paper" => pos' = pos + q /\ working' = working
  BY <1>1, <1>5, <1>6, AcceptedFacts
<1>8. DataOK'
  BY <1>1, <1>7 DEF Core, DataOK, Retries, Blocks, NoSends
<1>9. Holding'
  BY <1>1, <1>6, <1>7 DEF Core, Holding, Queued
<1>10. Pacing' /\ Account'
  BY <1>1, ConfigFacts, RetryFields DEF Core, Pacing, Account, Queued, NoSends, Kinds
<1>11. QED
  BY <1>1, <1>8, <1>9, <1>10 DEF Core, Aside

LEMMA StutterKeeps ==
    ASSUME Core, config' = config, UNCHANGED <<Book, Queue, Ghost>>
    PROVE  Core' /\ Aside
BY DEF Core, DataOK, Holding, Pacing, Account, Retries, Blocks, Queued, Aside, Book, Queue, Ghost

\* The levels may go, the rest stays.
LEMMA LevelsKeep ==
    ASSUME Core, config' = config, levels' \in {"none", "own", "carried"},
           UNCHANGED <<pos, working, Queue, Ghost>>
    PROVE  Core' /\ Aside
BY DEF Core, DataOK, Holding, Pacing, Account, Retries, Blocks, Queued, Aside, Queue, Ghost

LEMMA CheckRulesKeep ==
    ASSUME ControlOK, Core, config' = config, CheckPositionRules
    PROVE  Core' /\ Aside
<1>1. CASE UNCHANGED <<Book, Queue, Ghost>>
  BY <1>1, StutterKeeps
<1>2. CASE pos # 0 /\ EmitClose(blocked, TRUE, FALSE)
  BY <1>2, EmitCloseKeeps DEF Lifting
<1>3. CASE levels' = "none" /\ UNCHANGED <<pos, working, Queue, Ghost>>
  BY <1>3, LevelsKeep
<1>4. QED
  BY <1>1, <1>2, <1>3 DEF CheckPositionRules

LEMMA FlattenKeeps ==
    ASSUME ControlOK, Core, config' = config, FlattenAll
    PROVE  Core' /\ Aside
<1>1. CASE pos # 0 /\ EmitClose(blocked, FALSE, FALSE)
  BY <1>1, EmitCloseKeeps DEF Lifting
<1>2. CASE UNCHANGED <<Book, Queue, Ghost>>
  BY <1>2, StutterKeeps
<1>3. QED
  BY <1>1, <1>2 DEF FlattenAll

-----------------------------------------------------------------------------
(* The pump.  Only a paper runner has a retry that falls due. *)

\* What is known of a retry that is due.
LEMMA DueFacts ==
    ASSUME ControlOK, Core, Due
    PROVE  /\ config.mode = "paper" /\ retry.kind \in Kinds /\ ~retry.same
           /\ retry.qty \in 1 .. MaxPos /\ retry.attempts \in Nat
           /\ blocked.kind # "entry"
           /\ retry.kind = "entry" => /\ pos = 0 /\ retry.qty = Lot
                                      /\ since >= config.cooldown
           /\ retry.kind = "exit" /\ config.budget > 0 => spent["entry"] = 0
<1>1. retry.kind # "none" /\ ~retry.same /\ retry.wait = 0
  BY DEF Due
<1>2. retry.kind \in Kinds /\ retry.qty \in 1 .. MaxPos /\ retry.attempts \in Nat
  BY <1>1, RetryFields DEF Core, Kinds
<1>3. config.mode = "paper"
  BY <1>1, ConfigFacts DEF Core, Holding, Queued
<1>4. /\ blocked.kind # "entry" /\ (retry.kind = "entry" => pos = 0 /\ retry.qty = Lot)
  BY <1>1, <1>3 DEF Core, Holding, Queued
<1>5. retry.kind = "entry" => since >= config.cooldown
  BY <1>1, ConfigFacts DEF Core, DataOK, Pacing, Queued
<1>6. retry.kind = "exit" /\ config.budget > 0 => spent["entry"] = 0
  BY <1>3, <1>4 DEF Core, Account, Queued
<1>7. QED
  BY <1>1, <1>2, <1>3, <1>4, <1>5, <1>6

LEMMA EmptyQueue == NoRetry \in Retries /\ NoRetry.kind = "none"
BY DEF Retries, NoRetry

LEMMA PumpDropsKeeps ==
    ASSUME ControlOK, Core, config' = config, PumpDrops
    PROVE  Core' /\ entered' = entered
<1>1. /\ Due /\ retry.kind = "entry" /\ retry' = NoRetry
      /\ spent' = [spent EXCEPT !["entry"] = 0]
      /\ pos' = pos /\ levels' = levels /\ working' = working
      /\ blocked' = blocked /\ entered' = entered /\ since' = since
  BY DEF PumpDrops, Book
<1>2. config.mode = "paper" /\ pos = 0
  BY <1>1, DueFacts
<1>3. DataOK'
  BY <1>1, EmptyQueue DEF Core, DataOK, Retries, Blocks
<1>4. Holding' /\ Pacing'
  BY <1>1, <1>2, EmptyQueue DEF Core, Holding, Pacing, Queued
<1>5. Account'
  <2>1. spent \in [Kinds -> Nat]
    BY DEF Core, DataOK
  <2>2. QED
    BY <1>1, <1>2, <2>1, EmptyQueue, ConfigFacts DEF Core, Account, Queued, Kinds
<1>6. QED
  BY <1>1, <1>3, <1>4, <1>5 DEF Core

LEMMA PumpGivesUpKeeps ==
    ASSUME ControlOK, Core, config' = config, PumpGivesUp
    PROVE  Core' /\ entered' = entered
<1>1. /\ Due /\ retry' = NoRetry /\ blocked' = Spent(retry.kind)
      /\ pos' = pos /\ levels' = levels /\ working' = working
      /\ spent' = spent /\ entered' = entered /\ since' = since
  BY DEF PumpGivesUp, Sends, Book, Ghost
<1>2. Spent(retry.kind) \in Blocks /\ Spent(retry.kind).kind = retry.kind
  BY <1>1, DueFacts, SizesAssumption DEF Spent, Blocks
<1>3. DataOK'
  BY <1>1, <1>2, EmptyQueue DEF Core, DataOK, Retries, Blocks
<1>4. Holding' /\ Pacing'
  BY <1>1, <1>2, EmptyQueue, DueFacts DEF Core, Holding, Pacing, Queued
<1>5. Account'
  BY <1>1, <1>2, EmptyQueue, DueFacts, ConfigFacts DEF Core, Account, Queued, Kinds
<1>6. QED
  BY <1>1, <1>3, <1>4, <1>5 DEF Core

\* What the pump sends is what there is to sell, or one entry.
LEMMA RetryOrderFacts ==
    ASSUME ControlOK, Core, Due, Accepted(RetryOrder, FALSE)
    PROVE  RetryOrder \in -MaxPos .. MaxPos /\ pos + RetryOrder \in 0 .. Lot
<1>1. /\ config.mode = "paper" /\ retry.kind \in {"entry", "exit"}
      /\ retry.qty \in 1 .. MaxPos
      /\ retry.kind = "entry" => pos = 0 /\ retry.qty = Lot
  BY DueFacts DEF Kinds
<1>2. ~PaperRefuses(RetryOrder)
  BY <1>1 DEF Accepted
<1>3. pos \in 0 .. Lot
  BY <1>1 DEF Core, Holding
<1>4. CASE retry.kind = "entry"
  BY <1>1, <1>4, SizesAssumption DEF RetryOrder
<1>5. CASE retry.kind = "exit"
  <2>1. RetryOrder = -retry.qty
    BY <1>5 DEF RetryOrder
  <2>2. ~(pos = 0) /\ ~Reverses(RetryOrder)
    BY <1>1, <1>2, <2>1 DEF PaperRefuses
  <2>3. Size(RetryOrder) = retry.qty /\ Size(pos) = pos
    BY <1>1, <1>3, <2>1, SizesAssumption DEF Size
  <2>4. pos * RetryOrder < 0
    <3>1. pos \in Nat \ {0} /\ retry.qty \in Nat \ {0}
      BY <1>1, <1>3, <2>2, SizesAssumption
    <3>2. \A m, n \in Nat \ {0} : m * (-n) < 0
      BY SMTT(30)
    <3>3. QED
      BY <2>1, <3>1, <3>2
  <2>5. retry.qty <= pos
    BY <1>1, <1>3, <2>2, <2>3, <2>4, SizesAssumption DEF Reverses
  <2>6. QED
    BY <1>1, <1>3, <2>1, <2>5, SizesAssumption
<1>6. QED
  BY <1>1, <1>4, <1>5

\* What the pump does to the entries of the bar: it sends one only if none
\* went out on this bar and the cooldown is over.
PumpEntering ==
    \/ entered' = entered
    \/ /\ entered' = entered + 1 /\ Queued("entry") /\ ~retry.same
       /\ since >= config.cooldown

\* A retry refused once more.
LEMMA ResentFields ==
    ASSUME NEW Q, NEW W, NEW w \in W,
           NEW r \in [kind : Kinds, qty : Q, attempts : Nat, wait : W, same : BOOLEAN],
           NEW e, e = [r EXCEPT !.attempts = @ + 1, !.wait = w, !.same = TRUE]
    PROVE  /\ e \in [kind : Kinds, qty : Q, attempts : Nat, wait : W, same : BOOLEAN]
           /\ e.kind = r.kind /\ e.qty = r.qty
           /\ e.attempts = r.attempts + 1 /\ e.wait = w
<1>1. [r EXCEPT !.attempts = @ + 1]
        \in [kind : Kinds, qty : Q, attempts : Nat, wait : W, same : BOOLEAN]
  OBVIOUS
<1> DEFINE s == [r EXCEPT !.attempts = @ + 1]
<1>2. s.kind = r.kind /\ s.qty = r.qty /\ s.attempts = r.attempts + 1
  OBVIOUS
<1> HIDE DEF s
<1>3. e = [[s EXCEPT !.wait = w] EXCEPT !.same = TRUE]
  BY DEF s
<1>4. QED
  BY <1>1, <1>2, <1>3

LEMMA PumpSendsKeeps ==
    ASSUME ControlOK, Core, config' = config, PumpSends
    PROVE  Core' /\ PumpEntering
<1>1. /\ Due /\ ~(retry.attempts + 1 > config.budget) /\ config.mode = "paper" /\ Retryable
      /\ config.budget \in Nat /\ config.cooldown \in Nat /\ retry.attempts \in Nat
  BY DueFacts, ConfigFacts DEF PumpSends, Sends, Exhausted, Retryable
<1>2. /\ PumpEntering
      /\ entered' \in Nat /\ since' \in 0 .. config.cooldown
      /\ since' = 0 \/ since' = since
  BY <1>1, DueFacts DEF PumpSends, PumpEntering, Queued, Core, DataOK
<1>3. CASE /\ Accepted(RetryOrder, FALSE)
           /\ retry' = NoRetry /\ blocked' = NoBlock /\ spent' = NoSends
  <2>1. RetryOrder \in -MaxPos .. MaxPos /\ pos + RetryOrder \in 0 .. Lot
    BY <1>1, <1>3, RetryOrderFacts
  <2>2. /\ pos' \in -MaxPos .. MaxPos /\ levels' \in {"none", "own", "carried"}
        /\ working' \in [Slots -> -MaxPos .. MaxPos]
        /\ pos' = pos + RetryOrder /\ working' = working
    BY <1>1, <1>3, <2>1, AcceptedFacts
  <2>3. NoBlock \in Blocks /\ NoBlock.kind = "none"
    BY DEF NoBlock, Blocks
  <2>4. DataOK'
    BY <1>2, <1>3, <2>2, <2>3, EmptyQueue DEF DataOK, Retries, Blocks, NoSends
  <2>5. Holding' /\ Pacing'
    BY <1>1, <1>3, <2>1, <2>2, <2>3, EmptyQueue DEF Core, Holding, Pacing, Queued
  <2>6. Account'
    BY <1>1, <1>3, EmptyQueue DEF Account, Queued, NoSends, Kinds
  <2>7. QED
    BY <1>2, <2>4, <2>5, <2>6 DEF Core
<1>4. CASE /\ retry' = [retry EXCEPT !.attempts = @ + 1, !.wait = config.cooldown, !.same = TRUE]
           /\ blocked' = blocked
           /\ spent' = Counted(blocked, retry.kind)
           /\ UNCHANGED Book
  <2> DEFINE Full == [kind : Kinds, qty : 1 .. MaxPos, attempts : Nat,
                      wait : 0 .. config.cooldown, same : BOOLEAN]
  <2>1. retry \in Full
    BY <1>1, DueFacts, EmptyQueue DEF Core, DataOK, Retries, Kinds, NoRetry
  <2>2. /\ retry' \in Full /\ retry'.kind = retry.kind /\ retry'.qty = retry.qty
        /\ retry'.attempts = retry.attempts + 1 /\ retry'.wait = config.cooldown
    <3>1. config.cooldown \in 0 .. config.cooldown
      BY <1>1
    <3>2. QED
      BY <1>4, <2>1, <3>1, ResentFields
  <2> HIDE DEF Full
  <2>3. retry' \in Retries'
    BY <2>2 DEF Retries, Full
  <2>4. pos' = pos /\ levels' = levels /\ working' = working
    BY <1>4 DEF Book
  <2>5. Lifting(blocked) /\ retry.kind \in Kinds
    BY <1>1, DueFacts DEF Lifting
  <2>6. /\ SpentAfter(blocked) \in [Kinds -> Nat]
        /\ \A k \in Kinds : SpentAfter(blocked)[k] = spent[k]
    BY <2>5, SpentAfterFacts DEF Core
  <2>7. /\ spent' \in [Kinds -> Nat]
        /\ spent'[retry.kind] <= 1 + spent[retry.kind]
        /\ config.budget > 0 => \A k \in Kinds \ {retry.kind} : spent'[k] = spent[k]
    BY <1>4, <2>5, <2>6, CountedFacts
  <2>8. DataOK'
    BY <1>2, <1>4, <2>3, <2>4, <2>7 DEF Core, DataOK, Retries, Blocks
  <2>9. Holding'
    BY <1>1, <1>4, <2>2, <2>4 DEF Core, Holding, Queued
  <2>10. Pacing'
    BY <1>1, <1>2, <2>2 DEF Pacing, Queued
  <2>11. Account'
    <3> SUFFICES ASSUME config.budget > 0
                 PROVE  Account'
      BY DEF Account
    <3>1. /\ \A k \in Kinds : spent[k] <= 1 + config.budget /\ spent[k] \in Nat
          /\ spent[retry.kind] <= 1 + retry.attempts
          /\ blocked.kind # "entry"
      BY <1>1, <2>5, DueFacts DEF Core, DataOK, Account, Queued
    <3>2. spent'[retry.kind] <= 1 + retry'.attempts /\ retry'.attempts <= config.budget
          /\ spent'[retry.kind] \in Nat
      BY <1>1, <2>2, <2>5, <2>7, <3>1
    <3>3. \A k \in Kinds : spent'[k] <= 1 + config.budget
      BY <1>1, <2>2, <2>7, <3>1, <3>2
    <3>4. \A k \in Kinds : retry'.kind = k => spent'[k] <= 1 + retry'.attempts
      BY <2>2, <3>2
    <3>5. CASE retry.kind = "entry"
      BY <1>1, <2>2, <2>4, <3>2, <3>3, <3>4, <3>5, DueFacts DEF Account, Queued, Kinds
    <3>6. CASE retry.kind = "exit"
      <4>1. spent'["entry"] = 0
        BY <1>1, <2>7, <3>6, DueFacts DEF Kinds
      <4>2. QED
        BY <1>1, <2>2, <2>4, <3>2, <3>3, <3>4, <3>6, <4>1 DEF Account, Queued, Kinds
    <3>7. QED
      BY <2>5, <3>5, <3>6 DEF Kinds
  <2>12. QED
    BY <1>2, <2>8, <2>9, <2>10, <2>11 DEF Core
<1>5. QED
  BY <1>1, <1>2, <1>3, <1>4 DEF PumpSends

LEMMA PumpKeeps ==
    ASSUME ControlOK, Core, config' = config, PumpRetries
    PROVE  Core' /\ PumpEntering
<1>1. CASE PumpWaits
  BY <1>1, StutterKeeps DEF PumpWaits, Aside, PumpEntering
<1>2. CASE PumpDrops
  BY <1>2, PumpDropsKeeps DEF PumpEntering
<1>3. CASE PumpGivesUp
  BY <1>3, PumpGivesUpKeeps DEF PumpEntering
<1>4. CASE PumpSends
  BY <1>4, PumpSendsKeeps
<1>5. QED
  BY <1>1, <1>2, <1>3, <1>4 DEF PumpRetries

-----------------------------------------------------------------------------
(* The venue, the clock and the start of a bar *)

LEMMA VenueKeeps ==
    ASSUME ControlOK, Core, config' = config, Venue
    PROVE  Core' /\ Aside
<1>1. PICK s \in Slots : VenueFills(s) \/ VenueDrops(s)
  BY DEF Venue
<1>2. /\ working[s] # 0 /\ working' = [working EXCEPT ![s] = 0]
      /\ retry' = retry /\ blocked' = blocked /\ spent' = spent
      /\ entered' = entered /\ since' = since
  BY <1>1 DEF VenueFills, VenueDrops, Queue, Ghost
<1>3. config.mode = "live"
  BY <1>2, ConfigFacts DEF Core, Holding
<1>4. pos' \in -MaxPos .. MaxPos /\ levels' \in {"none", "own", "carried"}
  <2>1. CASE VenueFills(s)
    <3>1. /\ pos' = pos + working[s] /\ Size(pos + working[s]) <= MaxPos
          /\ levels' = LevelsAfter(pos + working[s], FALSE)
      BY <2>1 DEF VenueFills
    <3>2. pos + working[s] \in -MaxPos .. MaxPos
      BY <3>1, SizesAssumption DEF Size, Core, DataOK
    <3>3. LevelsAfter(pos + working[s], FALSE) \in {"none", "own", "carried"}
      BY DEF LevelsAfter, Core, DataOK
    <3>4. QED
      BY <3>1, <3>2, <3>3
  <2>2. CASE VenueDrops(s)
    BY <2>2 DEF VenueDrops, Core, DataOK
  <2>3. QED
    BY <1>1, <2>1, <2>2
<1>5. working' \in [Slots -> -MaxPos .. MaxPos]
  BY <1>2, SizesAssumption DEF Core, DataOK
<1>6. DataOK'
  BY <1>2, <1>4, <1>5 DEF Core, DataOK, Retries, Blocks
<1>7. Holding' /\ Pacing' /\ Account'
  BY <1>2, <1>3 DEF Core, Holding, Pacing, Account, Queued
<1>8. QED
  BY <1>2, <1>6, <1>7 DEF Core, Aside

\* One field of the queued retry is changed: its wait, or its bar.
LEMMA RetryChanged ==
    ASSUME ControlOK, DataOK, NEW e,
           \/ e = [retry EXCEPT !.wait = Less(@)]
           \/ e = [retry EXCEPT !.same = FALSE]
    PROVE  /\ e \in Retries
           /\ e.kind = retry.kind /\ e.qty = retry.qty /\ e.attempts = retry.attempts
           /\ retry.kind # "none" => e.wait \in {retry.wait, Less(retry.wait)}
<1> DEFINE Full == [kind : Kinds, qty : 1 .. MaxPos, attempts : Nat,
                    wait : 0 .. config.cooldown, same : BOOLEAN]
<1>1. CASE retry \in Full
  <2>1. config.cooldown \in Nat
    BY ConfigFacts
  <2>2. Less(retry.wait) \in 0 .. config.cooldown
    BY <1>1, <2>1 DEF Less
  <2>3. e \in Full
    BY <1>1, <2>2
  <2>4. QED
    BY <1>1, <2>3 DEF Retries
<1>2. CASE retry = NoRetry
  BY <1>2 DEF NoRetry, Less, Retries
<1>3. QED
  BY <1>1, <1>2 DEF DataOK, Retries, NoRetry

LEMMA TickKeeps ==
    ASSUME ControlOK, Core, config' = config, Tick
    PROVE  Core' /\ entered' = entered
<1>1. /\ retry' = [retry EXCEPT !.wait = Less(@)]
      /\ blocked' = [blocked EXCEPT !.wait = Less(@)]
      /\ since' = IF since < config.cooldown THEN since + 1 ELSE since
      /\ pos' = pos /\ levels' = levels /\ working' = working
      /\ spent' = spent /\ entered' = entered
  BY DEF Tick, Book
<1>2. /\ retry' \in Retries /\ retry'.kind = retry.kind /\ retry'.qty = retry.qty
      /\ retry'.attempts = retry.attempts
      /\ retry.kind # "none" => retry'.wait \in {retry.wait, Less(retry.wait)}
  BY <1>1, RetryChanged DEF Core
<1>3. blocked' \in Blocks /\ blocked'.kind = blocked.kind
  <2>1. blocked \in [kind : Kinds, wait : 0 .. RearmAfter] \/ blocked = NoBlock
    BY DEF Core, DataOK, Blocks, NoBlock
  <2>2. CASE blocked \in [kind : Kinds, wait : 0 .. RearmAfter]
    <3>1. Less(blocked.wait) \in 0 .. RearmAfter
      BY <2>2, SizesAssumption DEF Less
    <3>2. QED
      BY <1>1, <2>2, <3>1 DEF Blocks
  <2>3. CASE blocked = NoBlock
    BY <1>1, <2>3 DEF NoBlock, Less, Blocks
  <2>4. QED
    BY <2>1, <2>2, <2>3
<1>4. /\ since' \in 0 .. config.cooldown
      /\ since' = since + 1 \/ (since = config.cooldown /\ since' = since)
  <2>1. since \in 0 .. config.cooldown /\ config.cooldown \in Nat
    BY ConfigFacts DEF Core, DataOK
  <2>2. QED
    BY <1>1, <2>1
<1>5. DataOK'
  BY <1>1, <1>2, <1>3, <1>4 DEF Core, DataOK, Retries, Blocks
<1>6. Holding'
  BY <1>1, <1>2, <1>3 DEF Core, Holding, Queued
<1>7. Pacing'
  <2> SUFFICES ASSUME retry.kind = "entry"
               PROVE  since' + retry'.wait >= config.cooldown
    BY <1>2 DEF Pacing, Queued
  <2>1. /\ retry.wait \in 0 .. config.cooldown /\ since \in 0 .. config.cooldown
        /\ config.cooldown \in Nat /\ since + retry.wait >= config.cooldown
    BY RetryFields, ConfigFacts DEF Core, DataOK, Pacing, Queued
  <2>2. retry'.wait = Less(retry.wait)
    <3>1. retry \in [kind : Kinds, qty : 1 .. MaxPos, attempts : Nat,
                     wait : 0 .. config.cooldown, same : BOOLEAN]
      BY EmptyQueue DEF Core, DataOK, Retries, NoRetry
    <3>2. QED
      BY <1>1, <3>1
  <2>3. QED
    BY <1>4, <2>1, <2>2 DEF Less
<1>8. Account'
  BY <1>1, <1>2, <1>3 DEF Core, Account, Queued
<1>9. QED
  BY <1>1, <1>5, <1>6, <1>7, <1>8 DEF Core

LEMMA BarClosesKeeps ==
    ASSUME ControlOK, Core, config' = config, BarCloses
    PROVE  Core' /\ entered' = 0
<1>1. /\ retry' = [retry EXCEPT !.same = FALSE] /\ entered' = 0
      /\ pos' = pos /\ levels' = levels /\ working' = working
      /\ blocked' = blocked /\ spent' = spent /\ since' = since
  BY DEF BarCloses, Book
<1>2. /\ retry' \in Retries /\ retry'.kind = retry.kind /\ retry'.qty = retry.qty
      /\ retry'.attempts = retry.attempts
  BY <1>1, RetryChanged DEF Core
<1>3. DataOK'
  BY <1>1, <1>2 DEF Core, DataOK, Retries, Blocks
<1>4. Holding' /\ Account'
  BY <1>1, <1>2 DEF Core, Holding, Account, Queued
<1>5. Pacing'
  <2> SUFFICES ASSUME retry.kind = "entry"
               PROVE  retry'.wait = retry.wait
    BY <1>1, <1>2 DEF Core, Pacing, Queued
  <2>1. retry \in [kind : Kinds, qty : 1 .. MaxPos, attempts : Nat,
                   wait : 0 .. config.cooldown, same : BOOLEAN]
    BY EmptyQueue DEF Core, DataOK, Retries, NoRetry
  <2>2. QED
    BY <1>1, <2>1
<1>6. QED
  BY <1>1, <1>3, <1>4, <1>5 DEF Core

LEMMA LiftedFact == Lifting(Lifted)
BY DEF Lifting, Lifted

-----------------------------------------------------------------------------
(* The invariant is inductive *)

LEMMA InitHolds == Init => IInv
<1> SUFFICES ASSUME Init PROVE IInv
  OBVIOUS
<1>1. TypeOK
  <2>1. config.cooldown \in Nat /\ MaxPos \in Nat
    BY SizesAssumption DEF Init
  <2>2. NoRetry \in Retries /\ NoBlock \in Blocks
    BY DEF NoRetry, Retries, NoBlock, Blocks
  <2>3. DataOK
    BY <2>1, <2>2 DEF Init, DataOK, NoSends
  <2>4. ControlOK
    BY DEF Init, ControlOK
  <2>5. QED
    BY <2>3, <2>4, TypeParts
<1>2. Holding
  BY SizesAssumption DEF Init, Holding, Queued, NoRetry, NoBlock
<1>3. Pacing /\ OncePerBar
  BY DEF Init, Pacing, OncePerBar, Queued, NoRetry
<1>4. Account
  <2>1. config.budget \in Nat
    BY SizesAssumption DEF Init
  <2>2. NoRetry.kind = "none" /\ \A k \in Kinds : NoSends[k] = 0
    BY DEF NoRetry, NoSends
  <2>3. QED
    BY <2>1, <2>2 DEF Init, Account, Queued, Kinds
<1>5. QED
  BY <1>1, <1>2, <1>3, <1>4 DEF IInv

\* What a step between bars keeps.
LEMMA IdleKeeps ==
    ASSUME OncePerBar, stage' = "idle", entered' = entered
    PROVE  OncePerBar'
BY DEF OncePerBar

\* What a stage of the bar keeps that sends no entry.
LEMMA StageKeeps ==
    ASSUME OncePerBar, Aside, stage # "idle", stage' # "strategy"
    PROVE  OncePerBar'
BY DEF OncePerBar, Aside, Queued

LEMMA BarKeeps ==
    ASSUME ControlOK, Core, OncePerBar, Bar
    PROVE  config' = config /\ ControlOK' /\ Core' /\ OncePerBar'
<1>1. CASE BarCloses
  <2>1. config' = config /\ ControlOK' /\ stage' = "strategy"
    BY <1>1 DEF BarCloses, ControlOK
  <2>2. QED
    BY <1>1, <2>1, BarClosesKeeps DEF OncePerBar
<1>2. CASE StrategySilent
  <2>1. config' = config /\ ControlOK' /\ stage = "strategy" /\ stage' = "risk"
    BY <1>2 DEF StrategySilent, ControlOK
  <2>2. QED
    BY <1>2, <2>1, StutterKeeps, StageKeeps DEF StrategySilent, Book, Queue, Ghost
<1>3. CASE StrategyWaits
  <2>1. config' = config /\ ControlOK' /\ stage = "strategy" /\ stage' = "risk"
    BY <1>3 DEF StrategyWaits, ControlOK
  <2>2. Hold(Lifted)
    BY <1>3 DEF StrategyWaits
  <2>3. Core' /\ Aside
    BY <2>1, <2>2, LiftedFact, HoldKeeps DEF Hold, Aside
  <2>4. QED
    BY <2>1, <2>3, StageKeeps
<1>4. CASE StrategyEnters
  <2>1. config' = config /\ ControlOK' /\ stage = "strategy" /\ stage' = "risk"
    BY <1>4 DEF StrategyEnters, ControlOK
  <2>2. Core' /\ (Aside \/ Entering)
    BY <1>4, <2>1, LiftedFact, EmitEntryKeeps DEF StrategyEnters
  <2>3. CASE Aside
    BY <2>1, <2>2, <2>3, StageKeeps
  <2>4. CASE Entering
    BY <2>1, <2>2, <2>4 DEF OncePerBar, Entering, Queued
  <2>5. QED
    BY <2>2, <2>3, <2>4
<1>5. CASE StrategyExits
  <2>1. config' = config /\ ControlOK' /\ stage = "strategy" /\ stage' = "risk"
    BY <1>5 DEF StrategyExits, ControlOK
  <2>2. Core' /\ Aside
    BY <1>5, <2>1, LiftedFact, EmitCloseKeeps DEF StrategyExits
  <2>3. QED
    BY <2>1, <2>2, StageKeeps
<1>6. CASE CheckInstanceRisk
  <2>1. config' = config /\ ControlOK' /\ stage = "risk" /\ stage' = "rules"
    BY <1>6 DEF CheckInstanceRisk, ControlOK
  <2>2. QED
    BY <1>6, <2>1, StutterKeeps, StageKeeps DEF CheckInstanceRisk, Book, Queue, Ghost
<1>7. CASE BarRules
  <2>1. config' = config /\ ControlOK' /\ stage = "rules" /\ stage' = "requests"
    BY <1>7 DEF BarRules, ControlOK
  <2>2. QED
    BY <1>7, <2>1, CheckRulesKeep, StageKeeps DEF BarRules
<1>8. CASE BarRequests
  <2>1. config' = config /\ ControlOK' /\ stage = "requests" /\ stage' = "pump"
    BY <1>8 DEF BarRequests, ControlOK
  <2>2. Core' /\ Aside
    BY <1>8, <2>1, ClosePositionKeeps, StutterKeeps DEF BarRequests
  <2>3. QED
    BY <2>1, <2>2, StageKeeps
<1>9. CASE BarPump
  <2>1. config' = config /\ ControlOK' /\ stage = "pump" /\ stage' = "idle" /\ PumpRetries
    BY <1>9 DEF BarPump, ControlOK
  <2>2. Core' /\ PumpEntering
    BY <2>1, PumpKeeps
  <2>3. entered \in Nat /\ (Queued("entry") /\ ~retry.same => entered = 0)
    BY <2>1 DEF OncePerBar, Core, DataOK
  <2>4. QED
    BY <2>1, <2>2, <2>3 DEF OncePerBar, PumpEntering
<1>10. QED
  BY <1>1, <1>2, <1>3, <1>4, <1>5, <1>6, <1>7, <1>8, <1>9 DEF Bar

\* The operator, the breaker, the levels, the venue and the clock.
LEMMA BetweenBarsKeep ==
    ASSUME ControlOK, Core, OncePerBar,
           Operator \/ BreakerTrips \/ TickRules \/ Venue \/ Tick
    PROVE  config' = config /\ ControlOK' /\ Core' /\ OncePerBar'
<1>1. config' = config /\ stage' = "idle" /\ ControlOK'
  <2>1. Idle
    BY DEF Operator, BreakerTrips, TickRules, Venue, Tick, SetLevel, OperatorCloses,
           OperatorFlattens, Pause, Resume, Stop, EmergencyFlatten, ResetBreaker,
           VenueFills, VenueDrops
  <2>2. status' \in {status, "PAUSED", "RUNNING", "STOPPED"} /\ halted' \in {halted, TRUE, FALSE}
    BY DEF Operator, BreakerTrips, TickRules, Venue, Tick, SetLevel, OperatorCloses,
           OperatorFlattens, Pause, Resume, Stop, EmergencyFlatten, ResetBreaker,
           VenueFills, VenueDrops, Paused
  <2>3. QED
    BY <2>1, <2>2 DEF Idle, ControlOK
<1>2. CASE Operator
  <2>1. CASE SetLevel
    BY <1>1, <2>1, LevelsKeep, IdleKeeps DEF SetLevel, Aside
  <2>2. CASE OperatorCloses
    BY <1>1, <2>2, ClosePositionKeeps, IdleKeeps DEF OperatorCloses, Aside
  <2>3. CASE OperatorFlattens \/ EmergencyFlatten
    BY <1>1, <2>3, FlattenKeeps, IdleKeeps DEF OperatorFlattens, EmergencyFlatten, Aside
  <2>4. CASE Pause \/ Resume \/ Stop \/ ResetBreaker
    <3>1. UNCHANGED <<Book, Queue, Ghost>>
      BY <2>4 DEF Pause, Resume, Stop, ResetBreaker
    <3>2. QED
      BY <1>1, <3>1, StutterKeeps, IdleKeeps DEF Aside
  <2>5. QED
    BY <1>2, <2>1, <2>2, <2>3, <2>4 DEF Operator
<1>3. CASE BreakerTrips
  <2>1. Core' /\ Aside
    BY <1>1, <1>3, FlattenKeeps, StutterKeeps DEF BreakerTrips
  <2>2. QED
    BY <1>1, <2>1, IdleKeeps DEF Aside
<1>4. CASE TickRules
  BY <1>1, <1>4, CheckRulesKeep, IdleKeeps DEF TickRules, Aside
<1>5. CASE Venue
  BY <1>1, <1>5, VenueKeeps, IdleKeeps DEF Aside
<1>6. CASE Tick
  BY <1>1, <1>6, TickKeeps, IdleKeeps
<1>7. QED
  BY <1>2, <1>3, <1>4, <1>5, <1>6

LEMMA StepKeeps == IInv /\ [Next]_vars => IInv'
<1> SUFFICES ASSUME IInv, [Next]_vars PROVE IInv'
  OBVIOUS
<1>1. ControlOK /\ Core /\ OncePerBar
  BY TypeParts DEF IInv, Core
<1>2. ASSUME ControlOK', Core', OncePerBar' PROVE IInv'
  BY <1>2 DEF IInv, Core, TypeOK, ControlOK, DataOK
<1>3. CASE Bar
  BY <1>1, <1>2, <1>3, BarKeeps
<1>4. CASE Operator \/ BreakerTrips \/ TickRules \/ Venue \/ Tick
  BY <1>1, <1>2, <1>4, BetweenBarsKeep
<1>5. CASE UNCHANGED vars
  BY <1>5 DEF vars, Book, Queue, Ghost, IInv, TypeOK, Holding, Pacing, OncePerBar, Account,
              Queued, Retries, Blocks
<1>6. QED
  BY <1>3, <1>4, <1>5 DEF Next

\* No order, refusal, retry or trip of the breaker leads out of IInv.
THEOREM Inductive == Spec => []IInv
BY InitHolds, StepKeeps, PTL DEF Spec

\* Every variable has its type in every reachable state.
THEOREM TypesHold == Spec => []TypeOK
<1>1. IInv => TypeOK
  BY DEF IInv
<1>2. QED
  BY <1>1, Inductive, PTL

\* A refused order goes out once and budget times more (_pump_retries).
THEOREM BudgetKept == Spec => []SendBudget
<1>1. IInv => SendBudget
  BY DEF IInv, Account, SendBudget
<1>2. QED
  BY <1>1, Inductive, PTL

\* The strategy and the pump send one entry between them on a bar (_process_bar).
THEOREM OncePerBarKept == Spec => []EntryOncePerBar
<1>1. IInv => EntryOncePerBar
  BY DEF IInv, OncePerBar, EntryOncePerBar
<1>2. QED
  BY <1>1, Inductive, PTL

\* A retry and a fresh signal never both open (_emit_entry, _retry_owns).
THEOREM OnePosition == Spec => []OneIntentOnePosition
<1>1. IInv => OneIntentOnePosition
  BY DEF IInv, Holding, OneIntentOnePosition, Queued
<1>2. QED
  BY <1>1, Inductive, PTL

\* The pump waits out the cooldown before it sends an entry again (_pump_retries).
THEOREM RetriesArePaced == Spec => RetriesPaced
<1>1. ASSUME IInv, [Next]_vars, stage = "pump", entered' > entered
      PROVE  since >= config.cooldown
  <2>1. ControlOK /\ Core /\ entered \in Nat
    BY <1>1, TypeParts DEF IInv, Core, DataOK
  <2>2. CASE UNCHANGED vars
    BY <1>1, <2>1, <2>2 DEF vars, Ghost
  <2>3. CASE Next
    <3>1. BarPump
      BY <1>1, <2>3 DEF Next, Bar, Operator, Venue, BarCloses, StrategySilent, StrategyWaits,
            StrategyEnters, StrategyExits, CheckInstanceRisk, BarRules, BarRequests,
            BreakerTrips, TickRules, Tick, SetLevel, OperatorCloses, OperatorFlattens, Pause,
            Resume, Stop, EmergencyFlatten, ResetBreaker, VenueFills, VenueDrops, Idle
    <3>2. PumpEntering
      BY <2>1, <3>1, PumpKeeps DEF BarPump
    <3>3. QED
      BY <1>1, <2>1, <3>2 DEF PumpEntering
  <2>4. QED
    BY <1>1, <2>2, <2>3
<1>2. IInv /\ [Next]_vars => [stage = "pump" /\ entered' > entered => since >= config.cooldown]_vars
  BY <1>1
<1>3. QED
  BY <1>2, Inductive, PTL DEF Spec, RetriesPaced
=============================================================================
