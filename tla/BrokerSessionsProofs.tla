------------------------ MODULE BrokerSessionsProofs ------------------------
(***************************************************************************)
(* Proofs about BrokerSessions, for any books, callers and requests: its   *)
(* types; that the store forgets what ended; that a book that waits has a  *)
(* waker; that a lost session is paged.                                    *)
(***************************************************************************)
EXTENDS BrokerSessions, TLAPS

-----------------------------------------------------------------------------
(* The parts of the type invariant *)

Pcs == {"idle", "verified", "resolve", "capture", "hold", "write", "notify", "hush", "drop"}
Marking == {"idle", "sent", "marked", "forget", "page", "close", "raise"}
Turning == {"idle", "forget", "page", "close", "raise", "resolve", "remember", "write", "notify"}

CallersOK ==
    /\ caller \in [Callers -> [pc : Pcs, held : 0 .. issued, fit : BOOLEAN]]
    /\ \A c \in Callers : caller[c].held # 0 <=> caller[c].pc = "write"
RequestsOK ==
    request \in [Requests -> [pc : Marking, held : 0 .. issued]]
MonitorOK ==
    /\ monitor \in [pc : Turning, seen : Statuses, held : 0 .. issued, fit : BOOLEAN]
    /\ monitor.held # 0 <=> monitor.pc = "write"
TokensOK ==
    /\ age \in [Tokens -> {"fresh", "soon", "over"}]
    /\ ended \subseteq Tokens
    /\ token \in 0 .. issued /\ saved \in 0 .. issued
    /\ others \subseteq 0 .. issued
    /\ events \in 0 .. MaxEvents /\ issued \in 0 .. events
FlagsOK ==
    /\ forced \in BOOLEAN /\ alarm \in BOOLEAN /\ window \in BOOLEAN
    /\ toggle \in BOOLEAN /\ stray \in BOOLEAN
    /\ last \in Statuses \cup {"none"}
    /\ due \in {"no", "due", "missed"} /\ built \in BOOLEAN /\ dropped \in BOOLEAN
BooksOK ==
    /\ wake \in [pc : {"idle", "started", "acting"}, todo : SUBSET Books]
    /\ feed \in [Books -> {"absent", "WAITING", "LIVE"}]
    /\ refused \subseteq Books

LEMMA Parts ==
    TypeOK <=> CallersOK /\ RequestsOK /\ MonitorOK /\ TokensOK /\ FlagsOK /\ BooksOK
BY DEF TypeOK, CallersOK, RequestsOK, MonitorOK, TokensOK, FlagsOK, BooksOK, Pcs, Marking,
       Turning

LEMMA Bounded ==
    ASSUME TokensOK
    PROVE  /\ issued \in Nat /\ events \in Nat /\ 0 \in 0 .. issued
           /\ 0 .. issued \subseteq 0 .. (issued + 1)
           /\ (token # 0 => token \in Tokens)
BY SessionAssumption DEF TokensOK, Tokens, SessionAssumption

-----------------------------------------------------------------------------
(* What the operators return *)

LEMMA StatusType == Status \in Statuses
BY DEF Status, Statuses

LEMMA ValidToken == ASSUME FlagsOK, Valid PROVE token # 0
BY DEF Valid, Status, FlagsOK

LEMMA KeptType == ASSUME NEW v PROVE Kept(v) = 0 \/ Kept(v) = v
BY DEF Kept

LEMMA SaveType ==
    ASSUME TokensOK, NEW v \in 0 .. issued, NEW fit \in BOOLEAN, SaveSession(v, fit)
    PROVE  saved' \in 0 .. issued /\ stray' \in BOOLEAN
<1>1. Kept(v) \in 0 .. issued  BY Bounded, KeptType
<1> QED  BY <1>1 DEF SaveSession, Unwanted

LEMMA ResolvedType ==
    ASSUME FlagsOK, Resolved
    PROVE  alarm' \in BOOLEAN /\ due' \in {"no", "due", "missed"}
BY DEF FlagsOK, Resolved

LEMMA RaisedType ==
    ASSUME FlagsOK, Raised
    PROVE  alarm' \in BOOLEAN /\ due' \in {"no", "due", "missed"}
BY DEF FlagsOK, Raised

LEMMA EndedType == ASSUME TokensOK PROVE ended \cup ({token} \ {0}) \subseteq Tokens
BY Bounded DEF TokensOK

LEMMA LostType ==
    ASSUME TokensOK, FlagsOK, Lost
    PROVE  ended' \subseteq Tokens /\ due' \in {"no", "due", "missed"}
<1>1. ended' \subseteq Tokens  BY EndedType DEF Lost
<1>2. due' \in {"no", "due", "missed"}  BY DEF Lost, FlagsOK
<1> QED  BY <1>1, <1>2

LEMMA HappensType ==
    ASSUME TokensOK, Happens
    PROVE  events' \in 0 .. MaxEvents /\ issued \in 0 .. events' /\ issued + 1 \in 0 .. events'
BY SessionAssumption DEF TokensOK, Happens, SessionAssumption

LEMMA NotifyType ==
    ASSUME FlagsOK, BooksOK, Notify
    PROVE  /\ wake' \in [pc : {"idle", "started", "acting"}, todo : SUBSET Books]
           /\ dropped' \in BOOLEAN
BY DEF FlagsOK, BooksOK, Notify, Awake

LEMMA UpgradedType ==
    ASSUME BooksOK, NEW k \in Books, Upgraded(k)
    PROVE  feed' \in [Books -> {"absent", "WAITING", "LIVE"}] /\ refused' \subseteq Books
BY DEF BooksOK, Upgraded

-----------------------------------------------------------------------------
(* Callers and requests that move *)

LEMMA CallerMoves ==
    ASSUME CallersOK, TokensOK, issued' = issued \/ issued' = issued + 1,
           NEW c \in Callers, NEW pc \in Pcs, NEW held \in 0 .. issued,
           NEW fit \in BOOLEAN, held # 0 <=> pc = "write",
           caller' = [caller EXCEPT ![c] = [pc |-> pc, held |-> held, fit |-> fit]]
    PROVE  CallersOK'
<1>1. 0 .. issued \subseteq 0 .. issued'  BY Bounded
<1>2. caller' \in [Callers -> [pc : Pcs, held : 0 .. issued', fit : BOOLEAN]]
  BY <1>1 DEF CallersOK
<1>3. \A d \in Callers : caller'[d].held # 0 <=> caller'[d].pc = "write"
  BY DEF CallersOK
<1> QED  BY <1>2, <1>3 DEF CallersOK

LEMMA GoesType ==
    ASSUME CallersOK, TokensOK, issued' = issued \/ issued' = issued + 1,
           NEW c \in Callers, NEW pc \in Pcs, pc # "write", Goes(c, pc)
    PROVE  CallersOK'
<1>1. caller' = [caller EXCEPT ![c] = [pc |-> pc, held |-> 0, fit |-> FALSE]]
  BY DEF Goes
<1> QED  BY <1>1, Bounded, CallerMoves

LEMMA EndsType ==
    ASSUME CallersOK, TokensOK, issued' = issued, NEW c \in Callers, Ends(c)
    PROVE  CallersOK'
<1>1. caller' = [caller EXCEPT ![c] = [pc |-> "idle", held |-> 0, fit |-> FALSE]]
  BY DEF Ends, Calm
<1>2. "idle" \in Pcs /\ "idle" # "write"  BY DEF Pcs
<1> QED  BY <1>1, <1>2, Bounded, CallerMoves

LEMMA CallersStay == CallersOK /\ UNCHANGED <<caller, issued>> => CallersOK'
BY DEF CallersOK

LEMMA RequestMoves ==
    ASSUME RequestsOK, TokensOK, issued' = issued, NEW q \in Requests,
           NEW pc \in Marking, NEW held \in 0 .. issued,
           request' = [request EXCEPT ![q] = [pc |-> pc, held |-> held]]
    PROVE  RequestsOK'
BY DEF RequestsOK

LEMMA RequestSteps ==
    ASSUME RequestsOK, issued' = issued, NEW q \in Requests,
           NEW pc \in Marking,
           request' = [request EXCEPT ![q].pc = pc]
    PROVE  RequestsOK'
BY DEF RequestsOK

LEMMA RequestsStay ==
    RequestsOK /\ TokensOK /\ request' = request /\ (issued' = issued \/ issued' = issued + 1)
        => RequestsOK'
BY Bounded DEF RequestsOK

LEMMA MonitorStays ==
    MonitorOK /\ TokensOK /\ monitor' = monitor /\ (issued' = issued \/ issued' = issued + 1)
        => MonitorOK'
BY Bounded DEF MonitorOK

LEMMA RestingType ==
    ASSUME TokensOK', NEW pc \in Turning, pc # "write", NEW seen \in Statuses,
           monitor' = [pc |-> pc, seen |-> seen, held |-> 0, fit |-> FALSE]
    PROVE  MonitorOK'
<1>1. 0 \in 0 .. issued'  BY SessionAssumption DEF TokensOK, SessionAssumption
<1> QED  BY <1>1 DEF MonitorOK

LEMMA TurnsType ==
    ASSUME MonitorOK, issued' = issued, NEW pc \in Turning, pc # "write", monitor.pc # "write",
           Turns(pc)
    PROVE  MonitorOK'
BY DEF MonitorOK, Turns

LEMMA OverType ==
    ASSUME MonitorOK, TokensOK', FlagsOK, TickOver
    PROVE  MonitorOK' /\ last' \in Statuses \cup {"none"}
<1>1. last' \in Statuses \cup {"none"}  BY DEF TickOver, MonitorOK
<1>2. PICK pc \in {"idle", "notify"} : monitor' = [Resting EXCEPT !.pc = pc]
  BY DEF TickOver
<1>3. monitor' = [pc |-> pc, seen |-> "unauthenticated", held |-> 0, fit |-> FALSE]
  BY <1>2 DEF Resting
<1>4. pc \in Turning /\ pc # "write" /\ "unauthenticated" \in Statuses
  BY DEF Turning, Statuses
<1> QED  BY <1>1, <1>3, <1>4, RestingType

-----------------------------------------------------------------------------
(* Types *)

\* The types of BrokerSessions are invariant.
THEOREM BrokerTypes == Spec => []TypeOK
<1>1. Init => TypeOK
  <2> SUFFICES ASSUME Init PROVE TypeOK
    OBVIOUS
  <2>1. TokensOK  BY SessionAssumption DEF Init, TokensOK, SessionAssumption
  <2>2. CallersOK /\ RequestsOK /\ MonitorOK
    BY <2>1, Bounded DEF Init, CallersOK, RequestsOK, MonitorOK, Calm, Idle, Resting, Pcs,
                         Marking, Turning, Statuses
  <2>3. FlagsOK /\ BooksOK  BY DEF Init, FlagsOK, BooksOK, Awake
  <2> QED  BY <2>1, <2>2, <2>3, Parts
<1>2. TypeOK /\ [Next]_vars => TypeOK'
  <2> SUFFICES ASSUME TypeOK, [Next]_vars PROVE TypeOK'
    OBVIOUS
  <2>p. CallersOK /\ RequestsOK /\ MonitorOK /\ TokensOK /\ FlagsOK /\ BooksOK  BY Parts
  <2>q. CallersOK' /\ RequestsOK' /\ MonitorOK' /\ TokensOK' /\ FlagsOK' /\ BooksOK' => TypeOK'
    BY Parts, PTL
  <2> USE <2>p DEF venue, session, disk, fleet, history
  <2> HIDE DEF CallersOK, RequestsOK, MonitorOK, TokensOK, FlagsOK, BooksOK
  <2>0. CASE UNCHANGED vars
    BY <2>0, <2>q, CallersStay, RequestsStay, MonitorStays DEF vars, TokensOK, FlagsOK, BooksOK
  <2>1. ASSUME NEW c \in Callers, VerifyTotp(c) PROVE TypeOK'
    <3>1. CallersOK'  BY <2>1, GoesType DEF VerifyTotp, Pcs
    <3>2. RequestsOK'  BY <2>1, RequestsStay DEF VerifyTotp
    <3>3. TokensOK'  BY <2>1, Bounded, HappensType DEF VerifyTotp, TokensOK
    <3>4. FlagsOK'  BY <2>1 DEF VerifyTotp, FlagsOK
    <3>5. BooksOK'  BY <2>1 DEF VerifyTotp, BooksOK
    <3>6. MonitorOK'  BY <2>1, MonitorStays DEF VerifyTotp
    <3> QED  BY <3>1, <3>2, <3>3, <3>4, <3>5, <3>6, <2>q
  <2>2. ASSUME NEW c \in Callers, ResetCycle(c) PROVE TypeOK'
    <3>1. CallersOK'  BY <2>2, GoesType DEF ResetCycle, Pcs
    <3>2. RequestsOK'  BY <2>2, RequestsStay DEF ResetCycle
    <3>3. TokensOK'  BY <2>2 DEF ResetCycle, TokensOK
    <3>4. FlagsOK'  BY <2>2 DEF ResetCycle, Statuses, FlagsOK
    <3>5. BooksOK'  BY <2>2 DEF ResetCycle, BooksOK
    <3>6. MonitorOK'  BY <2>2, MonitorStays DEF ResetCycle
    <3> QED  BY <3>1, <3>2, <3>3, <3>4, <3>5, <3>6, <2>q
  <2>3. ASSUME NEW c \in Callers, ResolveAlerts(c) PROVE TypeOK'
    <3>1. CallersOK'  BY <2>3, GoesType DEF ResolveAlerts, Pcs
    <3>2. RequestsOK'  BY <2>3, RequestsStay DEF ResolveAlerts
    <3>3. TokensOK'  BY <2>3 DEF ResolveAlerts, TokensOK
    <3>4. FlagsOK'  BY <2>3, ResolvedType DEF ResolveAlerts, FlagsOK
    <3>5. BooksOK'  BY <2>3 DEF ResolveAlerts, BooksOK
    <3>6. MonitorOK'  BY <2>3, MonitorStays DEF ResolveAlerts
    <3> QED  BY <3>1, <3>2, <3>3, <3>4, <3>5, <3>6, <2>q
  <2>4. ASSUME NEW c \in Callers, Capture(c) PROVE TypeOK'
    <3>1. CallersOK'
      <4>1. CASE toggle
        BY <2>4, <4>1, CallerMoves, Bounded DEF Capture, FlagsOK, Pcs
      <4>2. CASE ~toggle
        BY <2>4, <4>2, GoesType DEF Capture, Pcs
      <4> QED  BY <4>1, <4>2
    <3>2. RequestsOK'  BY <2>4, RequestsStay DEF Capture
    <3>3. TokensOK'  BY <2>4 DEF Capture, TokensOK
    <3>4. FlagsOK'  BY <2>4 DEF Capture, FlagsOK
    <3>5. BooksOK'  BY <2>4 DEF Capture, BooksOK
    <3>6. MonitorOK'  BY <2>4, MonitorStays DEF Capture
    <3> QED  BY <3>1, <3>2, <3>3, <3>4, <3>5, <3>6, <2>q
  <2>5. ASSUME NEW c \in Callers, WriteEntry(c) PROVE TypeOK'
    <3>1. CallersOK'  BY <2>5, GoesType DEF WriteEntry, Pcs
    <3>2. RequestsOK'  BY <2>5, RequestsStay DEF WriteEntry
    <3>3. TokensOK'  BY <2>5, SaveType DEF WriteEntry, TokensOK, CallersOK
    <3>4. FlagsOK'  BY <2>5, SaveType DEF WriteEntry, FlagsOK, CallersOK
    <3>5. BooksOK'  BY <2>5 DEF WriteEntry, BooksOK
    <3>6. MonitorOK'  BY <2>5, MonitorStays DEF WriteEntry
    <3> QED  BY <3>1, <3>2, <3>3, <3>4, <3>5, <3>6, <2>q
  <2>6. ASSUME NEW c \in Callers, NotifyPortfolio(c) PROVE TypeOK'
    <3>1. CallersOK'  BY <2>6, EndsType DEF NotifyPortfolio
    <3>2. RequestsOK'  BY <2>6, RequestsStay DEF NotifyPortfolio
    <3>3. TokensOK'  BY <2>6 DEF NotifyPortfolio, TokensOK
    <3>4. FlagsOK'  BY <2>6, NotifyType DEF NotifyPortfolio, FlagsOK
    <3>5. BooksOK'  BY <2>6, NotifyType DEF NotifyPortfolio, BooksOK
    <3>6. MonitorOK'  BY <2>6, MonitorStays DEF NotifyPortfolio
    <3> QED  BY <3>1, <3>2, <3>3, <3>4, <3>5, <3>6, <2>q
  <2>7. ASSUME NEW c \in Callers, Logout(c) PROVE TypeOK'
    <3>1. CallersOK'  BY <2>7, GoesType DEF Logout, Pcs
    <3>2. RequestsOK'  BY <2>7, RequestsStay DEF Logout
    <3>3. TokensOK'  BY <2>7, Bounded, HappensType, EndedType DEF Logout, TokensOK
    <3>4. FlagsOK'  BY <2>7 DEF Logout, FlagsOK
    <3>5. BooksOK'  BY <2>7 DEF Logout, BooksOK
    <3>6. MonitorOK'  BY <2>7, MonitorStays DEF Logout
    <3> QED  BY <3>1, <3>2, <3>3, <3>4, <3>5, <3>6, <2>q
  <2>8. ASSUME NEW c \in Callers, HushAlerts(c) PROVE TypeOK'
    <3>1. CallersOK'  BY <2>8, GoesType DEF HushAlerts, Pcs
    <3>2. RequestsOK'  BY <2>8, RequestsStay DEF HushAlerts
    <3>3. TokensOK'  BY <2>8 DEF HushAlerts, TokensOK
    <3>4. FlagsOK'  BY <2>8, ResolvedType DEF HushAlerts, FlagsOK
    <3>5. BooksOK'  BY <2>8 DEF HushAlerts, BooksOK
    <3>6. MonitorOK'  BY <2>8, MonitorStays DEF HushAlerts
    <3> QED  BY <3>1, <3>2, <3>3, <3>4, <3>5, <3>6, <2>q
  <2>9. ASSUME NEW c \in Callers, DropEntry(c) PROVE TypeOK'
    <3>1. CallersOK'  BY <2>9, EndsType DEF DropEntry
    <3>2. RequestsOK'  BY <2>9, RequestsStay DEF DropEntry
    <3>3. TokensOK'  BY <2>9, Bounded DEF DropEntry, DeleteSession, TokensOK
    <3>4. FlagsOK'  BY <2>9 DEF DropEntry, DeleteSession, FlagsOK
    <3>5. BooksOK'  BY <2>9 DEF DropEntry, BooksOK
    <3>6. MonitorOK'  BY <2>9, MonitorStays DEF DropEntry
    <3> QED  BY <3>1, <3>2, <3>3, <3>4, <3>5, <3>6, <2>q
  <2>10. ASSUME NEW c \in Callers, SetToggle(c) PROVE TypeOK'
    <3>1. CallersOK'  BY <2>10, GoesType, CallersStay DEF SetToggle, Pcs
    <3>2. RequestsOK'  BY <2>10, RequestsStay DEF SetToggle
    <3>3. TokensOK'  BY <2>10, HappensType DEF SetToggle, TokensOK
    <3>4. FlagsOK'  BY <2>10 DEF SetToggle, FlagsOK
    <3>5. BooksOK'  BY <2>10 DEF SetToggle, BooksOK
    <3>6. MonitorOK'  BY <2>10, MonitorStays DEF SetToggle
    <3> QED  BY <3>1, <3>2, <3>3, <3>4, <3>5, <3>6, <2>q
  <2>11. ASSUME NEW q \in Requests, Send(q) PROVE TypeOK'
    <3>1. CallersOK'  BY <2>11, CallersStay DEF Send
    <3>2. RequestsOK'  BY <2>11, RequestMoves DEF Send, TokensOK, Marking
    <3>3. TokensOK'  BY <2>11, HappensType DEF Send, TokensOK
    <3>4. FlagsOK'  BY <2>11 DEF Send, FlagsOK
    <3>5. BooksOK'  BY <2>11 DEF Send, BooksOK
    <3>6. MonitorOK'  BY <2>11, MonitorStays DEF Send
    <3> QED  BY <3>1, <3>2, <3>3, <3>4, <3>5, <3>6, <2>q
  <2>12. ASSUME NEW q \in Requests, Rejected(q) PROVE TypeOK'
    <3>1. CallersOK'  BY <2>12, CallersStay DEF Rejected
    <3>2. RequestsOK'  BY <2>12, RequestSteps DEF Rejected, Marking
    <3>3. TokensOK'  BY <2>12, Bounded, LostType DEF Rejected, TokensOK
    <3>4. FlagsOK'  BY <2>12, LostType DEF Rejected, FlagsOK
    <3>5. BooksOK'  BY <2>12 DEF Rejected, BooksOK
    <3>6. MonitorOK'  BY <2>12, MonitorStays DEF Rejected
    <3> QED  BY <3>1, <3>2, <3>3, <3>4, <3>5, <3>6, <2>q
  <2>13. ASSUME NEW q \in Requests, MarkExpired(q) PROVE TypeOK'
    <3>1. CallersOK'  BY <2>13, CallersStay DEF MarkExpired
    <3>2. RequestsOK'  BY <2>13, RequestMoves, Bounded DEF MarkExpired, Marking
    <3>3. TokensOK'  BY <2>13, Bounded, LostType DEF MarkExpired, TokensOK
    <3>4. FlagsOK'  BY <2>13, LostType DEF MarkExpired, Statuses, FlagsOK
    <3>5. BooksOK'  BY <2>13 DEF MarkExpired, BooksOK
    <3>6. MonitorOK'  BY <2>13, MonitorStays DEF MarkExpired
    <3> QED  BY <3>1, <3>2, <3>3, <3>4, <3>5, <3>6, <2>q
  <2>14. ASSUME NEW q \in Requests, ForgetEntry(q) PROVE TypeOK'
    <3>1. CallersOK'  BY <2>14, CallersStay DEF ForgetEntry
    <3>2. RequestsOK'  BY <2>14, RequestSteps DEF ForgetEntry, Marking
    <3>3. TokensOK'  BY <2>14, Bounded DEF ForgetEntry, DeleteSession, TokensOK
    <3>4. FlagsOK'  BY <2>14 DEF ForgetEntry, DeleteSession, FlagsOK
    <3>5. BooksOK'  BY <2>14 DEF ForgetEntry, BooksOK
    <3>6. MonitorOK'  BY <2>14, MonitorStays DEF ForgetEntry
    <3> QED  BY <3>1, <3>2, <3>3, <3>4, <3>5, <3>6, <2>q
  <2>15. ASSUME NEW q \in Requests, PageOperator(q) PROVE TypeOK'
    <3>1. CallersOK'  BY <2>15, CallersStay DEF PageOperator
    <3>2. RequestsOK'  BY <2>15, RequestSteps DEF PageOperator, Marking
    <3>3. TokensOK'  BY <2>15 DEF PageOperator, TokensOK
    <3>4. FlagsOK'  BY <2>15 DEF PageOperator, FlagsOK
    <3>5. BooksOK'  BY <2>15 DEF PageOperator, BooksOK
    <3>6. MonitorOK'  BY <2>15, MonitorStays DEF PageOperator
    <3> QED  BY <3>1, <3>2, <3>3, <3>4, <3>5, <3>6, <2>q
  <2>16. ASSUME NEW k \in Books, WakeBook(k) PROVE TypeOK'
    <3>1. CallersOK'  BY <2>16, CallersStay DEF WakeBook
    <3>2. RequestsOK'  BY <2>16, RequestsStay DEF WakeBook
    <3>3. TokensOK'  BY <2>16 DEF WakeBook, TokensOK
    <3>4. FlagsOK'  BY <2>16 DEF WakeBook, FlagsOK
    <3>5. BooksOK'  BY <2>16, UpgradedType DEF WakeBook, BooksOK
    <3>6. MonitorOK'  BY <2>16, MonitorStays DEF WakeBook
    <3> QED  BY <3>1, <3>2, <3>3, <3>4, <3>5, <3>6, <2>q
  <2>17. ASSUME NEW k \in Books, Spawn(k) PROVE TypeOK'
    <3>1. CallersOK'  BY <2>17, CallersStay DEF Spawn
    <3>2. RequestsOK'  BY <2>17, RequestsStay DEF Spawn
    <3>3. TokensOK'  BY <2>17 DEF Spawn, TokensOK
    <3>4. FlagsOK'  BY <2>17 DEF Spawn, FlagsOK
    <3>5. BooksOK'  BY <2>17 DEF Spawn, Constructed, BooksOK
    <3>6. MonitorOK'  BY <2>17, MonitorStays DEF Spawn
    <3> QED  BY <3>1, <3>2, <3>3, <3>4, <3>5, <3>6, <2>q
  <2>18. ASSUME NEW k \in Books, Resume(k) PROVE TypeOK'
    <3>1. CallersOK'  BY <2>18, CallersStay DEF Resume
    <3>2. RequestsOK'  BY <2>18, RequestsStay DEF Resume
    <3>3. TokensOK'  BY <2>18 DEF Resume, TokensOK
    <3>4. FlagsOK'  BY <2>18 DEF Resume, FlagsOK
    <3>5. BooksOK'  BY <2>18, UpgradedType DEF Resume, BooksOK
    <3>6. MonitorOK'  BY <2>18, MonitorStays DEF Resume
    <3> QED  BY <3>1, <3>2, <3>3, <3>4, <3>5, <3>6, <2>q
  <2>19. ASSUME NEW k \in Books, Remove(k) PROVE TypeOK'
    <3>1. CallersOK'  BY <2>19, CallersStay DEF Remove
    <3>2. RequestsOK'  BY <2>19, RequestsStay DEF Remove
    <3>3. TokensOK'  BY <2>19, HappensType DEF Remove, TokensOK
    <3>4. FlagsOK'  BY <2>19 DEF Remove, FlagsOK
    <3>5. BooksOK'  BY <2>19 DEF Remove, BooksOK
    <3>6. MonitorOK'  BY <2>19, MonitorStays DEF Remove
    <3> QED  BY <3>1, <3>2, <3>3, <3>4, <3>5, <3>6, <2>q
  <2>20. ASSUME NEW n \in Tokens, Age(n) PROVE TypeOK'
    <3>1. CallersOK'  BY <2>20, CallersStay DEF Age
    <3>2. RequestsOK'  BY <2>20, RequestsStay DEF Age
    <3>3. TokensOK'  BY <2>20, HappensType DEF Age, TokensOK
    <3>4. FlagsOK'  BY <2>20 DEF Age, FlagsOK
    <3>5. BooksOK'  BY <2>20 DEF Age, BooksOK
    <3>6. MonitorOK'  BY <2>20, MonitorStays DEF Age
    <3> QED  BY <3>1, <3>2, <3>3, <3>4, <3>5, <3>6, <2>q
  <2>21. CASE OtherReads
    <3>1. CallersOK'  BY <2>21, CallersStay DEF OtherReads
    <3>2. RequestsOK'  BY <2>21, RequestsStay DEF OtherReads
    <3>3. TokensOK'  BY <2>21, HappensType DEF OtherReads, TokensOK
    <3>4. FlagsOK'  BY <2>21 DEF OtherReads, FlagsOK
    <3>5. BooksOK'  BY <2>21 DEF OtherReads, BooksOK
    <3>6. MonitorOK'  BY <2>21, MonitorStays DEF OtherReads
    <3> QED  BY <3>1, <3>2, <3>3, <3>4, <3>5, <3>6, <2>q
  <2>22. CASE OtherWrites
    <3>1. CallersOK'  BY <2>22, CallersStay DEF OtherWrites
    <3>2. RequestsOK'  BY <2>22, RequestsStay DEF OtherWrites
    <3>3. TokensOK'  BY <2>22, SaveType DEF OtherWrites, TokensOK
    <3>4. FlagsOK'  BY <2>22, SaveType DEF OtherWrites, FlagsOK, TokensOK
    <3>5. BooksOK'  BY <2>22 DEF OtherWrites, BooksOK
    <3>6. MonitorOK'  BY <2>22, MonitorStays DEF OtherWrites
    <3> QED  BY <3>1, <3>2, <3>3, <3>4, <3>5, <3>6, <2>q
  <2>23. CASE Tick /\ TickExpired
    <3>1. CallersOK'  BY <2>23, CallersStay DEF TickExpired, Tick
    <3>2. RequestsOK'  BY <2>23, RequestsStay DEF TickExpired, Tick
    <3>3. TokensOK'  BY <2>23, Bounded, LostType DEF TickExpired, Tick, TokensOK
    <3>4. FlagsOK'  BY <2>23, LostType DEF TickExpired, Tick, FlagsOK
    <3>5. BooksOK'  BY <2>23 DEF TickExpired, Tick, BooksOK
    <3>6. MonitorOK'  BY <2>23, <3>3, StatusType, RestingType DEF TickExpired, Tick, Resting, Turning
    <3> QED  BY <3>1, <3>2, <3>3, <3>4, <3>5, <3>6, <2>q
  <2>24. CASE Tick /\ TickValid
    <3>1. CallersOK'  BY <2>24, CallersStay DEF TickValid, Tick
    <3>2. RequestsOK'  BY <2>24, RequestsStay DEF TickValid, Tick
    <3>3. TokensOK'  BY <2>24 DEF TickValid, Tick, TokensOK
    <3>4. FlagsOK'  BY <2>24 DEF Tick, TickValid, FlagsOK
    <3>5. BooksOK'  BY <2>24 DEF TickValid, Tick, BooksOK
    <3>6. MonitorOK'  BY <2>24, <3>3, StatusType, RestingType DEF TickValid, Tick, Resting, Turning
    <3> QED  BY <3>1, <3>2, <3>3, <3>4, <3>5, <3>6, <2>q
  <2>25. CASE Tick /\ TickLoggedOut
    <3>1. CallersOK'  BY <2>25, CallersStay DEF TickLoggedOut, Tick
    <3>2. RequestsOK'  BY <2>25, RequestsStay DEF TickLoggedOut, Tick
    <3>3. TokensOK'  BY <2>25 DEF TickLoggedOut, Tick, TokensOK
    <3>4. FlagsOK'  BY <2>25, StatusType DEF TickLoggedOut, Tick, FlagsOK
    <3>5. BooksOK'  BY <2>25 DEF TickLoggedOut, Tick, BooksOK
    <3>6. MonitorOK'  BY <2>25, MonitorStays DEF TickLoggedOut, Tick
    <3> QED  BY <3>1, <3>2, <3>3, <3>4, <3>5, <3>6, <2>q
  <2>26. CASE TickNotifies
    <3>1. CallersOK'  BY <2>26, CallersStay DEF TickNotifies
    <3>2. RequestsOK'  BY <2>26, RequestsStay DEF TickNotifies
    <3>3. TokensOK'  BY <2>26 DEF TickNotifies, TokensOK
    <3>4. FlagsOK'  BY <2>26, NotifyType DEF TickNotifies, FlagsOK
    <3>5. BooksOK'  BY <2>26, NotifyType DEF TickNotifies, BooksOK
    <3>6. MonitorOK'  BY <2>26, <3>3, RestingType DEF TickNotifies, Resting, Turning, Statuses
    <3> QED  BY <3>1, <3>2, <3>3, <3>4, <3>5, <3>6, <2>q
  <2>27. CASE WakeTakesList
    <3>1. CallersOK'  BY <2>27, CallersStay DEF WakeTakesList
    <3>2. RequestsOK'  BY <2>27, RequestsStay DEF WakeTakesList
    <3>3. TokensOK'  BY <2>27 DEF WakeTakesList, TokensOK
    <3>4. FlagsOK'  BY <2>27 DEF WakeTakesList, FlagsOK
    <3>5. BooksOK'  BY <2>27 DEF WakeTakesList, BooksOK
    <3>6. MonitorOK'  BY <2>27, MonitorStays DEF WakeTakesList
    <3> QED  BY <3>1, <3>2, <3>3, <3>4, <3>5, <3>6, <2>q
  <2>28. CASE WakeEnds
    <3>1. CallersOK'  BY <2>28, CallersStay DEF WakeEnds
    <3>2. RequestsOK'  BY <2>28, RequestsStay DEF WakeEnds
    <3>3. TokensOK'  BY <2>28 DEF WakeEnds, TokensOK
    <3>4. FlagsOK'  BY <2>28 DEF WakeEnds, FlagsOK
    <3>5. BooksOK'  BY <2>28 DEF WakeEnds, Awake, BooksOK
    <3>6. MonitorOK'  BY <2>28, MonitorStays DEF WakeEnds
    <3> QED  BY <3>1, <3>2, <3>3, <3>4, <3>5, <3>6, <2>q
  <2>29. CASE Build
    <3>1. CallersOK'  BY <2>29, CallersStay DEF Build
    <3>2. RequestsOK'  BY <2>29, RequestsStay DEF Build
    <3>3. TokensOK'  BY <2>29 DEF Build, TokensOK
    <3>4. FlagsOK'  BY <2>29 DEF Build, FlagsOK
    <3>5. BooksOK'  BY <2>29 DEF Build, Constructed, BooksOK
    <3>6. MonitorOK'  BY <2>29, MonitorStays DEF Build
    <3> QED  BY <3>1, <3>2, <3>3, <3>4, <3>5, <3>6, <2>q
  <2>31. CASE TurnWindow
    <3>1. CallersOK'  BY <2>31, CallersStay DEF TurnWindow
    <3>2. RequestsOK'  BY <2>31, RequestsStay DEF TurnWindow
    <3>3. TokensOK'  BY <2>31, HappensType DEF TurnWindow, TokensOK
    <3>4. FlagsOK'  BY <2>31 DEF TurnWindow, FlagsOK
    <3>5. BooksOK'  BY <2>31 DEF TurnWindow, BooksOK
    <3>6. MonitorOK'  BY <2>31, MonitorStays DEF TurnWindow
    <3> QED  BY <3>1, <3>2, <3>3, <3>4, <3>5, <3>6, <2>q
  <2>32. CASE Restart
    <3>t. TokensOK'  BY <2>32, HappensType, KeptType, Bounded DEF Restart, TokensOK
    <3>1. CallersOK'
      BY <2>32, <3>t, SessionAssumption
      DEF Restart, CallersOK, TokensOK, Calm, Pcs, SessionAssumption
    <3>2. RequestsOK'
      BY <2>32, <3>t, SessionAssumption
      DEF Restart, RequestsOK, TokensOK, Idle, Marking, SessionAssumption
    <3>3. TokensOK'  BY <3>t
    <3>4. FlagsOK'  BY <2>32 DEF Restart, FlagsOK
    <3>5. BooksOK'  BY <2>32 DEF Restart, Awake, BooksOK
    <3>6. MonitorOK'  BY <2>32, <3>3, RestingType DEF Restart, Resting, Turning, Statuses
    <3> QED  BY <3>1, <3>2, <3>3, <3>4, <3>5, <3>6, <2>q
  <2>33. ASSUME NEW c \in Callers, Hold(c) PROVE TypeOK'
    <3>1. CallersOK'  BY <2>33, CallerMoves, Bounded, ValidToken, GoesType DEF Hold, TokensOK, CallersOK, Pcs
    <3>2. RequestsOK'  BY <2>33, RequestsStay DEF Hold
    <3>3. TokensOK'  BY <2>33 DEF Hold, TokensOK
    <3>4. FlagsOK'  BY <2>33 DEF Hold, FlagsOK
    <3>5. BooksOK'  BY <2>33 DEF Hold, BooksOK
    <3>6. MonitorOK'  BY <2>33, MonitorStays DEF Hold
    <3> QED  BY <3>1, <3>2, <3>3, <3>4, <3>5, <3>6, <2>q
  <2>34. ASSUME NEW q \in Requests, PageCloses(q) PROVE TypeOK'
    <3>1. CallersOK'  BY <2>34, CallersStay DEF PageCloses
    <3>2. RequestsOK'  BY <2>34, RequestSteps DEF PageCloses, Marking
    <3>3. TokensOK'  BY <2>34 DEF PageCloses, TokensOK
    <3>4. FlagsOK'  BY <2>34 DEF PageCloses, FlagsOK
    <3>5. BooksOK'  BY <2>34 DEF PageCloses, BooksOK
    <3>6. MonitorOK'  BY <2>34, MonitorStays DEF PageCloses
    <3> QED  BY <3>1, <3>2, <3>3, <3>4, <3>5, <3>6, <2>q
  <2>35. ASSUME NEW q \in Requests, PageRaises(q) PROVE TypeOK'
    <3>1. CallersOK'  BY <2>35, CallersStay DEF PageRaises
    <3>2. RequestsOK'  BY <2>35, RequestMoves, Bounded DEF PageRaises, Idle, Marking
    <3>3. TokensOK'  BY <2>35 DEF PageRaises, TokensOK
    <3>4. FlagsOK'  BY <2>35, RaisedType DEF PageRaises, FlagsOK
    <3>5. BooksOK'  BY <2>35 DEF PageRaises, BooksOK
    <3>6. MonitorOK'  BY <2>35, MonitorStays DEF PageRaises
    <3> QED  BY <3>1, <3>2, <3>3, <3>4, <3>5, <3>6, <2>q
  <2>36. CASE TickPages
    <3>1. CallersOK'  BY <2>36, CallersStay DEF TickPages
    <3>2. RequestsOK'  BY <2>36, RequestsStay DEF TickPages
    <3>3. TokensOK'  BY <2>36 DEF TickPages, TokensOK
    <3>4. FlagsOK'  BY <2>36, OverType, <3>3 DEF TickPages, FlagsOK
    <3>5. BooksOK'  BY <2>36 DEF TickPages, BooksOK
    <3>6. MonitorOK'  BY <2>36, <3>3, OverType, TurnsType DEF TickPages, Turning
    <3> QED  BY <3>1, <3>2, <3>3, <3>4, <3>5, <3>6, <2>q
  <2>37. CASE TickCloses
    <3>1. CallersOK'  BY <2>37, CallersStay DEF TickCloses
    <3>2. RequestsOK'  BY <2>37, RequestsStay DEF TickCloses
    <3>3. TokensOK'  BY <2>37 DEF TickCloses, TokensOK
    <3>4. FlagsOK'  BY <2>37 DEF TickCloses, FlagsOK
    <3>5. BooksOK'  BY <2>37 DEF TickCloses, BooksOK
    <3>6. MonitorOK'  BY <2>37, TurnsType DEF TickCloses, Turning
    <3> QED  BY <3>1, <3>2, <3>3, <3>4, <3>5, <3>6, <2>q
  <2>38. CASE TickRaises
    <3>1. CallersOK'  BY <2>38, CallersStay DEF TickRaises
    <3>2. RequestsOK'  BY <2>38, RequestsStay DEF TickRaises
    <3>3. TokensOK'  BY <2>38 DEF TickRaises, TokensOK
    <3>4. FlagsOK'  BY <2>38, RaisedType, OverType, <3>3 DEF TickRaises, FlagsOK
    <3>5. BooksOK'  BY <2>38 DEF TickRaises, BooksOK
    <3>6. MonitorOK'  BY <2>38, <3>3, OverType DEF TickRaises
    <3> QED  BY <3>1, <3>2, <3>3, <3>4, <3>5, <3>6, <2>q
  <2>39. CASE TickRemembers
    <3>1. CallersOK'  BY <2>39, CallersStay DEF TickRemembers
    <3>2. RequestsOK'  BY <2>39, RequestsStay DEF TickRemembers
    <3>3. TokensOK'  BY <2>39 DEF TickRemembers, TokensOK
    <3>4. FlagsOK'  BY <2>39, OverType, <3>3 DEF TickRemembers, FlagsOK
    <3>5. BooksOK'  BY <2>39 DEF TickRemembers, BooksOK
    <3>6. MonitorOK'  BY <2>39, <3>3, OverType, ValidToken DEF TickRemembers, MonitorOK, TokensOK, Turning
    <3> QED  BY <3>1, <3>2, <3>3, <3>4, <3>5, <3>6, <2>q
  <2>40. CASE TickWrites
    <3>1. CallersOK'  BY <2>40, CallersStay DEF TickWrites
    <3>2. RequestsOK'  BY <2>40, RequestsStay DEF TickWrites
    <3>3. TokensOK'  BY <2>40, SaveType DEF TickWrites, MonitorOK, TokensOK
    <3>4. FlagsOK'  BY <2>40, SaveType, OverType, <3>3 DEF TickWrites, MonitorOK, FlagsOK
    <3>5. BooksOK'  BY <2>40 DEF TickWrites, BooksOK
    <3>6. MonitorOK'  BY <2>40, <3>3, OverType DEF TickWrites
    <3> QED  BY <3>1, <3>2, <3>3, <3>4, <3>5, <3>6, <2>q
  <2>41. CASE TickForgets
    <3>1. CallersOK'  BY <2>41, CallersStay DEF TickForgets
    <3>2. RequestsOK'  BY <2>41, RequestsStay DEF TickForgets
    <3>3. TokensOK'  BY <2>41, Bounded DEF TickForgets, DeleteSession, TokensOK
    <3>4. FlagsOK'  BY <2>41 DEF TickForgets, DeleteSession, FlagsOK
    <3>5. BooksOK'  BY <2>41 DEF TickForgets, BooksOK
    <3>6. MonitorOK'  BY <2>41, TurnsType DEF TickForgets, Turning
    <3> QED  BY <3>1, <3>2, <3>3, <3>4, <3>5, <3>6, <2>q
  <2>42. CASE TickResolves
    <3>1. CallersOK'  BY <2>42, CallersStay DEF TickResolves
    <3>2. RequestsOK'  BY <2>42, RequestsStay DEF TickResolves
    <3>3. TokensOK'  BY <2>42 DEF TickResolves, TokensOK
    <3>4. FlagsOK'  BY <2>42, ResolvedType DEF TickResolves, FlagsOK
    <3>5. BooksOK'  BY <2>42 DEF TickResolves, BooksOK
    <3>6. MonitorOK'  BY <2>42, TurnsType DEF TickResolves, Turning
    <3> QED  BY <3>1, <3>2, <3>3, <3>4, <3>5, <3>6, <2>q
  <2> QED
    BY <2>0, <2>1, <2>2, <2>3, <2>4, <2>5, <2>6, <2>7, <2>8, <2>9, <2>10,
       <2>11, <2>12, <2>13, <2>14, <2>15, <2>16, <2>17, <2>18, <2>19, <2>20,
       <2>21, <2>22, <2>23, <2>24, <2>25, <2>26, <2>27, <2>28, <2>29, <2>31, <2>32,
       <2>33, <2>34, <2>35, <2>36, <2>37, <2>38, <2>39, <2>40, <2>41, <2>42
    DEF Next, Calls, Marks, Ticks, Tick, Wakes
<1> QED  BY <1>1, <1>2, PTL DEF Spec

-----------------------------------------------------------------------------
(* Where a caller or a request is after a step *)

LEMMA PcGoes ==
    ASSUME CallersOK, NEW c \in Callers, NEW pc, Goes(c, pc)
    PROVE  \A d \in Callers : caller'[d].pc = IF d = c THEN pc ELSE caller[d].pc
BY DEF CallersOK, Goes

LEMMA PcEnds ==
    ASSUME CallersOK, NEW c \in Callers, Ends(c)
    PROVE  \A d \in Callers : caller'[d].pc = IF d = c THEN "idle" ELSE caller[d].pc
BY DEF CallersOK, Ends, Calm

LEMMA PcRequest ==
    ASSUME RequestsOK, NEW q \in Requests, NEW pc, NEW held,
           request' = [request EXCEPT ![q] = [pc |-> pc, held |-> held]]
    PROVE  \A r \in Requests : request'[r].pc = IF r = q THEN pc ELSE request[r].pc
BY DEF RequestsOK

LEMMA PcSteps ==
    ASSUME RequestsOK, NEW q \in Requests, NEW pc, request' = [request EXCEPT ![q].pc = pc]
    PROVE  \A r \in Requests : request'[r].pc = IF r = q THEN pc ELSE request[r].pc
BY DEF RequestsOK

-----------------------------------------------------------------------------
(* Who saves has looked *)

\* A token is not good again once it ended; a new one never was.
TokenGood == ended \subseteq 1 .. issued /\ (token # 0 => token \notin ended)

\* Whoever is on the way to the store found the choice on, and the token good.
SaversLooked ==
    /\ \A c \in Callers : caller[c].pc \in {"hold", "write"} => caller[c].fit
    /\ monitor.pc = "write" => monitor.fit

Sound == TokenGood /\ SaversLooked

LEMMA TokenStays == TokenGood /\ UNCHANGED <<issued, token, ended>> => TokenGood'
BY DEF TokenGood

LEMMA TokenCleared ==
    ASSUME TokenGood, TokensOK, issued' = issued, token' = 0,
           ended' = ended \cup ({token} \ {0})
    PROVE  TokenGood'
<1>1. token # 0 => token \in 1 .. issued  BY SessionAssumption DEF TokensOK, SessionAssumption
<1> QED  BY <1>1 DEF TokenGood

LEMMA LooksStay == SaversLooked /\ UNCHANGED <<caller, monitor>> => SaversLooked'
BY DEF SaversLooked

LEMMA GoesLooks ==
    ASSUME CallersOK, SaversLooked, NEW c \in Callers, NEW pc, pc \notin {"hold", "write"},
           Goes(c, pc), monitor' = monitor
    PROVE  SaversLooked'
BY DEF SaversLooked, CallersOK, Goes

LEMMA EndsLooks ==
    ASSUME CallersOK, SaversLooked, NEW c \in Callers, Ends(c), monitor' = monitor
    PROVE  SaversLooked'
BY DEF SaversLooked, CallersOK, Ends, Calm

LEMMA TickLooks ==
    ASSUME SaversLooked, caller' = caller, monitor'.pc # "write"
    PROVE  SaversLooked'
BY DEF SaversLooked

LEMMA OverLooks ==
    ASSUME SaversLooked, caller' = caller, TickOver
    PROVE  SaversLooked'
<1>1. monitor'.pc # "write"  BY DEF TickOver, Resting
<1> QED  BY <1>1, TickLooks

LEMMA SaversAreSound == Spec => []Sound
<1>1. Init => Sound  BY DEF Init, Sound, TokenGood, SaversLooked, Calm, Resting
<1>2. TypeOK /\ Sound /\ [Next]_vars => Sound'
  <2> SUFFICES ASSUME TypeOK, Sound, [Next]_vars PROVE Sound'
    OBVIOUS
  <2>p. /\ CallersOK /\ RequestsOK /\ MonitorOK /\ TokensOK /\ FlagsOK /\ BooksOK
        /\ TokenGood /\ SaversLooked
    BY Parts DEF Sound
  <2> USE <2>p DEF venue, session, disk, fleet, history
  <2> HIDE DEF CallersOK, RequestsOK, MonitorOK, TokensOK, FlagsOK, BooksOK, TokenGood,
               SaversLooked
  <2>0. CASE UNCHANGED vars
    BY <2>0, LooksStay, TokenStays DEF vars, Sound
  <2>1. ASSUME NEW c \in Callers, VerifyTotp(c) PROVE Sound'
    BY <2>1, GoesLooks DEF VerifyTotp, Sound, TokenGood, TokensOK
  <2>2. ASSUME NEW c \in Callers, ResetCycle(c) PROVE Sound'
    BY <2>2, GoesLooks, TokenStays DEF ResetCycle, Sound
  <2>3. ASSUME NEW c \in Callers, ResolveAlerts(c) PROVE Sound'
    BY <2>3, GoesLooks, TokenStays DEF ResolveAlerts, Sound
  <2>4. ASSUME NEW c \in Callers, Capture(c) PROVE Sound'
    BY <2>4, GoesLooks, TokenStays DEF Capture, Sound, SaversLooked, CallersOK
  <2>5. ASSUME NEW c \in Callers, WriteEntry(c) PROVE Sound'
    BY <2>5, GoesLooks, TokenStays DEF WriteEntry, Sound
  <2>6. ASSUME NEW c \in Callers, NotifyPortfolio(c) PROVE Sound'
    BY <2>6, EndsLooks, TokenStays DEF NotifyPortfolio, Sound
  <2>7. ASSUME NEW c \in Callers, Logout(c) PROVE Sound'
    BY <2>7, GoesLooks, TokenCleared DEF Logout, Sound
  <2>8. ASSUME NEW c \in Callers, HushAlerts(c) PROVE Sound'
    BY <2>8, GoesLooks, TokenStays DEF HushAlerts, Sound
  <2>9. ASSUME NEW c \in Callers, DropEntry(c) PROVE Sound'
    BY <2>9, EndsLooks, TokenStays DEF DropEntry, Sound
  <2>10. ASSUME NEW c \in Callers, SetToggle(c) PROVE Sound'
    BY <2>10, GoesLooks, LooksStay, TokenStays DEF SetToggle, Sound
  <2>11. ASSUME NEW q \in Requests, Send(q) PROVE Sound'
    BY <2>11, LooksStay, TokenStays DEF Send, Sound
  <2>12. ASSUME NEW q \in Requests, Rejected(q) PROVE Sound'
    BY <2>12, LooksStay, TokenStays, TokenCleared DEF Rejected, Sound, Lost
  <2>13. ASSUME NEW q \in Requests, MarkExpired(q) PROVE Sound'
    BY <2>13, LooksStay, TokenCleared DEF MarkExpired, Sound, Lost
  <2>14. ASSUME NEW q \in Requests, ForgetEntry(q) PROVE Sound'
    BY <2>14, LooksStay, TokenStays DEF ForgetEntry, Sound
  <2>15. ASSUME NEW q \in Requests, PageOperator(q) PROVE Sound'
    BY <2>15, LooksStay, TokenStays DEF PageOperator, Sound
  <2>16. ASSUME NEW k \in Books, WakeBook(k) PROVE Sound'
    BY <2>16, LooksStay, TokenStays DEF WakeBook, Sound
  <2>17. ASSUME NEW k \in Books, Spawn(k) PROVE Sound'
    BY <2>17, LooksStay, TokenStays DEF Spawn, Sound
  <2>18. ASSUME NEW k \in Books, Resume(k) PROVE Sound'
    BY <2>18, LooksStay, TokenStays DEF Resume, Sound
  <2>19. ASSUME NEW k \in Books, Remove(k) PROVE Sound'
    BY <2>19, LooksStay, TokenStays DEF Remove, Sound
  <2>20. ASSUME NEW n \in Tokens, Age(n) PROVE Sound'
    BY <2>20, LooksStay, TokenStays DEF Age, Sound
  <2>21. CASE OtherReads
    BY <2>21, LooksStay, TokenStays DEF OtherReads, Sound
  <2>22. CASE OtherWrites
    BY <2>22, LooksStay, TokenStays DEF OtherWrites, Sound
  <2>23. CASE Tick /\ TickExpired
    BY <2>23, TickLooks, TokenCleared DEF TickExpired, Sound, Tick, Lost, Resting
  <2>24. CASE Tick /\ TickValid
    BY <2>24, TickLooks, TokenStays DEF TickValid, Sound, Tick, Resting
  <2>25. CASE Tick /\ TickLoggedOut
    BY <2>25, LooksStay, TokenStays DEF TickLoggedOut, Sound, Tick
  <2>26. CASE TickNotifies
    BY <2>26, TickLooks, TokenStays DEF TickNotifies, Sound, Resting
  <2>27. CASE WakeTakesList
    BY <2>27, LooksStay, TokenStays DEF WakeTakesList, Sound
  <2>28. CASE WakeEnds
    BY <2>28, LooksStay, TokenStays DEF WakeEnds, Sound
  <2>29. CASE Build
    BY <2>29, LooksStay, TokenStays DEF Build, Sound
  <2>31. CASE TurnWindow
    BY <2>31, LooksStay, TokenStays DEF TurnWindow, Sound
  <2>32. CASE Restart
    BY <2>32, KeptType DEF Restart, Sound, TokenGood, TokensOK, SaversLooked, Calm, Resting
  <2>33. ASSUME NEW c \in Callers, Hold(c) PROVE Sound'
    BY <2>33, GoesLooks, TokenStays, ValidToken DEF Hold, Sound, TokenGood, SaversLooked, At, CallersOK
  <2>34. ASSUME NEW q \in Requests, PageCloses(q) PROVE Sound'
    BY <2>34, LooksStay, TokenStays DEF PageCloses, Sound
  <2>35. ASSUME NEW q \in Requests, PageRaises(q) PROVE Sound'
    BY <2>35, LooksStay, TokenStays DEF PageRaises, Sound
  <2>36. CASE TickPages
    BY <2>36, OverLooks, TickLooks, TokenStays DEF TickPages, Sound, Turns, MonitorOK
  <2>37. CASE TickCloses
    BY <2>37, TickLooks, TokenStays DEF TickCloses, Sound, Turns, MonitorOK
  <2>38. CASE TickRaises
    BY <2>38, OverLooks, TokenStays DEF TickRaises, Sound
  <2>39. CASE TickRemembers
    BY <2>39, OverLooks, TokenStays, ValidToken DEF TickRemembers, Sound, TokenGood, SaversLooked, MonitorOK
  <2>40. CASE TickWrites
    BY <2>40, OverLooks, TokenStays DEF TickWrites, Sound
  <2>41. CASE TickForgets
    BY <2>41, TickLooks, TokenStays DEF TickForgets, Sound, Turns, MonitorOK
  <2>42. CASE TickResolves
    BY <2>42, TickLooks, TokenStays DEF TickResolves, Sound, Turns, MonitorOK
  <2> QED
    BY <2>0, <2>1, <2>2, <2>3, <2>4, <2>5, <2>6, <2>7, <2>8, <2>9, <2>10,
       <2>11, <2>12, <2>13, <2>14, <2>15, <2>16, <2>17, <2>18, <2>19, <2>20,
       <2>21, <2>22, <2>23, <2>24, <2>25, <2>26, <2>27, <2>28, <2>29, <2>31, <2>32,
       <2>33, <2>34, <2>35, <2>36, <2>37, <2>38, <2>39, <2>40, <2>41, <2>42
    DEF Next, Calls, Marks, Ticks, Tick, Wakes
<1> QED  BY <1>1, <1>2, BrokerTypes, PTL DEF Spec

-----------------------------------------------------------------------------
(* The store forgets what ended *)

\* Who deletes goes on deleting, and the store is as it was.
LEMMA StoreStays ==
    ASSUME EndedIsForgotten, UNCHANGED <<saved, ended, toggle, stray>>, Deleting => Deleting'
    PROVE  EndedIsForgotten'
BY DEF EndedIsForgotten, Unwanted

\* A save that was overtaken by what ended the session is told as such.
LEMMA SaveIsJudged ==
    ASSUME NEW v, SaveSession(v, TRUE), UNCHANGED <<ended, toggle>>
    PROVE  EndedIsForgotten'
BY DEF EndedIsForgotten, Unwanted, SaveSession

LEMMA DeletedIsForgotten == ASSUME DeleteSession PROVE EndedIsForgotten'
BY DEF EndedIsForgotten, Unwanted, DeleteSession

\* The remembered session of what was logged out, rejected or found expired is
\* forgotten, unless its save was overtaken.
THEOREM EndedForgotten == Spec => []EndedIsForgotten
<1>1. Init => EndedIsForgotten  BY DEF Init, EndedIsForgotten, Unwanted
<1>2. TypeOK /\ Sound /\ EndedIsForgotten /\ [Next]_vars => EndedIsForgotten'
  <2> SUFFICES ASSUME TypeOK, Sound, EndedIsForgotten, [Next]_vars PROVE EndedIsForgotten'
    OBVIOUS
  <2>p. CallersOK /\ RequestsOK /\ MonitorOK /\ TokensOK /\ FlagsOK /\ BooksOK  BY Parts
  <2> USE <2>p DEF venue, session, disk, fleet, history
  <2>0. CASE UNCHANGED vars
    BY <2>0, StoreStays DEF vars, Deleting
  <2>1. ASSUME NEW c \in Callers, VerifyTotp(c) PROVE EndedIsForgotten'
    BY <2>1, StoreStays, PcGoes DEF VerifyTotp, At, Deleting
  <2>2. ASSUME NEW c \in Callers, ResetCycle(c) PROVE EndedIsForgotten'
    BY <2>2, StoreStays, PcGoes DEF ResetCycle, At, Deleting
  <2>3. ASSUME NEW c \in Callers, ResolveAlerts(c) PROVE EndedIsForgotten'
    BY <2>3, StoreStays, PcGoes DEF ResolveAlerts, At, Deleting
  <2>4. ASSUME NEW c \in Callers, Capture(c) PROVE EndedIsForgotten'
    BY <2>4, StoreStays, PcGoes DEF Capture, At, Deleting, CallersOK
  <2>5. ASSUME NEW c \in Callers, WriteEntry(c) PROVE EndedIsForgotten'
    <3>1. caller[c].fit = TRUE  BY <2>5 DEF WriteEntry, At, Sound, SaversLooked, CallersOK
    <3> QED  BY <2>5, <3>1, SaveIsJudged DEF WriteEntry
  <2>6. ASSUME NEW c \in Callers, NotifyPortfolio(c) PROVE EndedIsForgotten'
    BY <2>6, StoreStays, PcEnds DEF NotifyPortfolio, At, Deleting
  <2>7. ASSUME NEW c \in Callers, Logout(c) PROVE EndedIsForgotten'
    BY <2>7, PcGoes DEF Logout, EndedIsForgotten, Deleting
  <2>8. ASSUME NEW c \in Callers, HushAlerts(c) PROVE EndedIsForgotten'
    BY <2>8, StoreStays, PcGoes DEF HushAlerts, At, Deleting
  <2>9. ASSUME NEW c \in Callers, DropEntry(c) PROVE EndedIsForgotten'
    BY <2>9, DeletedIsForgotten DEF DropEntry
  <2>10. ASSUME NEW c \in Callers, SetToggle(c) PROVE EndedIsForgotten'
    BY <2>10, PcGoes DEF SetToggle, EndedIsForgotten, Unwanted, Deleting, TokensOK, FlagsOK
  <2>11. ASSUME NEW q \in Requests, Send(q) PROVE EndedIsForgotten'
    BY <2>11, StoreStays, PcRequest DEF Send, Idle, Deleting
  <2>12. ASSUME NEW q \in Requests, Rejected(q) PROVE EndedIsForgotten'
    <3>1. request' = [request EXCEPT ![q].pc = "marked"]  BY <2>12 DEF Rejected
    <3>2. request'[q].pc = "marked"  BY <2>12, <3>1 DEF RequestsOK
    <3>3. Deleting'  BY <2>12, <3>2 DEF Deleting
    <3> QED  BY <3>3 DEF EndedIsForgotten
  <2>13. ASSUME NEW q \in Requests, MarkExpired(q) PROVE EndedIsForgotten'
    BY <2>13, PcRequest DEF MarkExpired, EndedIsForgotten, Deleting
  <2>14. ASSUME NEW q \in Requests, ForgetEntry(q) PROVE EndedIsForgotten'
    BY <2>14, DeletedIsForgotten DEF ForgetEntry
  <2>15. ASSUME NEW q \in Requests, PageOperator(q) PROVE EndedIsForgotten'
    BY <2>15, StoreStays, PcSteps DEF PageOperator, Deleting
  <2>16. ASSUME NEW k \in Books, WakeBook(k) PROVE EndedIsForgotten'
    BY <2>16, StoreStays DEF WakeBook, Deleting
  <2>17. ASSUME NEW k \in Books, Spawn(k) PROVE EndedIsForgotten'
    BY <2>17, StoreStays DEF Spawn, Deleting
  <2>18. ASSUME NEW k \in Books, Resume(k) PROVE EndedIsForgotten'
    BY <2>18, StoreStays DEF Resume, Deleting
  <2>19. ASSUME NEW k \in Books, Remove(k) PROVE EndedIsForgotten'
    BY <2>19, StoreStays DEF Remove, Deleting
  <2>20. ASSUME NEW n \in Tokens, Age(n) PROVE EndedIsForgotten'
    BY <2>20, StoreStays DEF Age, Deleting
  <2>21. CASE OtherReads
    BY <2>21, StoreStays DEF OtherReads, Deleting
  <2>22. CASE OtherWrites
    BY <2>22, SaveIsJudged DEF OtherWrites
  <2>23. CASE Tick /\ TickExpired
    BY <2>23 DEF TickExpired, Tick, Resting, EndedIsForgotten, Deleting
  <2>24. CASE Tick /\ TickValid
    BY <2>24, StoreStays DEF TickValid, Tick, Deleting
  <2>25. CASE Tick /\ TickLoggedOut
    BY <2>25, StoreStays DEF TickLoggedOut, Tick, Deleting
  <2>26. CASE TickNotifies
    BY <2>26, StoreStays DEF TickNotifies, Deleting
  <2>27. CASE WakeTakesList
    BY <2>27, StoreStays DEF WakeTakesList, Deleting
  <2>28. CASE WakeEnds
    BY <2>28, StoreStays DEF WakeEnds, Deleting
  <2>29. CASE Build
    BY <2>29, StoreStays DEF Build, Deleting
  <2>31. CASE TurnWindow
    BY <2>31, StoreStays DEF TurnWindow, Deleting
  <2>32. CASE Restart
    BY <2>32, KeptType DEF Restart, EndedIsForgotten, Unwanted, FlagsOK
  <2>33. ASSUME NEW c \in Callers, Hold(c) PROVE EndedIsForgotten'
    BY <2>33, StoreStays, PcGoes DEF Hold, At, Deleting, CallersOK
  <2>34. ASSUME NEW q \in Requests, PageCloses(q) PROVE EndedIsForgotten'
    BY <2>34, StoreStays, PcSteps DEF PageCloses, Deleting
  <2>35. ASSUME NEW q \in Requests, PageRaises(q) PROVE EndedIsForgotten'
    BY <2>35, StoreStays, PcRequest DEF PageRaises, Idle, Deleting
  <2>36. CASE TickPages
    BY <2>36, StoreStays DEF TickPages, Deleting
  <2>37. CASE TickCloses
    BY <2>37, StoreStays DEF TickCloses, Deleting
  <2>38. CASE TickRaises
    BY <2>38, StoreStays DEF TickRaises, Deleting
  <2>39. CASE TickRemembers
    BY <2>39, StoreStays DEF TickRemembers, Deleting
  <2>40. CASE TickWrites
    <3>1. monitor.fit = TRUE  BY <2>40 DEF TickWrites, Sound, SaversLooked, MonitorOK
    <3> QED  BY <2>40, <3>1, SaveIsJudged DEF TickWrites
  <2>41. CASE TickForgets
    BY <2>41, DeletedIsForgotten DEF TickForgets
  <2>42. CASE TickResolves
    BY <2>42, StoreStays DEF TickResolves, Deleting
  <2> QED
    BY <2>0, <2>1, <2>2, <2>3, <2>4, <2>5, <2>6, <2>7, <2>8, <2>9, <2>10,
       <2>11, <2>12, <2>13, <2>14, <2>15, <2>16, <2>17, <2>18, <2>19, <2>20,
       <2>21, <2>22, <2>23, <2>24, <2>25, <2>26, <2>27, <2>28, <2>29, <2>31, <2>32,
       <2>33, <2>34, <2>35, <2>36, <2>37, <2>38, <2>39, <2>40, <2>41, <2>42
    DEF Next, Calls, Marks, Ticks, Tick, Wakes
<1> QED  BY <1>1, <1>2, BrokerTypes, SaversAreSound, PTL DEF Spec

-----------------------------------------------------------------------------
(* A lost session is paged *)

\* A loss is open only while there is no session: what makes a valid session,
\* or ends one, closes or opens the loss with it.
LostIsGone == due = "due" => token = 0

LEMMA GoneStatus == token = 0 => Status = IF forced THEN "expired" ELSE "unauthenticated"
BY DEF Status

LEMMA PageStays ==
    ASSUME LostIsGone, LossIsPaged, UNCHANGED <<token, forced, due>>, alarm => alarm',
           Paging => Paging'
    PROVE  LostIsGone' /\ LossIsPaged'
<1>1. LostIsGone'  BY DEF LostIsGone
<1>2. Status' = Status \/ due' # "due"  BY DEF LostIsGone, Status
<1> QED  BY <1>1, <1>2 DEF LossIsPaged

\* A close leaves a loss open only where somebody will still see it, a raise
\* only where it is paged or will be seen.
LEMMA ResolvedPages ==
    ASSUME LostIsGone, FlagsOK, Resolved, UNCHANGED <<token, forced, age>>, Paging => Paging'
    PROVE  LostIsGone' /\ LossIsPaged'
<1>1. Status' = Status  BY DEF Status
<1>2. due' = "due" => due = "due" /\ (Status = "expired" \/ Paging)  BY DEF Resolved
<1> QED  BY <1>1, <1>2 DEF LostIsGone, LossIsPaged

LEMMA RaisedPages ==
    ASSUME LostIsGone, FlagsOK, Raised, UNCHANGED <<token, forced, age>>
    PROVE  LostIsGone' /\ LossIsPaged'
<1>1. Status' = Status  BY DEF Status
<1>2. due' = "due" => due = "due" /\ (Status = "expired" \/ alarm')
  BY DEF Raised, FlagsOK
<1> QED  BY <1>1, <1>2 DEF LostIsGone, LossIsPaged

\* Who is on the way to an alert.
LEMMA RequestsPage ==
    ASSUME request' = request, monitor.pc \notin {"forget", "page", "close", "raise"}, Paging
    PROVE  Paging'
BY DEF Paging

LEMMA NotDue == due' # "due" => LostIsGone' /\ LossIsPaged'
BY DEF LostIsGone, LossIsPaged

\* What a rejection ends is seen as expired.
LEMMA LostIsSeen ==
    ASSUME token' = 0, forced' = TRUE
    PROVE  LostIsGone' /\ LossIsPaged'
BY DEF LostIsGone, LossIsPaged, Status

\* A session lost to an expiry or a rejection is paged, or is still seen as
\* expired, until a login, a logout or a tick outside the window closes it.
THEOREM LossPaged == Spec => []LossIsPaged
<1>1. Init => LostIsGone /\ LossIsPaged  BY DEF Init, LostIsGone, LossIsPaged
<1>2. TypeOK /\ LostIsGone /\ LossIsPaged /\ [Next]_vars => LostIsGone' /\ LossIsPaged'
  <2> SUFFICES ASSUME TypeOK, LostIsGone, LossIsPaged, [Next]_vars
               PROVE  LostIsGone' /\ LossIsPaged'
    OBVIOUS
  <2>p. CallersOK /\ RequestsOK /\ MonitorOK /\ TokensOK /\ FlagsOK /\ BooksOK  BY Parts
  <2> USE <2>p DEF venue, session, disk, fleet, history
  <2>0. CASE UNCHANGED vars
    BY <2>0, PageStays DEF vars, Paging
  <2>1. ASSUME NEW c \in Callers, VerifyTotp(c) PROVE LostIsGone' /\ LossIsPaged'
    BY <2>1, NotDue DEF VerifyTotp
  <2>2. ASSUME NEW c \in Callers, ResetCycle(c) PROVE LostIsGone' /\ LossIsPaged'
    BY <2>2, PageStays DEF ResetCycle, Paging
  <2>3. ASSUME NEW c \in Callers, ResolveAlerts(c) PROVE LostIsGone' /\ LossIsPaged'
    BY <2>3, ResolvedPages DEF ResolveAlerts, Paging
  <2>4. ASSUME NEW c \in Callers, Capture(c) PROVE LostIsGone' /\ LossIsPaged'
    BY <2>4, PageStays DEF Capture, Paging
  <2>5. ASSUME NEW c \in Callers, WriteEntry(c) PROVE LostIsGone' /\ LossIsPaged'
    BY <2>5, PageStays DEF WriteEntry, Paging
  <2>6. ASSUME NEW c \in Callers, NotifyPortfolio(c) PROVE LostIsGone' /\ LossIsPaged'
    BY <2>6, PageStays DEF NotifyPortfolio, Paging
  <2>7. ASSUME NEW c \in Callers, Logout(c) PROVE LostIsGone' /\ LossIsPaged'
    BY <2>7, NotDue DEF Logout
  <2>8. ASSUME NEW c \in Callers, HushAlerts(c) PROVE LostIsGone' /\ LossIsPaged'
    BY <2>8, ResolvedPages DEF HushAlerts, Paging
  <2>9. ASSUME NEW c \in Callers, DropEntry(c) PROVE LostIsGone' /\ LossIsPaged'
    BY <2>9, PageStays DEF DropEntry, Paging
  <2>10. ASSUME NEW c \in Callers, SetToggle(c) PROVE LostIsGone' /\ LossIsPaged'
    BY <2>10, PageStays DEF SetToggle, Paging
  <2>11. ASSUME NEW q \in Requests, Send(q) PROVE LostIsGone' /\ LossIsPaged'
    BY <2>11, PageStays, PcRequest DEF Send, Paging
  <2>12. ASSUME NEW q \in Requests, Rejected(q) PROVE LostIsGone' /\ LossIsPaged'
    <3>1. CASE token' = 0 /\ forced' = TRUE
      BY <3>1, LostIsSeen
    <3>2. CASE UNCHANGED <<session, ended, due>>
      <4>a. request' = [request EXCEPT ![q].pc = "marked"]  BY <2>12 DEF Rejected
      <4>1. \A r \in Requests : request'[r].pc = IF r = q THEN "marked" ELSE request[r].pc
        BY <4>a DEF RequestsOK
      <4>2. Paging => Paging'  BY <2>12, <4>1 DEF Rejected, Paging
      <4> QED  BY <2>12, <3>2, <4>2, PageStays DEF Rejected
    <3> QED  BY <2>12, <3>1, <3>2 DEF Rejected
  <2>13. ASSUME NEW q \in Requests, MarkExpired(q) PROVE LostIsGone' /\ LossIsPaged'
    BY <2>13, LostIsSeen DEF MarkExpired
  <2>14. ASSUME NEW q \in Requests, ForgetEntry(q) PROVE LostIsGone' /\ LossIsPaged'
    BY <2>14, PageStays, PcSteps DEF ForgetEntry, Paging
  <2>15. ASSUME NEW q \in Requests, PageOperator(q) PROVE LostIsGone' /\ LossIsPaged'
    BY <2>15, PageStays, PcSteps DEF PageOperator, Paging
  <2>16. ASSUME NEW k \in Books, WakeBook(k) PROVE LostIsGone' /\ LossIsPaged'
    BY <2>16, PageStays DEF WakeBook, Paging
  <2>17. ASSUME NEW k \in Books, Spawn(k) PROVE LostIsGone' /\ LossIsPaged'
    BY <2>17, PageStays DEF Spawn, Paging
  <2>18. ASSUME NEW k \in Books, Resume(k) PROVE LostIsGone' /\ LossIsPaged'
    BY <2>18, PageStays DEF Resume, Paging
  <2>19. ASSUME NEW k \in Books, Remove(k) PROVE LostIsGone' /\ LossIsPaged'
    BY <2>19, PageStays DEF Remove, Paging
  <2>20. ASSUME NEW n \in Tokens, Age(n) PROVE LostIsGone' /\ LossIsPaged'
    BY <2>20, PageStays DEF Age, Paging
  <2>21. CASE OtherReads
    BY <2>21, PageStays DEF OtherReads, Paging
  <2>22. CASE OtherWrites
    BY <2>22, PageStays DEF OtherWrites, Paging
  <2>23. CASE Tick /\ TickExpired
    BY <2>23 DEF TickExpired, Tick, Resting, LostIsGone, LossIsPaged, Paging
  <2>24. CASE Tick /\ TickValid
    BY <2>24, PageStays, RequestsPage DEF TickValid, Tick
  <2>25. CASE Tick /\ TickLoggedOut
    BY <2>25, PageStays DEF TickLoggedOut, Tick, Paging
  <2>26. CASE TickNotifies
    BY <2>26, PageStays, RequestsPage DEF TickNotifies
  <2>27. CASE WakeTakesList
    BY <2>27, PageStays DEF WakeTakesList, Paging
  <2>28. CASE WakeEnds
    BY <2>28, PageStays DEF WakeEnds, Paging
  <2>29. CASE Build
    BY <2>29, PageStays DEF Build, Paging
  <2>31. CASE TurnWindow
    BY <2>31, PageStays DEF TurnWindow, Paging
  <2>32. CASE Restart
    BY <2>32, NotDue DEF Restart
  <2>33. ASSUME NEW c \in Callers, Hold(c) PROVE LostIsGone' /\ LossIsPaged'
    BY <2>33, PageStays DEF Hold, Paging
  <2>34. ASSUME NEW q \in Requests, PageCloses(q) PROVE LostIsGone' /\ LossIsPaged'
    <3>a. request' = [request EXCEPT ![q].pc = "raise"]  BY <2>34 DEF PageCloses
    <3>b. request'[q].pc = "raise"  BY <3>a DEF RequestsOK
    <3>1. Paging'  BY <3>b DEF Paging
    <3> QED  BY <2>34, <3>1 DEF PageCloses, LostIsGone, LossIsPaged
  <2>35. ASSUME NEW q \in Requests, PageRaises(q) PROVE LostIsGone' /\ LossIsPaged'
    BY <2>35, RaisedPages DEF PageRaises
  <2>36. CASE TickPages
    <3>1. CASE alarm
      BY <2>36, <3>1 DEF TickPages, LostIsGone, LossIsPaged
    <3>2. CASE ~alarm
      <4>1. Paging'  BY <2>36, <3>2 DEF TickPages, Turns, MonitorOK, Paging
      <4> QED  BY <2>36, <4>1, PageStays DEF TickPages
    <3> QED  BY <3>1, <3>2
  <2>37. CASE TickCloses
    <3>1. Paging'  BY <2>37 DEF TickCloses, Turns, MonitorOK, Paging
    <3> QED  BY <2>37, <3>1 DEF TickCloses, LostIsGone, LossIsPaged
  <2>38. CASE TickRaises
    BY <2>38, RaisedPages DEF TickRaises
  <2>39. CASE TickRemembers
    BY <2>39, PageStays, RequestsPage DEF TickRemembers
  <2>40. CASE TickWrites
    BY <2>40, PageStays, RequestsPage DEF TickWrites
  <2>41. CASE TickForgets
    <3>1. Paging'  BY <2>41 DEF TickForgets, Turns, MonitorOK, Paging
    <3> QED  BY <2>41, <3>1, PageStays DEF TickForgets
  <2>42. CASE TickResolves
    BY <2>42, ResolvedPages, RequestsPage DEF TickResolves
  <2> QED
    BY <2>0, <2>1, <2>2, <2>3, <2>4, <2>5, <2>6, <2>7, <2>8, <2>9, <2>10,
       <2>11, <2>12, <2>13, <2>14, <2>15, <2>16, <2>17, <2>18, <2>19, <2>20,
       <2>21, <2>22, <2>23, <2>24, <2>25, <2>26, <2>27, <2>28, <2>29, <2>31, <2>32,
       <2>33, <2>34, <2>35, <2>36, <2>37, <2>38, <2>39, <2>40, <2>41, <2>42
    DEF Next, Calls, Marks, Ticks, Tick, Wakes
<1> QED  BY <1>1, <1>2, BrokerTypes, PTL DEF Spec

-----------------------------------------------------------------------------
(* A book that waits has a waker *)

\* The callers, and the wake, that will see to a book.
Caring(c) == caller[c].pc \in {"verified", "resolve", "capture", "hold", "write", "notify"}
InWake(k) == wake.pc = "started" \/ (wake.pc = "acting" /\ k \in wake.todo)

LEMMA WakerIs == \A k \in Books : Waker(k) <=> (\E c \in Callers : Caring(c)) \/ InWake(k)
BY DEF Waker, Caring, InWake

\* No book is left by a step after which the same callers care, the wake has
\* the same books, and no session has become valid.
LEMMA NobodyIsLeft ==
    ASSUME WaitingHasWaker, UNCHANGED <<wake, feed, refused, built, dropped>>, Valid' => Valid,
           \A c \in Callers : Caring(c) => Caring(c)'
    PROVE  WaitingHasWaker'
<1> SUFFICES ASSUME NEW k \in Books, Left(k)' PROVE (dropped \/ k \in refused)'
  BY DEF WaitingHasWaker
<1>1. Left(k)
  BY WakerIs DEF Left, InWake, Waker, Caring
<1> QED  BY <1>1 DEF WaitingHasWaker

\* Whoever is about to see to every book leaves none.
LEMMA CaredFor ==
    ASSUME NEW c \in Callers, Caring(c)'
    PROVE  WaitingHasWaker'
BY DEF WaitingHasWaker, Left, Waker, Caring

LEMMA SameSession ==
    ASSUME UNCHANGED <<token, forced, age>> PROVE Valid' <=> Valid
BY DEF Valid, Status

LEMMA NoSession == ASSUME token' = 0, forced' \in BOOLEAN PROVE ~Valid'
BY DEF Valid, Status

\* Without a session nobody is left.
LEMMA NothingToWakeFor == ASSUME ~Valid' PROVE WaitingHasWaker'
BY DEF WaitingHasWaker, Left

LEMMA NotifiedIsCared == ASSUME Notify PROVE WaitingHasWaker'
<1>1. CASE wake.pc = "idle"
  <2>1. wake'.pc = "started"  BY <1>1 DEF Notify, Awake
  <2> QED  BY <2>1 DEF WaitingHasWaker, Left, Waker
<1>2. CASE wake.pc # "idle"
  <2>1. dropped'  BY <1>2 DEF Notify
  <2> QED  BY <2>1 DEF WaitingHasWaker
<1> QED  BY <1>1, <1>2

LEMMA AgeEnds ==
    ASSUME TypeOK, NEW n \in Tokens, Age(n) PROVE Valid' => Valid
<1>1. token' = token /\ forced' = forced  BY DEF Age, session
<1>2. CASE token = 0  BY <1>1, <1>2 DEF Valid, Status
<1>3. CASE token # 0
  <2>1. token \in Tokens  BY <1>3, Parts, Bounded
  <2>2. age[token] = "over" => age'[token] = "over"
    BY <2>1, Parts DEF Age, TokensOK
  <2> QED  BY <1>1, <1>3, <2>1, <2>2 DEF Valid, Status
<1> QED  BY <1>2, <1>3

\* No book waits for a session that is there without somebody on the way to
\* wake it, unless a notification came to nothing.
THEOREM WaitingWaked == Spec => []WaitingHasWaker
<1>1. Init => WaitingHasWaker  BY DEF Init, WaitingHasWaker, Left
<1>2. TypeOK /\ WaitingHasWaker /\ [Next]_vars => WaitingHasWaker'
  <2> SUFFICES ASSUME TypeOK, WaitingHasWaker, [Next]_vars PROVE WaitingHasWaker'
    OBVIOUS
  <2>p. CallersOK /\ RequestsOK /\ MonitorOK /\ TokensOK /\ FlagsOK /\ BooksOK  BY Parts
  <2> USE <2>p DEF venue, session, disk, fleet, history
  <2>0. CASE UNCHANGED vars
    BY <2>0, NobodyIsLeft, SameSession DEF vars, Caring
  <2>1. ASSUME NEW c \in Callers, VerifyTotp(c) PROVE WaitingHasWaker'
    BY <2>1, CaredFor, PcGoes DEF VerifyTotp, Caring
  <2>2. ASSUME NEW c \in Callers, ResetCycle(c) PROVE WaitingHasWaker'
    BY <2>2, CaredFor, PcGoes DEF ResetCycle, Caring
  <2>3. ASSUME NEW c \in Callers, ResolveAlerts(c) PROVE WaitingHasWaker'
    BY <2>3, CaredFor, PcGoes DEF ResolveAlerts, Caring
  <2>4. ASSUME NEW c \in Callers, Capture(c) PROVE WaitingHasWaker'
    <3>1. CASE toggle
      BY <2>4, <3>1, CaredFor DEF Capture, CallersOK, Caring
    <3>2. CASE ~toggle
      BY <2>4, <3>2, CaredFor, PcGoes DEF Capture, Caring
    <3> QED  BY <3>1, <3>2
  <2>5. ASSUME NEW c \in Callers, WriteEntry(c) PROVE WaitingHasWaker'
    BY <2>5, CaredFor, PcGoes DEF WriteEntry, Caring
  <2>6. ASSUME NEW c \in Callers, NotifyPortfolio(c) PROVE WaitingHasWaker'
    BY <2>6, NotifiedIsCared DEF NotifyPortfolio
  <2>7. ASSUME NEW c \in Callers, Logout(c) PROVE WaitingHasWaker'
    BY <2>7, NothingToWakeFor, NoSession DEF Logout
  <2>8. ASSUME NEW c \in Callers, HushAlerts(c) PROVE WaitingHasWaker'
    BY <2>8, NobodyIsLeft, SameSession, PcGoes DEF HushAlerts, At, Caring
  <2>9. ASSUME NEW c \in Callers, DropEntry(c) PROVE WaitingHasWaker'
    BY <2>9, NobodyIsLeft, SameSession, PcEnds DEF DropEntry, At, Caring
  <2>10. ASSUME NEW c \in Callers, SetToggle(c) PROVE WaitingHasWaker'
    BY <2>10, NobodyIsLeft, SameSession, PcGoes DEF SetToggle, At, Caring
  <2>11. ASSUME NEW q \in Requests, Send(q) PROVE WaitingHasWaker'
    BY <2>11, NobodyIsLeft, SameSession DEF Send, Caring
  <2>12. ASSUME NEW q \in Requests, Rejected(q) PROVE WaitingHasWaker'
    BY <2>12, NobodyIsLeft, SameSession, NothingToWakeFor, NoSession DEF Rejected, Caring
  <2>13. ASSUME NEW q \in Requests, MarkExpired(q) PROVE WaitingHasWaker'
    BY <2>13, NothingToWakeFor, NoSession DEF MarkExpired
  <2>14. ASSUME NEW q \in Requests, ForgetEntry(q) PROVE WaitingHasWaker'
    BY <2>14, NobodyIsLeft, SameSession DEF ForgetEntry, Caring
  <2>15. ASSUME NEW q \in Requests, PageOperator(q) PROVE WaitingHasWaker'
    BY <2>15, NobodyIsLeft, SameSession DEF PageOperator, Caring
  <2>16. ASSUME NEW k \in Books, WakeBook(k) PROVE WaitingHasWaker'
    BY <2>16, SameSession DEF WakeBook, WaitingHasWaker, Left, Waker, Upgraded, BooksOK
  <2>17. ASSUME NEW k \in Books, Spawn(k) PROVE WaitingHasWaker'
    BY <2>17, SameSession DEF Spawn, WaitingHasWaker, Left, Waker, Constructed, BooksOK
  <2>18. ASSUME NEW k \in Books, Resume(k) PROVE WaitingHasWaker'
    BY <2>18, SameSession DEF Resume, WaitingHasWaker, Left, Waker, Upgraded, BooksOK
  <2>19. ASSUME NEW k \in Books, Remove(k) PROVE WaitingHasWaker'
    BY <2>19, SameSession DEF Remove, WaitingHasWaker, Left, Waker, BooksOK
  <2>20. ASSUME NEW n \in Tokens, Age(n) PROVE WaitingHasWaker'
    BY <2>20, NobodyIsLeft, AgeEnds DEF Age, Caring
  <2>21. CASE OtherReads
    BY <2>21, NobodyIsLeft, SameSession DEF OtherReads, Caring
  <2>22. CASE OtherWrites
    BY <2>22, NobodyIsLeft, SameSession DEF OtherWrites, Caring
  <2>23. CASE Tick /\ TickExpired
    BY <2>23, NothingToWakeFor, NoSession DEF TickExpired, Tick
  <2>24. CASE Tick /\ TickValid
    BY <2>24, NobodyIsLeft, SameSession DEF TickValid, Tick, Caring
  <2>25. CASE Tick /\ TickLoggedOut
    BY <2>25, NobodyIsLeft, SameSession DEF TickLoggedOut, Tick, Caring
  <2>26. CASE TickNotifies
    BY <2>26, NotifiedIsCared DEF TickNotifies
  <2>27. CASE WakeTakesList
    BY <2>27 DEF WakeTakesList, WaitingHasWaker, Left, Waker, FlagsOK
  <2>28. CASE WakeEnds
    BY <2>28, SameSession DEF WakeEnds, WaitingHasWaker, Left, Waker
  <2>29. CASE Build
    BY <2>29, SameSession DEF Build, WaitingHasWaker, Left, Constructed, BooksOK
  <2>31. CASE TurnWindow
    BY <2>31, NobodyIsLeft, SameSession DEF TurnWindow, Caring
  <2>32. CASE Restart
    BY <2>32 DEF Restart, WaitingHasWaker, Left
  <2>33. ASSUME NEW c \in Callers, Hold(c) PROVE WaitingHasWaker'
    BY <2>33, CaredFor, PcGoes DEF Hold, CallersOK, Caring
  <2>34. ASSUME NEW q \in Requests, PageCloses(q) PROVE WaitingHasWaker'
    BY <2>34, NobodyIsLeft, SameSession DEF PageCloses, Caring
  <2>35. ASSUME NEW q \in Requests, PageRaises(q) PROVE WaitingHasWaker'
    BY <2>35, NobodyIsLeft, SameSession DEF PageRaises, Caring
  <2>36. CASE TickPages
    BY <2>36, NobodyIsLeft, SameSession DEF TickPages, Caring
  <2>37. CASE TickCloses
    BY <2>37, NobodyIsLeft, SameSession DEF TickCloses, Caring
  <2>38. CASE TickRaises
    BY <2>38, NobodyIsLeft, SameSession DEF TickRaises, Caring
  <2>39. CASE TickRemembers
    BY <2>39, NobodyIsLeft, SameSession DEF TickRemembers, Caring
  <2>40. CASE TickWrites
    BY <2>40, NobodyIsLeft, SameSession DEF TickWrites, Caring
  <2>41. CASE TickForgets
    BY <2>41, NobodyIsLeft, SameSession DEF TickForgets, Caring
  <2>42. CASE TickResolves
    BY <2>42, NobodyIsLeft, SameSession DEF TickResolves, Caring
  <2> QED
    BY <2>0, <2>1, <2>2, <2>3, <2>4, <2>5, <2>6, <2>7, <2>8, <2>9, <2>10,
       <2>11, <2>12, <2>13, <2>14, <2>15, <2>16, <2>17, <2>18, <2>19, <2>20,
       <2>21, <2>22, <2>23, <2>24, <2>25, <2>26, <2>27, <2>28, <2>29, <2>31, <2>32,
       <2>33, <2>34, <2>35, <2>36, <2>37, <2>38, <2>39, <2>40, <2>41, <2>42
    DEF Next, Calls, Marks, Ticks, Tick, Wakes
<1> QED  BY <1>1, <1>2, BrokerTypes, PTL DEF Spec
=============================================================================
