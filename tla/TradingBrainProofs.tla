------------------------ MODULE TradingBrainProofs ------------------------
(***************************************************************************)
(* Proofs about ActionBridge, and about TradingBrain, for any types of     *)
(* actions, any number of walks, actions, symbols and positions, and any   *)
(* amounts: handlers are called once, positions bounded, books balanced.   *)
(***************************************************************************)
EXTENDS TradingBrain, Sums

Statuses == {"pending", "executing", "completed", "failed", "rolled_back"}

Row == [type: Types, sure: BOOLEAN, status: Statuses]

(* An action whose handler has been called does not look as if it had not. *)
Marked ==
  \A a \in Ids :
    /\ invoked[a] \in {0, 1}
    /\ invoked[a] = 1 => a \in Queued /\ ~Executable(a)

BridgeInv == BridgeTypeOK /\ Marked

(* Writing a status keeps the rows rows, and all the others. *)
LEMMA SettleType ==
  ASSUME BridgeTypeOK, NEW a \in Queued, NEW status \in Statuses, Settle(a, status)
  PROVE  /\ queue' \in Seq(Row) /\ Queued' = Queued /\ Len(queue') = Len(queue)
         /\ queue'[a].status = status
         /\ \A b \in Queued : b # a => queue'[b] = queue[b]
<1>1. queue \in Seq(Row) BY DEF BridgeTypeOK, Row, Statuses
<1>2. queue' = [queue EXCEPT ![a].status = status] BY DEF Settle
<1>3. a \in 1 .. Len(queue) BY <1>1 DEF Queued
<1>4. queue[a] \in Row BY <1>1, <1>3
<1>5. [queue[a] EXCEPT !.status = status] \in Row BY <1>4 DEF Row
<1> QED BY <1>1, <1>2, <1>3, <1>4, <1>5 DEF Queued, Row

(* A step that writes one status, and calls nobody, keeps the invariant     *)
(* unless it makes an action executable.                                    *)
LEMMA SettleKeeps ==
  ASSUME BridgeInv, NEW a \in Queued, NEW status \in Statuses \ {"pending"},
         Settle(a, status), invoked' = invoked,
         todo' \in [Walks -> SUBSET Queued], calls' \subseteq calls
  PROVE  BridgeInv'
<1>1. /\ queue' \in Seq(Row) /\ Queued' = Queued /\ Len(queue') = Len(queue)
      /\ queue'[a].status = status
      /\ \A b \in Queued : b # a => queue'[b] = queue[b]
  BY SettleType DEF BridgeInv
<1>2. BridgeTypeOK'
  BY <1>1 DEF BridgeInv, BridgeTypeOK, Row, Statuses
<1>3. Marked'
  BY <1>1 DEF BridgeInv, Marked, Executable, Statuses
<1> QED BY <1>2, <1>3 DEF BridgeInv

(* A step that leaves queue and history alone. *)
LEMMA WalkingKeeps ==
  ASSUME BridgeInv, queue' = queue, invoked' = invoked,
         todo' \in [Walks -> SUBSET Queued], calls' \subseteq calls
  PROVE  BridgeInv'
BY DEF BridgeInv, BridgeTypeOK, Marked, Executable, Queued

(* The call of a handler: only of an action that was never called. *)
LEMMA InvokeKeeps ==
  ASSUME BridgeInv, NEW a \in Ids, NEW by \in Callers, Invoke(a, by),
         todo' \in [Walks -> SUBSET Queued]
  PROVE  BridgeInv'
<1>1. a \in Queued /\ Executable(a) BY DEF Invoke, Executable
<1>2. invoked[a] = 0 BY <1>1 DEF BridgeInv, Marked
<1>3. /\ queue' \in Seq(Row) /\ Queued' = Queued /\ Len(queue') = Len(queue)
      /\ queue'[a].status = "executing"
      /\ \A b \in Queued : b # a => queue'[b] = queue[b]
  BY <1>1, SettleType DEF BridgeInv, Invoke, Statuses
<1>4. invoked' = [invoked EXCEPT ![a] = 1]
  BY <1>2 DEF Invoke, BridgeInv, BridgeTypeOK
<1>5. calls' \subseteq [action: Queued, by: Callers]
  BY <1>1 DEF Invoke, BridgeInv, BridgeTypeOK
<1>6. BridgeTypeOK'
  BY <1>3, <1>4, <1>5 DEF BridgeInv, BridgeTypeOK, Row, Statuses
<1>7. Marked'
  BY <1>1, <1>3, <1>4 DEF BridgeInv, BridgeTypeOK, Marked, Executable
<1> QED BY <1>6, <1>7 DEF BridgeInv

(* The step of a walk that comes to an action takes it off the list. *)
LEMMA ComesType ==
  ASSUME BridgeInv, NEW w \in Walks, NEW a, Comes(w, a)
  PROVE  todo' \in [Walks -> SUBSET Queued] /\ a \in Queued
BY DEF BridgeInv, BridgeTypeOK, Comes

LEMMA ProposeKeeps ==
  ASSUME BridgeInv, NEW kind \in Kinds, Propose(kind)
  PROVE  BridgeInv'
<1> DEFINE row == [type |-> kind[1], sure |-> kind[2], status |-> "pending"]
<1>1. row \in Row BY BridgeAssumption DEF Row, Statuses
<1>2. queue \in Seq(Row) BY DEF BridgeInv, BridgeTypeOK, Row, Statuses
<1>3. queue' = Append(queue, row) /\ Len(queue) < MaxActions BY DEF Propose
<1> HIDE DEF row
<1>4. /\ queue' \in Seq(Row) /\ Len(queue') = Len(queue) + 1
      /\ \A b \in 1 .. Len(queue) : queue'[b] = queue[b]
  BY <1>1, <1>2, <1>3
<1>5. Queued = 1 .. Len(queue) /\ Queued' = 1 .. Len(queue')
  BY <1>2, <1>4 DEF Queued
<1>6. Len(queue) \in Nat /\ MaxActions \in Nat BY <1>2, BridgeAssumption
<1>7. Queued \subseteq Queued' /\ Len(queue') <= MaxActions BY <1>3, <1>4, <1>5, <1>6
<1>8. todo' = todo /\ calls' = calls /\ invoked' = invoked BY DEF Propose
<1>9. BridgeTypeOK'
  BY <1>4, <1>7, <1>8 DEF BridgeInv, BridgeTypeOK, Row, Statuses
<1>10. Marked'
  BY <1>4, <1>5, <1>7, <1>8 DEF BridgeInv, Marked, Executable
<1> QED BY <1>9, <1>10 DEF BridgeInv

(* Every step of the bridge. *)
LEMMA BridgeNextKeeps ==
  ASSUME BridgeInv, [BridgeNext]_bridge
  PROVE  BridgeInv'
<1>1. ASSUME NEW kind \in Kinds, Propose(kind) PROVE BridgeInv'
  BY <1>1, ProposeKeeps
<1>2. ASSUME NEW c \in calls, NEW ok \in BOOLEAN, HandlerSettles(c, ok)
      PROVE  BridgeInv'
  <2>1. c.action \in Queued /\ todo \in [Walks -> SUBSET Queued]
    BY <1>2 DEF BridgeInv, BridgeTypeOK
  <2> QED BY <1>2, <2>1, SettleKeeps DEF HandlerSettles, Statuses
<1>3. ASSUME NEW w \in Walks, StartWalk(w) PROVE BridgeInv'
  <2>1. todo' \in [Walks -> SUBSET Queued]
    BY <1>3 DEF StartWalk, BridgeInv, BridgeTypeOK, AutoExecutable, Pending
  <2> QED BY <1>3, <2>1, WalkingKeeps DEF StartWalk
<1>4. ASSUME NEW w \in Walks, NEW a \in Ids, WalkInvokes(w, a) PROVE BridgeInv'
  BY <1>4, ComesType, InvokeKeeps DEF WalkInvokes, Callers
<1>5. ASSUME NEW w \in Walks, NEW a \in Ids, WalkFindsNoHandler(w, a)
      PROVE  BridgeInv'
  BY <1>5, ComesType, SettleKeeps DEF WalkFindsNoHandler, Unhandled, Statuses
<1>6. ASSUME NEW w \in Walks, NEW a \in Ids, WalkSkips(w, a) PROVE BridgeInv'
  BY <1>6, ComesType, WalkingKeeps DEF WalkSkips
<1>7. todo \in [Walks -> SUBSET Queued] BY DEF BridgeInv, BridgeTypeOK
<1>8. ASSUME NEW a \in Ids, RouteInvokes(a) PROVE BridgeInv'
  BY <1>7, <1>8, InvokeKeeps DEF RouteInvokes, Callers
<1>9. ASSUME NEW a \in Ids, RouteFindsNoHandler(a) PROVE BridgeInv'
  BY <1>7, <1>9, SettleKeeps DEF RouteFindsNoHandler, Unhandled, Executable, Statuses
<1>10. ASSUME NEW a \in Ids, NEW ok \in BOOLEAN, RecordOutcome(a, ok)
       PROVE  BridgeInv'
  BY <1>7, <1>10, SettleKeeps DEF RecordOutcome, Statuses
<1>11. ASSUME NEW a \in Ids, Rollback(a) PROVE BridgeInv'
  BY <1>7, <1>11, SettleKeeps DEF Rollback, Statuses
<1>12. CASE BridgeCrash BY <1>12, WalkingKeeps DEF BridgeCrash
<1>13. CASE UNCHANGED bridge BY <1>7, <1>13, WalkingKeeps DEF bridge
<1> QED
  BY <1>1, <1>2, <1>3, <1>4, <1>5, <1>6, <1>8, <1>9, <1>10, <1>11, <1>12, <1>13
  DEF BridgeNext

LEMMA BridgeInitHolds == BridgeInit => BridgeInv
<1> SUFFICES ASSUME BridgeInit PROVE BridgeInv OBVIOUS
<1>1. BridgeTypeOK
  BY BridgeAssumption DEF BridgeInit, BridgeTypeOK, Queued
<1>2. Marked BY DEF BridgeInit, Marked
<1> QED BY <1>1, <1>2 DEF BridgeInv

LEMMA BridgeInvariant == BridgeSpec => []BridgeInv
<1>1. BridgeInit => BridgeInv BY BridgeInitHolds
<1>2. BridgeInv /\ [BridgeNext]_bridge => BridgeInv' BY BridgeNextKeeps
<1> QED BY <1>1, <1>2, PTL DEF BridgeSpec

(* The types of the bridge. *)
THEOREM BridgeTypes == BridgeSpec => []BridgeTypeOK
<1>1. BridgeInv => BridgeTypeOK BY DEF BridgeInv
<1> QED BY <1>1, BridgeInvariant, PTL

(* The handler of an action is called at most once: processQueue and the    *)
(* operator may race for it, outcomes may be recorded and rolled back while *)
(* it runs, and the process may die.                                        *)
THEOREM HandlersAreCalledOnce == BridgeSpec => []AtMostOnce
<1>1. BridgeInv => AtMostOnce BY DEF BridgeInv, Marked, AtMostOnce
<1> QED BY <1>1, BridgeInvariant, PTL

---------------------------------------------------------------------------
(* The trading brain does to its bridge what a bridge may do: the handlers, *)
(* the engine and its mishaps write no action.                              *)
LEMMA StepIsABridgeStep == [Next]_vars => [BridgeNext]_bridge
<1> SUFFICES ASSUME [Next]_vars PROVE [BridgeNext]_bridge OBVIOUS
<1>1. CASE Proposes BY <1>1 DEF Proposes, BridgeNext
<1>2. ASSUME NEW w \in Walks, WalkGoesOn(w) PROVE BridgeNext
  BY <1>2 DEF WalkGoesOn, BridgeNext
<1>3. ASSUME NEW c \in calls, Settles(c) PROVE BridgeNext
  BY <1>3 DEF Settles, BridgeNext
<1>4. ASSUME NEW a \in Ids, Operates(a) PROVE BridgeNext
  BY <1>4 DEF Operates, BridgeNext
<1>5. CASE Trades BY <1>5 DEF Trades
<1>6. CASE Throws BY <1>6 DEF Throws
<1>7. CASE Crash BY <1>7 DEF Crash, BridgeNext
<1>8. CASE UNCHANGED vars BY <1>8 DEF vars
<1> QED BY <1>1, <1>2, <1>3, <1>4, <1>5, <1>6, <1>7, <1>8 DEF Next

(* The trading brain implements the bridge: composed with the paper engine *)
(* behind its handler, the bridge still does nothing but its own steps.    *)
THEOREM BrainIsABridge == Spec => BridgeSpec
<1>1. Init => BridgeInit BY DEF Init
<1>2. [Next]_vars => [BridgeNext]_bridge BY StepIsABridgeStep
<1> QED BY <1>1, <1>2, PTL DEF Spec, BridgeSpec

(* No trade is executed twice for one action. *)
THEOREM TradesAreExecutedOnce == Spec => []AtMostOnce
BY BrainIsABridge, HandlersAreCalledOnce, PTL

---------------------------------------------------------------------------
(* The paper engine. *)

Position == [id: 1 .. MaxOpens, symbol: Symbols, size: Sizes]
ExitOf == [position: Position, gain: Gains]
CycleType == [step: {"idle", "prices", "exits", "traded", "deleted",
                     "entries", "opened"},
              by: Traders \cup {Timer, None},
              exits: SUBSET ExitOf, entries: SUBSET Symbols,
              at: ExitOf \cup Position \cup {None}]

(* What a cycle is at fits its step. *)
AtFits ==
  /\ cycle.step \in {"traded", "deleted"} => cycle.at \in ExitOf
  /\ cycle.step = "opened" => cycle.at \in Position

(* The symbols a cycle has still to enter are not held: what makes the      *)
(* check before its loop good for the whole of it.                          *)
EntriesAreFree ==
  cycle.step \in {"entries", "opened"} =>
    cycle.entries \cap SymbolsOf(positions) = {}

PaperInv ==
  PaperTypeOK /\ AtFits /\ EntriesAreFree /\ IsFiniteSet(positions) /\ PositionsInBounds

LEMMA PaperTypes ==
  PaperTypeOK <=> /\ balance \in Int /\ realised \in Int
                  /\ opened \in 0 .. MaxOpens /\ positions \subseteq Position
                  /\ cycle \in CycleType /\ mishaps \in Nat
BY DEF PaperTypeOK, Position, ExitOf, CycleType

LEMMA IdleType == Idle \in CycleType /\ Idle.step = "idle" /\ Idle.by = None
BY DEF Idle, CycleType

(* A step that opens no position: it keeps the types, what the cycle is at, *)
(* and the entries unless it chooses them.                                  *)
LEMMA NoOpenKeeps ==
  ASSUME PaperInv, PaperTypeOK', AtFits', positions' \subseteq positions,
         \/ cycle'.step \notin {"entries", "opened"}
         \/ cycle'.entries \cap SymbolsOf(positions) = {}
  PROVE  PaperInv'
<1>1. /\ IsFiniteSet(positions') /\ Cardinality(positions') <= Cardinality(positions)
  BY FS_Subset DEF PaperInv
<1>2. IsFiniteSet(positions) BY DEF PaperInv
<1>3. /\ Cardinality(positions) \in Nat /\ Cardinality(positions') \in Nat
      /\ MaxPositions \in Nat
  BY <1>1, <1>2, FS_CardinalityType, PaperAssumption
<1>4. Cardinality(positions') <= MaxPositions
  BY <1>1, <1>3 DEF PaperInv, PositionsInBounds
<1>5. PositionsInBounds' BY <1>4 DEF PaperInv, PositionsInBounds
<1>6. EntriesAreFree' BY DEF EntriesAreFree, SymbolsOf
<1> QED BY <1>1, <1>5, <1>6 DEF PaperInv

LEMMA BeginKeeps ==
  ASSUME PaperInv, NEW who \in Traders \cup {Timer}, Begin(who)
  PROVE  PaperInv'
<1>1. cycle \in CycleType BY PaperTypes DEF PaperInv
<1>2. CASE cycle.step = "idle"
  <2>1. cycle' = [Idle EXCEPT !.step = "prices", !.by = who] BY <1>2 DEF Begin
  <2>2. cycle' \in CycleType /\ cycle'.step = "prices"
    BY <2>1, IdleType DEF CycleType, Idle
  <2>3. PaperTypeOK' /\ AtFits'
    BY <2>2, PaperTypes DEF PaperInv, PaperTypeOK, Begin, books, Position, ExitOf,
       CycleType, AtFits
  <2> QED BY <2>2, <2>3, NoOpenKeeps DEF Begin, books
<1>3. CASE cycle.step # "idle"
  <2>1. UNCHANGED paper BY <1>3 DEF Begin, paper
  <2> QED
    BY <2>1 DEF PaperInv, PaperTypeOK, AtFits, EntriesAreFree, PositionsInBounds,
       SymbolsOf, paper, books
<1> QED BY <1>2, <1>3

(* A new cycle record has its type, step by step. *)
LEMMA CycleFacts ==
  ASSUME PaperInv
  PROVE  /\ cycle \in CycleType /\ positions \subseteq Position
         /\ balance \in Int /\ realised \in Int /\ opened \in 0 .. MaxOpens
         /\ mishaps \in Nat /\ AtFits /\ IsFiniteSet(positions)
BY PaperTypes DEF PaperInv

(* The end of a cycle, in any way, and the books as they are. *)
LEMMA IdleKeeps ==
  ASSUME PaperInv, cycle' = Idle, mishaps' \in Nat, UNCHANGED books
  PROVE  PaperInv'
<1>1. PaperTypeOK' BY CycleFacts, IdleType, PaperTypes DEF PaperTypeOK, books,
      CycleType, Position, ExitOf
<1>2. AtFits' BY IdleType DEF AtFits
<1> QED BY <1>1, <1>2, IdleType, NoOpenKeeps DEF books

LEMMA PricesKeeps ==
  ASSUME PaperInv, Prices
  PROVE  PaperInv'
<1>0. PICK out \in SUBSET positions : \E gain \in [out -> Gains] :
        cycle' = [cycle EXCEPT !.step = "exits",
                    !.exits = {[position |-> p, gain |-> gain[p]] : p \in out}]
  BY DEF Prices
<1>1. PICK gain \in [out -> Gains] :
        cycle' = [cycle EXCEPT !.step = "exits",
                    !.exits = {[position |-> p, gain |-> gain[p]] : p \in out}]
  BY <1>0
<1> DEFINE chosen == {[position |-> p, gain |-> gain[p]] : p \in out}
<1>2. chosen \subseteq ExitOf BY <1>1, CycleFacts DEF ExitOf
<1>3. cycle' = [cycle EXCEPT !.step = "exits", !.exits = chosen] BY <1>1
<1> HIDE DEF chosen
<1>4. cycle' \in CycleType /\ cycle'.step = "exits"
  BY <1>2, <1>3, CycleFacts DEF CycleType
<1>5. UNCHANGED <<books, mishaps>> BY DEF Prices
<1>6. PaperTypeOK' BY <1>4, <1>5, CycleFacts DEF PaperTypeOK, books, CycleType,
      Position, ExitOf
<1>7. AtFits' BY <1>4 DEF AtFits
<1> QED BY <1>4, <1>5, <1>6, <1>7, NoOpenKeeps DEF books

LEMMA RecordTradeKeeps ==
  ASSUME PaperInv, RecordTrade
  PROVE  PaperInv'
<1>1. PICK e \in cycle.exits :
        /\ cycle' = [cycle EXCEPT !.step = "traded", !.at = e]
        /\ realised' = realised + e.gain
  BY DEF RecordTrade
<1>2. e \in ExitOf BY <1>1, CycleFacts DEF CycleType
<1>3. cycle' \in CycleType /\ cycle'.step = "traded" /\ cycle'.at = e
  BY <1>1, <1>2, CycleFacts DEF CycleType
<1>4. realised' \in Int BY <1>1, <1>2, CycleFacts, PaperAssumption DEF ExitOf
<1>5. UNCHANGED <<balance, positions, opened, mishaps>> BY DEF RecordTrade
<1>6. PaperTypeOK' BY <1>3, <1>4, <1>5, CycleFacts DEF PaperTypeOK, CycleType,
      Position, ExitOf
<1>7. AtFits' BY <1>2, <1>3 DEF AtFits
<1> QED BY <1>3, <1>5, <1>6, <1>7, NoOpenKeeps

LEMMA DeletePositionKeeps ==
  ASSUME PaperInv, DeletePosition
  PROVE  PaperInv'
<1>1. cycle' = [cycle EXCEPT !.step = "deleted"] BY DEF DeletePosition
<1>2. cycle' \in CycleType /\ cycle'.step = "deleted" /\ cycle'.at = cycle.at
  BY <1>1, CycleFacts DEF CycleType
<1>3. positions' \subseteq positions BY DEF DeletePosition
<1>4. UNCHANGED <<balance, realised, opened, mishaps>> BY DEF DeletePosition
<1>5. PaperTypeOK' BY <1>2, <1>3, <1>4, CycleFacts DEF PaperTypeOK, CycleType,
      Position, ExitOf
<1>6. AtFits' BY <1>2, CycleFacts DEF AtFits, DeletePosition
<1> QED BY <1>2, <1>3, <1>5, <1>6, NoOpenKeeps

LEMMA CreditKeeps ==
  ASSUME PaperInv, Credit
  PROVE  PaperInv'
<1>1. cycle' = [cycle EXCEPT !.step = "exits", !.exits = @ \ {cycle.at}, !.at = None]
  BY DEF Credit
<1>2. cycle' \in CycleType /\ cycle'.step = "exits"
  BY <1>1, CycleFacts DEF CycleType
<1>3. cycle.at \in ExitOf BY CycleFacts DEF AtFits, Credit
<1>4. cycle.at.position.size \in Int /\ cycle.at.gain \in Int
  <2>1. cycle.at.position \in Position /\ cycle.at.gain \in Gains
    BY <1>3 DEF ExitOf
  <2>2. cycle.at.position.size \in Sizes BY <2>1 DEF Position
  <2>3. \A x \in Sizes : x \in Int BY PaperAssumption
  <2>4. \A x \in Gains : x \in Int BY PaperAssumption
  <2> QED BY <2>1, <2>2, <2>3, <2>4
<1>5. balance' \in Int BY <1>4, CycleFacts DEF Credit
<1>6. UNCHANGED <<positions, realised, opened, mishaps>> BY DEF Credit
<1>7. PaperTypeOK' BY <1>2, <1>5, <1>6, CycleFacts DEF PaperTypeOK, CycleType,
      Position, ExitOf
<1>8. AtFits' BY <1>2 DEF AtFits
<1> QED BY <1>2, <1>6, <1>7, <1>8, NoOpenKeeps

LEMMA EnterKeeps ==
  ASSUME PaperInv, Enter
  PROVE  PaperInv'
<1>1. PICK entered \in SUBSET (Symbols \ SymbolsOf(positions)) :
        cycle' = [cycle EXCEPT !.step = "entries", !.entries = entered]
  BY DEF Enter
<1>2. cycle' \in CycleType /\ cycle'.step = "entries" /\ cycle'.entries = entered
  BY <1>1, CycleFacts DEF CycleType
<1>3. UNCHANGED <<books, mishaps>> BY DEF Enter
<1>4. PaperTypeOK' BY <1>2, <1>3, CycleFacts DEF PaperTypeOK, books, CycleType,
      Position, ExitOf
<1>5. AtFits' BY <1>2 DEF AtFits
<1>6. cycle'.entries \cap SymbolsOf(positions) = {} BY <1>2
<1> QED BY <1>3, <1>4, <1>5, <1>6, NoOpenKeeps DEF books

(* The one step that opens a position: of a symbol that is free, and while *)
(* another position is allowed.                                            *)
LEMMA OpenKeeps ==
  ASSUME PaperInv, Open
  PROVE  PaperInv'
<1>1. PICK s \in cycle.entries, size \in Sizes :
        LET p == [id |-> opened + 1, symbol |-> s, size |-> size]
        IN /\ positions' = positions \cup {p}
           /\ cycle' = [cycle EXCEPT !.step = "opened", !.entries = @ \ {s}, !.at = p]
  BY DEF Open
<1> DEFINE p == [id |-> opened + 1, symbol |-> s, size |-> size]
<1>2. opened \in Nat /\ MaxOpens \in Nat /\ opened < MaxOpens /\ opened' = opened + 1
  BY CycleFacts, PaperAssumption DEF Open
<1>3. s \in Symbols BY <1>1, CycleFacts DEF CycleType
<1>4. opened + 1 \in 1 .. MaxOpens /\ opened' \in 0 .. MaxOpens BY <1>2
<1>5. p \in Position BY <1>3, <1>4 DEF Position
<1>6. p.symbol = s OBVIOUS
<1>7. /\ positions' = positions \cup {p}
      /\ cycle' = [cycle EXCEPT !.step = "opened", !.entries = @ \ {s}, !.at = p]
  BY <1>1
<1> HIDE DEF p
<1>8. /\ cycle' \in CycleType /\ cycle'.step = "opened" /\ cycle'.at = p
      /\ cycle'.entries = cycle.entries \ {s}
  BY <1>5, <1>7, CycleFacts DEF CycleType
<1>9. UNCHANGED <<balance, realised, mishaps>> BY DEF Open
<1>10. PaperTypeOK'
  BY <1>4, <1>5, <1>7, <1>8, <1>9, CycleFacts
  DEF PaperTypeOK, CycleType, Position, ExitOf
<1>11. AtFits' BY <1>5, <1>8 DEF AtFits
<1>12. s \notin SymbolsOf(positions) /\ cycle.entries \cap SymbolsOf(positions) = {}
  BY <1>1 DEF PaperInv, EntriesAreFree, Open
<1>13. SymbolsOf(positions') = SymbolsOf(positions) \cup {s}
  BY <1>6, <1>7 DEF SymbolsOf
<1>14. EntriesAreFree' BY <1>8, <1>12, <1>13 DEF EntriesAreFree
<1>15. /\ IsFiniteSet(positions')
       /\ Cardinality(positions') \in {Cardinality(positions), Cardinality(positions) + 1}
  BY <1>7, CycleFacts, FS_AddElement
<1>16. Cardinality(positions) \in Nat /\ MaxPositions \in Nat
       /\ Cardinality(positions) < MaxPositions
  BY CycleFacts, FS_CardinalityType, PaperAssumption DEF Open, CanOpen
<1>17. Cardinality(positions') <= MaxPositions BY <1>15, <1>16
<1>18. \A x, y \in positions' : x.symbol = y.symbol => x = y
  <2>1. \A q \in positions : q.symbol # s BY <1>12 DEF SymbolsOf
  <2> QED BY <1>6, <1>7, <2>1 DEF PaperInv, PositionsInBounds
<1>19. PositionsInBounds' BY <1>17, <1>18 DEF PositionsInBounds
<1> QED BY <1>10, <1>11, <1>14, <1>15, <1>19 DEF PaperInv

LEMMA DebitKeeps ==
  ASSUME PaperInv, Debit
  PROVE  PaperInv'
<1>1. cycle' = [cycle EXCEPT !.step = "entries", !.at = None] BY DEF Debit
<1>2. /\ cycle' \in CycleType /\ cycle'.step = "entries"
      /\ cycle'.entries = cycle.entries
  BY <1>1, CycleFacts DEF CycleType
<1>3. cycle.at.size \in Int
  BY CycleFacts, PaperAssumption DEF AtFits, Debit, Position
<1>4. balance' \in Int BY <1>3, CycleFacts DEF Debit
<1>5. UNCHANGED <<positions, realised, opened, mishaps>> BY DEF Debit
<1>6. PaperTypeOK' BY <1>2, <1>4, <1>5, CycleFacts DEF PaperTypeOK, CycleType,
      Position, ExitOf
<1>7. AtFits' BY <1>2 DEF AtFits
<1>8. cycle'.entries \cap SymbolsOf(positions) = {}
  BY <1>2 DEF PaperInv, EntriesAreFree, Debit
<1> QED BY <1>5, <1>6, <1>7, <1>8, NoOpenKeeps

LEMMA ResetKeeps ==
  ASSUME PaperInv, Reset
  PROVE  PaperInv'
<1>1. /\ cycle' = cycle /\ positions' = {} /\ balance' = Start /\ realised' = 0
      /\ UNCHANGED <<opened, mishaps>> /\ Waits
  BY DEF Reset
<1>2. PaperTypeOK' BY <1>1, CycleFacts, PaperAssumption DEF PaperTypeOK, CycleType,
      Position, ExitOf
<1>3. AtFits' BY <1>1, CycleFacts DEF AtFits
<1> QED BY <1>1, <1>2, <1>3, NoOpenKeeps DEF Waits

LEMMA CycleStepKeeps ==
  ASSUME PaperInv, CycleStep
  PROVE  PaperInv'
<1>1. CASE NoPrices BY <1>1, CycleFacts, IdleKeeps DEF NoPrices
<1>2. CASE End BY <1>2, CycleFacts, IdleKeeps DEF End
<1> QED
  BY <1>1, <1>2, PricesKeeps, RecordTradeKeeps, DeletePositionKeeps, CreditKeeps,
     EnterKeeps, OpenKeeps, DebitKeeps
  DEF CycleStep

---------------------------------------------------------------------------
(* A cycle that an action began has a handler that waits for it. *)
CycleAwaited == cycle.by \in Ids => \E c \in calls : c.action = cycle.by

IInv == BridgeInv /\ PaperInv /\ CycleAwaited

LEMMA NobodyIsNoAction == None \notin Ids /\ Timer \notin Ids
BY PaperAssumption, TradeAssumption

(* A handler is called: the engine is as it was, or its new cycle belongs   *)
(* to the call.                                                             *)
LEMMA HandlerKeeps ==
  ASSUME IInv, NEW a \in Ids, NEW by, Invoke(a, by), Handler(a)
  PROVE  PaperInv' /\ CycleAwaited'
<1>1. [action |-> a, by |-> by] \in calls' /\ calls \subseteq calls'
  BY DEF Invoke
<1>2. CASE UNCHANGED paper
  <2>1. PaperInv'
    BY <1>2 DEF IInv, PaperInv, PaperTypeOK, AtFits, EntriesAreFree,
       PositionsInBounds, SymbolsOf, paper, books
  <2> QED BY <1>1, <1>2, <2>1 DEF IInv, CycleAwaited, paper
<1>3. CASE Begin(a)
  <2>1. PaperInv' BY <1>3, BeginKeeps, TradeAssumption DEF IInv
  <2>2. cycle'.by \in {a, cycle.by} BY <1>3 DEF Begin, Idle
  <2> QED BY <1>1, <2>1, <2>2 DEF IInv, CycleAwaited
<1> QED BY <1>2, <1>3 DEF Handler

(* Every step of the engine keeps who its cycle belongs to, or ends it. *)
LEMMA CycleStepOwner ==
  ASSUME PaperInv, CycleStep
  PROVE  cycle'.by \in {cycle.by, None}
<1>1. cycle \in CycleType BY CycleFacts
<1> QED
  BY <1>1, IdleType
  DEF CycleType, CycleStep, NoPrices, Prices, RecordTrade, DeletePosition, Credit,
      Enter, Open, Debit, End

LEMMA PaperUnchangedKeeps ==
  ASSUME IInv, UNCHANGED paper,
         \A c \in calls : c.action = cycle.by => c \in calls'
  PROVE  PaperInv' /\ CycleAwaited'
BY DEF IInv, PaperInv, PaperTypeOK, AtFits, EntriesAreFree, PositionsInBounds,
   SymbolsOf, CycleAwaited, paper, books

LEMMA NextKeeps ==
  ASSUME IInv, [Next]_vars
  PROVE  IInv'
<1>1. BridgeInv' BY StepIsABridgeStep, BridgeNextKeeps DEF IInv
<1>2. CASE Proposes BY <1>1, <1>2, PaperUnchangedKeeps DEF Proposes, Propose, IInv
<1>3. ASSUME NEW w \in Walks, WalkGoesOn(w) PROVE IInv'
  <2>1. CASE StartWalk(w) /\ UNCHANGED paper
    BY <1>1, <2>1, PaperUnchangedKeeps DEF StartWalk, IInv
  <2>2. ASSUME NEW a \in Ids, WalkFindsNoHandler(w, a) \/ WalkSkips(w, a),
               UNCHANGED paper
        PROVE  IInv'
    BY <1>1, <2>2, PaperUnchangedKeeps DEF WalkFindsNoHandler, WalkSkips, IInv
  <2>3. ASSUME NEW a \in Ids, WalkInvokes(w, a), Handler(a) PROVE IInv'
    BY <1>1, <2>3, HandlerKeeps DEF WalkInvokes, IInv
  <2> QED BY <1>3, <2>1, <2>2, <2>3 DEF WalkGoesOn
<1>4. ASSUME NEW c \in calls, Settles(c) PROVE IInv'
  <2>1. cycle.by # c.action /\ calls' = calls \ {c} /\ UNCHANGED paper
    BY <1>4 DEF Settles, Through, HandlerSettles
  <2> QED BY <1>1, <2>1, PaperUnchangedKeeps DEF IInv
<1>5. ASSUME NEW a \in Ids, Operates(a) PROVE IInv'
  <2>1. CASE RouteInvokes(a) /\ Handler(a)
    BY <1>1, <2>1, HandlerKeeps DEF RouteInvokes, IInv
  <2>2. CASE /\ \/ RouteFindsNoHandler(a)
                \/ \E ok \in BOOLEAN : RecordOutcome(a, ok)
                \/ Rollback(a)
             /\ UNCHANGED paper
    BY <1>1, <2>2, PaperUnchangedKeeps
    DEF RouteFindsNoHandler, RecordOutcome, Rollback, IInv
  <2> QED BY <1>5, <2>1, <2>2 DEF Operates
<1>6. CASE Trades
  <2>1. calls' = calls BY <1>6 DEF Trades, bridge
  <2>2. CASE TimerCycle
    <3>1. PaperInv' BY <2>2, BeginKeeps DEF TimerCycle, IInv
    <3>2. cycle'.by = Timer BY <2>2 DEF TimerCycle, Begin, Idle
    <3> QED BY <1>1, <3>1, <3>2, NobodyIsNoAction DEF IInv, CycleAwaited
  <2>3. CASE CycleStep
    <3>1. PaperInv' BY <2>3, CycleStepKeeps DEF IInv
    <3>2. cycle'.by \in {cycle.by, None} BY <2>3, CycleStepOwner DEF IInv
    <3> QED BY <1>1, <2>1, <3>1, <3>2, NobodyIsNoAction DEF IInv, CycleAwaited
  <2>4. CASE Reset
    <3>1. PaperInv' BY <2>4, ResetKeeps DEF IInv
    <3>2. cycle' = cycle BY <2>4 DEF Reset
    <3> QED BY <1>1, <2>1, <3>1, <3>2 DEF IInv, CycleAwaited
  <2> QED BY <1>6, <2>2, <2>3, <2>4 DEF Trades
<1>7. CASE Throws \/ Crash
  <2>1. cycle' = Idle /\ UNCHANGED books /\ mishaps' = mishaps + 1
    BY <1>7 DEF Throws, Crash, StatementThrows, PaperCrash
  <2>2. PaperInv' BY <2>1, CycleFacts, IdleKeeps DEF IInv
  <2> QED BY <1>1, <2>1, <2>2, IdleType, NobodyIsNoAction DEF IInv, CycleAwaited
<1>8. CASE UNCHANGED vars
  BY <1>1, <1>8, PaperUnchangedKeeps DEF vars, bridge, IInv
<1> QED BY <1>2, <1>3, <1>4, <1>5, <1>6, <1>7, <1>8 DEF Next

LEMMA InitHolds == Init => IInv
<1> SUFFICES ASSUME Init PROVE IInv OBVIOUS
<1>1. BridgeInv BY BridgeInitHolds DEF Init
<1>2. PaperTypeOK /\ AtFits
  BY IdleType, PaperAssumption
  DEF Init, PaperInit, PaperTypeOK, AtFits, CycleType, Position, ExitOf
<1>3. IsFiniteSet(positions) /\ Cardinality(positions) = 0
  BY FS_EmptySet DEF Init, PaperInit
<1>4. PositionsInBounds
  BY <1>3, PaperAssumption DEF PositionsInBounds, Init, PaperInit
<1>5. EntriesAreFree BY IdleType DEF EntriesAreFree, Init, PaperInit
<1>6. CycleAwaited BY IdleType, NobodyIsNoAction DEF CycleAwaited, Init, PaperInit
<1> QED BY <1>1, <1>2, <1>3, <1>4, <1>5, <1>6 DEF IInv, PaperInv

LEMMA Invariant == Spec => []IInv
<1>1. Init => IInv BY InitHolds
<1>2. IInv /\ [Next]_vars => IInv' BY NextKeeps
<1> QED BY <1>1, <1>2, PTL DEF Spec

(* The types of both parts; and whoever's cycle is under way, a handler is  *)
(* waiting for it.                                                          *)
THEOREM TradingBrainTypes == Spec => []TypeOK
<1>1. IInv => TypeOK BY DEF IInv, BridgeInv, PaperInv, CycleAwaited, TypeOK
<1> QED BY <1>1, Invariant, PTL

(* maxPositions holds, and no symbol is held twice, however cycles, resets, *)
(* throwing statements and crashes follow each other: because the entries   *)
(* chosen before the loop of openings stay free throughout it.              *)
THEOREM PositionsAreBounded == Spec => []PositionsInBounds
<1>1. IInv => PositionsInBounds BY DEF IInv, PaperInv
<1> QED BY <1>1, Invariant, PTL
---------------------------------------------------------------------------
(* The books.  Between the statements of a closing or an opening they are   *)
(* off by what its remaining statements will write.                         *)
Owed ==
  CASE cycle.step = "traded"  -> cycle.at.gain
    [] cycle.step = "deleted" -> cycle.at.position.size + cycle.at.gain
    [] cycle.step = "opened"  -> -cycle.at.size
    [] OTHER                  -> 0

Losses == {IF g < 0 THEN -g ELSE g : g \in Gains}

Largest == Max(Sizes) + Max(Losses)

(* But for that, a mishap each may have cost the largest amount there is. *)
Books ==
  /\ Discrepancy + Owed <= mishaps * Largest
  /\ -(Discrepancy + Owed) <= mishaps * Largest

(* What a cycle is selling is held, once, until it deletes it. *)
ExitsAreHeld ==
  cycle.step \in {"exits", "traded", "deleted"} =>
    /\ \A e, f \in cycle.exits : e.position = f.position => e = f
    /\ \A e \in cycle.exits :
         e.position \in positions \/ (cycle.step = "deleted" /\ e = cycle.at)
    /\ cycle.step # "exits" => cycle.at \in cycle.exits

(* A position that is opened is a new one. *)
IdsAreSpent == \A p \in positions : p.id <= opened

BooksInv == Books /\ ExitsAreHeld /\ IdsAreSpent

HeldBy(ps) == SumFunction([p \in ps |-> p.size])

LEMMA AmountsAreIntegers ==
  /\ \A p \in Position : p.size \in Nat
  /\ \A e \in ExitOf : e.gain \in Int /\ e.position \in Position
<1>1. \A x \in Sizes : x \in Nat BY PaperAssumption
<1>2. \A x \in Gains : x \in Int BY PaperAssumption
<1> QED BY <1>1, <1>2 DEF Position, ExitOf

LEMMA HeldIsAnAmount ==
  ASSUME NEW ps \in SUBSET Position, IsFiniteSet(ps)
  PROVE  HeldBy(ps) \in Int
<1> DEFINE f == [p \in ps |-> p.size]
<1>1. \A p \in ps : f[p] \in Int BY AmountsAreIntegers
<1>2. DOMAIN f = ps OBVIOUS
<1> HIDE DEF f
<1>3. SumFunctionOnSet(f, ps) \in Int BY <1>1, SumAny
<1> QED BY <1>2, <1>3 DEF HeldBy, SumFunction, f

LEMMA HeldNothing == HeldBy({}) = 0
<1> DEFINE f == [p \in {} |-> p.size]
<1>1. DOMAIN f = {} OBVIOUS
<1> HIDE DEF f
<1>2. SumFunctionOnSet(f, {}) = 0 BY SumEmpty
<1> QED BY <1>1, <1>2 DEF f, HeldBy, SumFunction

LEMMA HeldMore ==
  ASSUME NEW ps \in SUBSET Position, IsFiniteSet(ps), NEW p \in Position, p \notin ps
  PROVE  HeldBy(ps \cup {p}) = HeldBy(ps) + p.size
<1> DEFINE qs == ps \cup {p}
           f == [q \in ps |-> q.size]
           g == [q \in qs |-> q.size]
<1>1. \A q \in ps : f[q] \in Nat /\ f[q] = g[q] /\ g[q] \in Int
  BY AmountsAreIntegers
<1>2. g[p] = p.size /\ g[p] \in Int BY AmountsAreIntegers
<1>3. DOMAIN f = ps /\ DOMAIN g = qs OBVIOUS
<1>4. HeldBy(ps) = SumFunctionOnSet(f, ps) BY <1>3 DEF HeldBy, SumFunction
<1>5. HeldBy(qs) = SumFunctionOnSet(g, qs) BY <1>3 DEF HeldBy, SumFunction
<1> HIDE DEF f, g
<1>6. SumFunctionOnSet(f, ps) = SumFunctionOnSet(g, ps) BY <1>1, SumSame
<1>7. SumFunctionOnSet(g, qs) = SumFunctionOnSet(g, ps) + g[p]
  BY <1>1, <1>2, SumInsert
<1> QED BY <1>2, <1>4, <1>5, <1>6, <1>7

LEMMA HeldLess ==
  ASSUME NEW ps \in SUBSET Position, IsFiniteSet(ps), NEW p \in ps
  PROVE  HeldBy(ps \ {p}) = HeldBy(ps) - p.size
<1> DEFINE qs == ps \ {p}
<1>1. qs \in SUBSET Position /\ p \in Position /\ p \notin qs /\ qs \cup {p} = ps
  OBVIOUS
<1>2. IsFiniteSet(qs) BY FS_RemoveElement
<1> HIDE DEF qs
<1>3. HeldBy(ps) = HeldBy(qs) + p.size BY <1>1, <1>2, HeldMore
<1>4. HeldBy(qs) \in Int /\ p.size \in Nat
  BY <1>1, <1>2, HeldIsAnAmount, AmountsAreIntegers
<1> QED BY <1>3, <1>4 DEF qs

(* The largest amount is at least that of every position and its gain. *)
LEMMA LargestIs ==
  /\ Largest \in Nat
  /\ \A s \in Sizes, g \in Gains :
       /\ s \in Nat /\ g \in Int /\ s + g <= Largest /\ -(s + g) <= Largest
       /\ s <= Largest /\ g <= Largest /\ -g <= Largest
<1>1. IsFiniteSet(Sizes) /\ Sizes # {} /\ \A s \in Sizes : s \in Nat
  BY PaperAssumption
<1>2. IsFiniteSet(Gains) /\ Gains # {} /\ \A g \in Gains : g \in Int
  BY PaperAssumption
<1> DEFINE loss(g) == IF g < 0 THEN -g ELSE g
<1>3. \A g \in Gains : loss(g) \in Nat BY <1>2
<1>4. Losses = {loss(g) : g \in Gains} BY DEF Losses
<1>5. IsFiniteSet(Losses)
  <2> DEFINE h == [g \in Gains |-> loss(g)]
  <2>1. Losses = {h[g] : g \in Gains} BY <1>4
  <2> HIDE DEF h
  <2> QED BY <1>2, <2>1, ImageIsFinite
<1>6. Losses # {} /\ \A l \in Losses : l \in Nat
  <2> HIDE DEF loss
  <2> QED BY <1>2, <1>3, <1>4
<1>7. Max(Sizes) \in Sizes /\ \A s \in Sizes : Max(Sizes) >= s
  BY <1>1, Greatest DEF Max
<1>8. Max(Losses) \in Losses /\ \A l \in Losses : Max(Losses) >= l
  BY <1>5, <1>6, Greatest DEF Max
<1>9. Max(Sizes) \in Nat /\ Max(Losses) \in Nat BY <1>1, <1>6, <1>7, <1>8
<1>10. Largest \in Nat BY <1>9 DEF Largest
<1>11. ASSUME NEW s \in Sizes, NEW g \in Gains
       PROVE  /\ s \in Nat /\ g \in Int /\ s + g <= Largest /\ -(s + g) <= Largest
              /\ s <= Largest /\ g <= Largest /\ -g <= Largest
  <2>1. s \in Nat /\ g \in Int /\ Max(Sizes) >= s BY <1>1, <1>2, <1>7
  <2>2. Max(Losses) >= loss(g)
    <3> HIDE DEF loss
    <3> QED BY <1>4, <1>8
  <2>3. Max(Losses) >= g /\ Max(Losses) >= -g BY <1>9, <2>1, <2>2
  <2> QED BY <1>9, <2>1, <2>3 DEF Largest
<1> QED BY <1>10, <1>11

LEMMA OneMore ==
  ASSUME NEW m \in Nat, NEW n \in Nat
  PROVE  m * n \in Nat /\ (m + 1) * n = m * n + n
OBVIOUS

(* What a step leaves of the books. *)
LEMMA BooksKept ==
  ASSUME Books, mishaps' = mishaps, (Discrepancy + Owed)' = Discrepancy + Owed
  PROVE  Books'
BY DEF Books, Largest, Losses

LEMMA BooksFacts ==
  ASSUME PaperInv
  PROVE  /\ Discrepancy = balance + HeldBy(positions) - Start - realised
         /\ HeldBy(positions) \in Int /\ Start \in Int /\ Discrepancy \in Int
<1>1. HeldBy(positions) \in Int BY CycleFacts, HeldIsAnAmount
<1>2. Discrepancy = balance + HeldBy(positions) - Start - realised
  BY DEF Discrepancy, Held, HeldBy
<1> QED BY <1>1, <1>2, CycleFacts, PaperAssumption

(* A cycle ends between two of its statements, or is not under way. *)
LEMMA OwedNothing ==
  ASSUME cycle.step \notin {"traded", "deleted", "opened"}
  PROVE  Owed = 0
BY DEF Owed

LEMMA QuietStepKeepsBooks ==
  ASSUME BooksInv, UNCHANGED <<books, mishaps>>,
         cycle.step \notin {"traded", "deleted", "opened"},
         cycle'.step \notin {"traded", "deleted", "opened"},
         ExitsAreHeld'
  PROVE  BooksInv'
<1>1. Owed = 0 BY OwedNothing
<1>2. Owed' = 0 BY DEF Owed
<1>3. Discrepancy' = Discrepancy BY DEF books, Discrepancy, Held
<1>4. Books' BY <1>1, <1>2, <1>3, BooksKept DEF BooksInv
<1>5. IdsAreSpent' BY DEF BooksInv, IdsAreSpent, books
<1> QED BY <1>4, <1>5 DEF BooksInv

LEMMA RecordTradeKeepsBooks ==
  ASSUME PaperInv, BooksInv, RecordTrade
  PROVE  BooksInv'
<1>1. PICK e \in cycle.exits :
        /\ cycle' = [cycle EXCEPT !.step = "traded", !.at = e]
        /\ realised' = realised + e.gain
  BY DEF RecordTrade
<1>2. e \in ExitOf BY <1>1, CycleFacts DEF CycleType
<1>3. /\ cycle'.step = "traded" /\ cycle'.at = e /\ cycle'.exits = cycle.exits
      /\ cycle.step = "exits"
  BY <1>1, CycleFacts DEF CycleType, RecordTrade
<1>4. UNCHANGED <<balance, positions, opened, mishaps>> BY DEF RecordTrade
<1>5. e.gain \in Int BY <1>2, AmountsAreIntegers
<1>6. Owed = 0 /\ Owed' = e.gain BY <1>3 DEF Owed
<1>7. Discrepancy' = balance + HeldBy(positions) - Start - (realised + e.gain)
  BY <1>1, <1>4 DEF Discrepancy, Held, HeldBy
<1>8. (Discrepancy + Owed)' = Discrepancy + Owed
  BY <1>5, <1>6, <1>7, BooksFacts, CycleFacts
<1>9. Books' BY <1>4, <1>8, BooksKept DEF BooksInv
<1>10. ExitsAreHeld' BY <1>1, <1>3, <1>4 DEF BooksInv, ExitsAreHeld
<1>11. IdsAreSpent' BY <1>4 DEF BooksInv, IdsAreSpent
<1> QED BY <1>9, <1>10, <1>11 DEF BooksInv

LEMMA DeletePositionKeepsBooks ==
  ASSUME PaperInv, BooksInv, DeletePosition
  PROVE  BooksInv'
<1> DEFINE e == cycle.at
<1>1. /\ cycle' = [cycle EXCEPT !.step = "deleted"] /\ cycle.step = "traded"
      /\ positions' = positions \ {e.position}
  BY DEF DeletePosition
<1>2. /\ cycle'.step = "deleted" /\ cycle'.at = e /\ cycle'.exits = cycle.exits
  BY <1>1, CycleFacts DEF CycleType
<1>3. UNCHANGED <<balance, realised, opened, mishaps>> BY DEF DeletePosition
<1>4. e \in ExitOf BY <1>1, CycleFacts DEF AtFits
<1>5. e \in cycle.exits /\ e.position \in positions
  BY <1>1 DEF BooksInv, ExitsAreHeld
<1>6. e.gain \in Int /\ e.position.size \in Int BY <1>4, AmountsAreIntegers
<1>7. Owed = e.gain /\ Owed' = e.position.size + e.gain BY <1>1, <1>2 DEF Owed
<1> HIDE DEF e
<1>8. HeldBy(positions') = HeldBy(positions) - e.position.size
  BY <1>1, <1>5, HeldLess, CycleFacts
<1>9. Discrepancy' = balance + HeldBy(positions') - Start - realised
  BY <1>3 DEF Discrepancy, Held, HeldBy
<1>10. (Discrepancy + Owed)' = Discrepancy + Owed
  <2> DEFINE h == HeldBy(positions)
             x == e.position.size
  <2>1. h \in Int /\ x \in Int /\ Discrepancy = balance + h - Start - realised
    BY <1>6, BooksFacts
  <2>2. Discrepancy' = balance + (h - x) - Start - realised BY <1>8, <1>9
  <2>3. Owed' = x + e.gain BY <1>7
  <2> HIDE DEF h, x
  <2> QED BY <1>6, <1>7, <2>1, <2>2, <2>3, BooksFacts, CycleFacts
<1>11. Books' BY <1>3, <1>10, BooksKept DEF BooksInv
<1>12. ExitsAreHeld'
  BY <1>1, <1>2, <1>5 DEF BooksInv, ExitsAreHeld
<1>13. IdsAreSpent' BY <1>1, <1>3 DEF BooksInv, IdsAreSpent
<1> QED BY <1>11, <1>12, <1>13 DEF BooksInv

LEMMA CreditKeepsBooks ==
  ASSUME PaperInv, BooksInv, Credit
  PROVE  BooksInv'
<1> DEFINE e == cycle.at
<1>1. /\ cycle' = [cycle EXCEPT !.step = "exits", !.exits = @ \ {e}, !.at = None]
      /\ cycle.step = "deleted"
      /\ balance' = balance + e.position.size + e.gain
  BY DEF Credit
<1>2. cycle'.step = "exits" /\ cycle'.exits = cycle.exits \ {e}
  BY <1>1, CycleFacts DEF CycleType
<1>3. UNCHANGED <<positions, realised, opened, mishaps>> BY DEF Credit
<1>4. e \in ExitOf BY <1>1, CycleFacts DEF AtFits
<1>5. e.gain \in Int /\ e.position.size \in Int BY <1>4, AmountsAreIntegers
<1>6. Owed = e.position.size + e.gain /\ Owed' = 0 BY <1>1, <1>2 DEF Owed
<1>12. ExitsAreHeld' BY <1>1, <1>2, <1>3 DEF BooksInv, ExitsAreHeld
<1> HIDE DEF e
<1>7. Discrepancy' = balance + e.position.size + e.gain + HeldBy(positions) - Start - realised
  BY <1>1, <1>3 DEF Discrepancy, Held, HeldBy
<1>10. (Discrepancy + Owed)' = Discrepancy + Owed
  BY <1>5, <1>6, <1>7, BooksFacts, CycleFacts
<1>11. Books' BY <1>3, <1>10, BooksKept DEF BooksInv
<1>13. IdsAreSpent' BY <1>3 DEF BooksInv, IdsAreSpent
<1> QED BY <1>11, <1>12, <1>13 DEF BooksInv

LEMMA OpenKeepsBooks ==
  ASSUME PaperInv, BooksInv, Open
  PROVE  BooksInv'
<1>1. PICK s \in cycle.entries, size \in Sizes :
        LET p == [id |-> opened + 1, symbol |-> s, size |-> size]
        IN /\ positions' = positions \cup {p}
           /\ cycle' = [cycle EXCEPT !.step = "opened", !.entries = @ \ {s}, !.at = p]
  BY DEF Open
<1> DEFINE p == [id |-> opened + 1, symbol |-> s, size |-> size]
<1>2. opened \in Nat /\ MaxOpens \in Nat /\ opened < MaxOpens /\ opened' = opened + 1
  BY CycleFacts, PaperAssumption DEF Open
<1>3. s \in Symbols /\ opened + 1 \in 1 .. MaxOpens
  BY <1>1, <1>2, CycleFacts DEF CycleType
<1>4. p \in Position /\ p.id = opened + 1 BY <1>3 DEF Position
<1>5. /\ positions' = positions \cup {p}
      /\ cycle' = [cycle EXCEPT !.step = "opened", !.entries = @ \ {s}, !.at = p]
  BY <1>1
<1> HIDE DEF p
<1>6. \A q \in positions : q.id \in Nat /\ q.id <= opened
  BY <1>2, CycleFacts DEF BooksInv, IdsAreSpent, Position
<1>7. p \notin positions BY <1>2, <1>4, <1>6
<1>8. cycle'.step = "opened" /\ cycle'.at = p /\ cycle.step = "entries"
  BY <1>5, CycleFacts DEF CycleType, Open
<1>9. UNCHANGED <<balance, realised, mishaps>> BY DEF Open
<1>10. p.size \in Int BY <1>4, AmountsAreIntegers
<1>11. Owed = 0 /\ Owed' = -p.size BY <1>8 DEF Owed
<1>12. HeldBy(positions') = HeldBy(positions) + p.size
  BY <1>4, <1>5, <1>7, HeldMore, CycleFacts
<1>13. Discrepancy' = balance + HeldBy(positions') - Start - realised
  BY <1>9 DEF Discrepancy, Held, HeldBy
<1>14. (Discrepancy + Owed)' = Discrepancy + Owed
  BY <1>10, <1>11, <1>12, <1>13, BooksFacts, CycleFacts
<1>15. Books' BY <1>9, <1>14, BooksKept DEF BooksInv
<1>16. ExitsAreHeld' BY <1>8 DEF ExitsAreHeld
<1>17. IdsAreSpent'
  <2>1. \A q \in positions : q.id <= opened + 1 BY <1>2, <1>6
  <2> QED BY <1>2, <1>4, <1>5, <2>1 DEF IdsAreSpent
<1> QED BY <1>15, <1>16, <1>17 DEF BooksInv

LEMMA DebitKeepsBooks ==
  ASSUME PaperInv, BooksInv, Debit
  PROVE  BooksInv'
<1> DEFINE p == cycle.at
<1>1. /\ cycle' = [cycle EXCEPT !.step = "entries", !.at = None]
      /\ cycle.step = "opened" /\ balance' = balance - p.size
  BY DEF Debit
<1>2. cycle'.step = "entries" BY <1>1, CycleFacts DEF CycleType
<1>3. UNCHANGED <<positions, realised, opened, mishaps>> BY DEF Debit
<1>4. p \in Position BY <1>1, CycleFacts DEF AtFits
<1>5. p.size \in Int BY <1>4, AmountsAreIntegers
<1>6. Owed = -p.size /\ Owed' = 0 BY <1>1, <1>2 DEF Owed
<1> HIDE DEF p
<1>7. Discrepancy' = balance - p.size + HeldBy(positions) - Start - realised
  BY <1>1, <1>3 DEF Discrepancy, Held, HeldBy
<1>8. (Discrepancy + Owed)' = Discrepancy + Owed
  BY <1>5, <1>6, <1>7, BooksFacts, CycleFacts
<1>9. Books' BY <1>3, <1>8, BooksKept DEF BooksInv
<1>10. ExitsAreHeld' BY <1>2 DEF ExitsAreHeld
<1>11. IdsAreSpent' BY <1>3 DEF BooksInv, IdsAreSpent
<1> QED BY <1>9, <1>10, <1>11 DEF BooksInv

LEMMA PricesKeepsBooks ==
  ASSUME PaperInv, BooksInv, Prices
  PROVE  BooksInv'
<1>1. PICK out \in SUBSET positions : \E gain \in [out -> Gains] :
        cycle' = [cycle EXCEPT !.step = "exits",
                    !.exits = {[position |-> p, gain |-> gain[p]] : p \in out}]
  BY DEF Prices
<1>2. PICK gain \in [out -> Gains] :
        cycle' = [cycle EXCEPT !.step = "exits",
                    !.exits = {[position |-> p, gain |-> gain[p]] : p \in out}]
  BY <1>1
<1> DEFINE chosen == {[position |-> p, gain |-> gain[p]] : p \in out}
<1>3. \A e \in chosen : e.position \in positions /\ e.gain = gain[e.position]
  OBVIOUS
<1>4. \A e, f \in chosen : e.position = f.position => e = f OBVIOUS
<1>5. cycle' = [cycle EXCEPT !.step = "exits", !.exits = chosen] BY <1>2
<1> HIDE DEF chosen
<1>6. cycle'.step = "exits" /\ cycle'.exits = chosen
  BY <1>5, CycleFacts DEF CycleType
<1>7. UNCHANGED <<books, mishaps>> /\ cycle.step = "prices" BY DEF Prices
<1>8. ExitsAreHeld' BY <1>3, <1>4, <1>6, <1>7 DEF ExitsAreHeld, books
<1> QED BY <1>6, <1>7, <1>8, QuietStepKeepsBooks

(* A cycle is cut off, or comes to its end: what it owed is not written. *)
LEMMA MishapKeepsBooks ==
  ASSUME PaperInv, BooksInv, cycle' = Idle, UNCHANGED books, mishaps' = mishaps + 1
  PROVE  BooksInv'
<1>1. mishaps \in Nat /\ Largest \in Nat BY CycleFacts, LargestIs
<1>2. (mishaps + 1) * Largest = mishaps * Largest + Largest /\ mishaps * Largest \in Nat
  BY <1>1, OneMore
<1>3. Owed' = 0 BY IdleType DEF Owed
<1>4. Discrepancy' = Discrepancy /\ Discrepancy \in Int
  BY BooksFacts DEF books, Discrepancy, Held
<1>5. Owed \in Int /\ Owed <= Largest /\ -Owed <= Largest
  <2>1. PICK g \in Gains : TRUE BY PaperAssumption
  <2>2. CASE cycle.step = "traded"
    <3>1. cycle.at \in ExitOf BY <2>2, CycleFacts DEF AtFits
    <3>2. Owed = cycle.at.gain BY <2>2 DEF Owed
    <3>3. cycle.at.gain \in Gains BY <3>1 DEF ExitOf
    <3>4. PICK s \in Sizes : TRUE BY PaperAssumption
    <3> QED BY <3>2, <3>3, <3>4, <1>1, LargestIs
  <2>3. CASE cycle.step = "deleted"
    <3>1. cycle.at \in ExitOf BY <2>3, CycleFacts DEF AtFits
    <3>2. Owed = cycle.at.position.size + cycle.at.gain BY <2>3 DEF Owed
    <3>3. cycle.at.position.size \in Sizes /\ cycle.at.gain \in Gains
      BY <3>1 DEF ExitOf, Position
    <3> QED BY <3>2, <3>3, <1>1, LargestIs
  <2>4. CASE cycle.step = "opened"
    <3>1. cycle.at \in Position BY <2>4, CycleFacts DEF AtFits
    <3>2. Owed = -cycle.at.size BY <2>4 DEF Owed
    <3>3. cycle.at.size \in Sizes BY <3>1 DEF Position
    <3>4. cycle.at.size \in Nat /\ cycle.at.size <= Largest
      BY <2>1, <3>3, LargestIs
    <3> QED BY <3>2, <3>4, <1>1
  <2>5. CASE cycle.step \notin {"traded", "deleted", "opened"}
    BY <2>5, <1>1, OwedNothing
  <2> QED BY <2>2, <2>3, <2>4, <2>5
<1>6. Books'
  <2> DEFINE d == Discrepancy
             o == Owed
             l == Largest
             b == mishaps * Largest
  <2>1. d \in Int /\ o \in Int /\ l \in Nat /\ b \in Nat BY <1>1, <1>2, <1>4, <1>5
  <2>2. o <= l /\ -o <= l BY <1>5
  <2>3. d + o <= b /\ -(d + o) <= b BY DEF BooksInv, Books
  <2> HIDE DEF d, o, l, b
  <2>4. d <= b + l /\ -d <= b + l BY <2>1, <2>2, <2>3
  <2>5. (Discrepancy + Owed)' = d BY <1>3, <1>4 DEF d
  <2>6. (mishaps * Largest)' = b + l
    <3>1. Largest' = Largest BY DEF Largest, Losses
    <3>2. (mishaps * Largest)' = (mishaps + 1) * Largest BY <3>1
    <3> QED BY <1>2, <3>2 DEF b, l
  <2>7. d <= b + l /\ -d <= b + l <=> Books' BY <2>5, <2>6 DEF Books
  <2> QED BY <2>4, <2>7
<1>7. ExitsAreHeld' BY IdleType DEF ExitsAreHeld
<1>8. IdsAreSpent' BY DEF BooksInv, IdsAreSpent, books
<1> QED BY <1>6, <1>7, <1>8 DEF BooksInv

LEMMA ResetKeepsBooks ==
  ASSUME PaperInv, BooksInv, Reset
  PROVE  BooksInv'
<1>1. /\ cycle' = cycle /\ positions' = {} /\ balance' = Start /\ realised' = 0
      /\ mishaps' = mishaps /\ Waits
  BY DEF Reset
<1>2. cycle.step \notin {"exits", "traded", "deleted", "opened"} BY <1>1 DEF Waits
<1>3. Owed' = 0 BY <1>1, <1>2 DEF Owed
<1>4. HeldBy({}) = 0 BY HeldNothing
<1>5. Start \in Int BY PaperAssumption
<1>6. Discrepancy' = Start + HeldBy({}) - Start - 0
  BY <1>1 DEF Discrepancy, Held, HeldBy
<1>7. (Discrepancy + Owed)' = 0 BY <1>3, <1>4, <1>5, <1>6
<1>8. mishaps * Largest \in Nat BY CycleFacts, LargestIs, OneMore
<1>9. (mishaps * Largest)' = mishaps * Largest BY <1>1 DEF Largest, Losses
<1>10. Books' BY <1>7, <1>8, <1>9 DEF Books
<1>11. ExitsAreHeld' BY <1>1, <1>2 DEF ExitsAreHeld
<1>12. IdsAreSpent' BY <1>1 DEF IdsAreSpent
<1> QED BY <1>10, <1>11, <1>12 DEF BooksInv

LEMMA CycleStepKeepsBooks ==
  ASSUME PaperInv, BooksInv, CycleStep
  PROVE  BooksInv'
<1>1. CASE NoPrices \/ End
  <2>1. cycle' = Idle /\ UNCHANGED <<books, mishaps>> BY <1>1 DEF NoPrices, End
  <2>2. cycle.step \notin {"traded", "deleted", "opened"} BY <1>1 DEF NoPrices, End
  <2>3. ExitsAreHeld' BY <2>1, IdleType DEF ExitsAreHeld
  <2> QED BY <2>1, <2>2, <2>3, IdleType, QuietStepKeepsBooks
<1>2. CASE Enter
  <2>1. PICK entered \in SUBSET (Symbols \ SymbolsOf(positions)) :
          cycle' = [cycle EXCEPT !.step = "entries", !.entries = entered]
    BY <1>2 DEF Enter
  <2>2. cycle'.step = "entries" BY <2>1, CycleFacts DEF CycleType
  <2>3. ExitsAreHeld' BY <2>2 DEF ExitsAreHeld
  <2> QED BY <1>2, <2>2, <2>3, QuietStepKeepsBooks DEF Enter
<1> QED
  BY <1>1, <1>2, PricesKeepsBooks, RecordTradeKeepsBooks, DeletePositionKeepsBooks,
     CreditKeepsBooks, OpenKeepsBooks, DebitKeepsBooks
  DEF CycleStep

LEMMA BeginKeepsBooks ==
  ASSUME PaperInv, BooksInv, NEW who, Begin(who)
  PROVE  BooksInv'
<1>1. UNCHANGED <<books, mishaps>> BY DEF Begin
<1>2. CASE cycle.step = "idle"
  <2>1. cycle'.step = "prices" BY <1>2 DEF Begin, Idle
  <2>2. ExitsAreHeld' BY <2>1 DEF ExitsAreHeld
  <2> QED BY <1>1, <1>2, <2>1, <2>2, QuietStepKeepsBooks
<1>3. CASE cycle.step # "idle"
  <2>1. cycle' = cycle BY <1>3 DEF Begin
  <2> QED
    BY <1>1, <2>1
    DEF BooksInv, Books, ExitsAreHeld, IdsAreSpent, Discrepancy, Held, Owed, Largest,
        Losses, books
<1> QED BY <1>2, <1>3

LEMMA SameBooks ==
  ASSUME BooksInv, UNCHANGED paper
  PROVE  BooksInv'
BY DEF BooksInv, Books, ExitsAreHeld, IdsAreSpent, Discrepancy, Held, Owed, Largest,
   Losses, paper, books

LEMMA NextKeepsBooks ==
  ASSUME IInv, BooksInv, [Next]_vars
  PROVE  BooksInv'
<1>1. PaperInv BY DEF IInv
<1>2. ASSUME NEW a, Handler(a) PROVE BooksInv'
  BY <1>1, <1>2, BeginKeepsBooks, SameBooks DEF Handler
<1>3. CASE UNCHANGED paper BY <1>3, SameBooks
<1>4. CASE Trades
  BY <1>1, <1>4, BeginKeepsBooks, CycleStepKeepsBooks, ResetKeepsBooks
  DEF Trades, TimerCycle
<1>5. CASE Throws \/ Crash
  BY <1>1, <1>5, MishapKeepsBooks DEF Throws, Crash, StatementThrows, PaperCrash
<1>6. ASSUME NEW w \in Walks, WalkGoesOn(w) PROVE BooksInv'
  BY <1>2, <1>3, <1>6 DEF WalkGoesOn
<1>7. ASSUME NEW a \in Ids, Operates(a) PROVE BooksInv'
  BY <1>2, <1>3, <1>7 DEF Operates
<1> QED
  BY <1>3, <1>4, <1>5, <1>6, <1>7 DEF Next, Proposes, Settles, vars

LEMMA InitBalances == Init => BooksInv
<1> SUFFICES ASSUME Init PROVE BooksInv OBVIOUS
<1>1. /\ balance = Start /\ positions = {} /\ realised = 0 /\ mishaps = 0
      /\ cycle = Idle
  BY DEF Init, PaperInit
<1>2. Owed = 0 BY <1>1, IdleType DEF Owed
<1>3. HeldBy({}) = 0 BY HeldNothing
<1>4. Discrepancy = Start + HeldBy({}) - Start - 0
  BY <1>1 DEF Discrepancy, Held, HeldBy
<1>5. Start \in Int BY PaperAssumption
<1>6. Discrepancy + Owed = 0 BY <1>2, <1>3, <1>4, <1>5
<1>7. mishaps * Largest \in Nat BY <1>1, LargestIs, OneMore
<1>8. Books BY <1>6, <1>7 DEF Books
<1> QED BY <1>1, <1>8, IdleType DEF BooksInv, ExitsAreHeld, IdsAreSpent

(* Money is neither made nor lost but by mishaps, each of which costs or    *)
(* gives the largest amount of a position and its gain at most: whatever    *)
(* the amounts, the number of positions and the order of cycles, resets,    *)
(* throwing statements and crashes.                                         *)
THEOREM BooksAreBalanced == Spec => []BooksBalance
<1>1. Init => BooksInv BY InitBalances
<1>2. IInv /\ BooksInv /\ [Next]_vars => BooksInv' BY NextKeepsBooks
<1>3. ASSUME IInv, BooksInv PROVE BooksBalance
  <2> SUFFICES ASSUME Waits
      PROVE (IF Discrepancy < 0 THEN -Discrepancy ELSE Discrepancy) <= mishaps * Largest
    BY DEF BooksBalance, Largest, Losses
  <2>1. Owed = 0 BY OwedNothing DEF Waits
  <2>2. Discrepancy \in Int BY <1>3, BooksFacts DEF IInv
  <2>3. Discrepancy <= mishaps * Largest /\ -Discrepancy <= mishaps * Largest
    BY <1>3, <2>1, <2>2 DEF BooksInv, Books
  <2> QED BY <2>2, <2>3
<1> QED BY <1>1, <1>2, <1>3, Invariant, PTL DEF Spec
===========================================================================
