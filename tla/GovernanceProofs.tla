------------------------- MODULE GovernanceProofs -------------------------
(***************************************************************************)
(* Proofs about Governance for every set of engines, every period, window, *)
(* limit and bound.  The lemmas follow the row writers and the stages of   *)
(* review; the theorems lift them to the steps of the specification.       *)
(***************************************************************************)
EXTENDS Governance, SequenceTheorems, WellFoundedInduction, TLAPS

---------------------------------------------------------------------------
(* Rows as a history. *)

Rows == Seq(Row)

(* Growth from r to s: s is a table that r can become. *)
Grows(r, s) == s \in Rows /\ HistoryOf(r, s)

(* A table is a history of itself. *)
LEMMA GrowsReflexive == ASSUME NEW r \in Rows PROVE Grows(r, r)
BY DEF Grows, HistoryOf, RowKept

(* Histories compose: the stages of a review run one after another. *)
LEMMA GrowsTransitive ==
  ASSUME NEW r \in Rows, NEW s \in Rows, NEW t \in Rows, Grows(r, s), Grows(s, t)
  PROVE  Grows(r, t)
<1>1. Len(r) \in Nat /\ Len(s) \in Nat /\ Len(t) \in Nat
  BY LenProperties DEF Rows
<1>2. DOMAIN r = 1..Len(r) /\ DOMAIN s = 1..Len(s)
  BY LenProperties DEF Rows
<1>3. Len(r) <= Len(t)
  BY <1>1 DEF Grows, HistoryOf
<1>4. ASSUME NEW i \in DOMAIN r PROVE RowKept(r[i], t[i])
  <2>1. i \in DOMAIN s BY <1>1, <1>2 DEF Grows, HistoryOf
  <2>2. RowKept(r[i], s[i]) /\ RowKept(s[i], t[i]) BY <2>1 DEF Grows, HistoryOf
  <2> QED BY <2>2 DEF RowKept
<1> QED BY <1>3, <1>4 DEF Grows, HistoryOf

(* A fresh decision is a row of the table. *)
LEMMA NewRowType ==
  ASSUME NEW t \in ActionTypes, NEW x \in Nat \cup {NoExpiry}, NEW c \in Nat
  PROVE  NewRow(t, x, c) \in Row
BY DEF NewRow, Row

(* INSERT keeps what is there. *)
LEMMA RecordGrows ==
  ASSUME NEW r \in Rows, NEW t \in ActionTypes, NEW x \in Nat \cup {NoExpiry},
         NEW c \in Nat
  PROVE  Grows(r, Record(r, t, x, c))
<1> DEFINE new == NewRow(t, x, c)
<1>1. new \in Row BY NewRowType
<1>2. /\ Append(r, new) \in Seq(Row)
      /\ Len(Append(r, new)) = Len(r) + 1
      /\ \A i \in 1..Len(r) : Append(r, new)[i] = r[i]
  BY <1>1 DEF Rows
<1>3. Len(r) \in Nat /\ DOMAIN r = 1..Len(r) BY LenProperties DEF Rows
<1>4. Record(r, t, x, c) = Append(r, new) BY DEF Record
<1> HIDE DEF new
<1> QED BY <1>2, <1>3, <1>4 DEF Grows, HistoryOf, RowKept, Rows

(* UPDATE ... SET active = 0 only retires. *)
LEMMA RetireGrows == ASSUME NEW r \in Rows PROVE Grows(r, Retire(r))
<1>1. Len(r) \in Nat /\ DOMAIN r = 1..Len(r) BY LenProperties DEF Rows
<1>2. \A i \in DOMAIN r : r[i] \in Row BY <1>1, ElementOfSeq DEF Rows
<1>3. \A i \in DOMAIN r : [r[i] EXCEPT !.active = FALSE] \in Row BY <1>2 DEF Row
<1>4. Retire(r) \in [1..Len(r) -> Row] BY <1>1, <1>3 DEF Retire
<1>5. Retire(r) \in Seq(Row) BY <1>1, <1>4, SeqDef
<1>6. Len(Retire(r)) = Len(r) BY <1>1, <1>4, <1>5
<1>7. \A i \in DOMAIN r : RowKept(r[i], Retire(r)[i])
  BY <1>2 DEF Retire, RowKept, Row
<1> QED BY <1>1, <1>5, <1>6, <1>7 DEF Grows, HistoryOf, Rows

(* A restore retires, then inserts. *)
LEMMA RestoredGrows ==
  ASSUME NEW r \in Rows, NEW c \in Nat PROVE Grows(r, Restored(r, c))
<1>1. Grows(r, Retire(r)) BY RetireGrows
<1>2. Grows(Retire(r), Record(Retire(r), "restore", NoExpiry, c))
  BY <1>1, RecordGrows DEF Grows, ActionTypes
<1> QED BY <1>1, <1>2, GrowsTransitive DEF Restored, Grows

(* shouldRun inserts nothing and retires at most one row. *)
LEMMA ExpireOnAskGrows == ASSUME NEW r \in Rows PROVE Grows(r, ExpireOnAsk(r))
<1>1. CASE Active(r, "cooldown") = {} BY <1>1, GrowsReflexive DEF ExpireOnAsk
<1>2. CASE Active(r, "cooldown") # {}
  <2> DEFINE k == FirstCooldown(r)
             s == [r EXCEPT ![k].active = FALSE]
  <2>1. Len(r) \in Nat /\ DOMAIN r = 1..Len(r) /\ r \in [1..Len(r) -> Row]
    BY LenProperties DEF Rows
  <2>2. s = [i \in 1..Len(r) |-> IF i = k THEN [r[i] EXCEPT !.active = FALSE] ELSE r[i]]
    BY <2>1
  <2>3. \A i \in 1..Len(r) : r[i] \in Row /\ [r[i] EXCEPT !.active = FALSE] \in Row
    BY <2>1 DEF Row
  <2>4. s \in [1..Len(r) -> Row] BY <2>2, <2>3
  <2>5. s \in Seq(Row) /\ Len(s) = Len(r) BY <2>1, <2>4, SeqDef
  <2>6. \A i \in DOMAIN r : RowKept(r[i], s[i])
    BY <2>1, <2>2, <2>3 DEF RowKept, Row
  <2>7. ExpireOnAsk(r) = s BY <1>2 DEF ExpireOnAsk
  <2> HIDE DEF s
  <2> QED BY <2>1, <2>5, <2>6, <2>7 DEF Grows, HistoryOf, Rows
<1> QED BY <1>1, <1>2

---------------------------------------------------------------------------
(* The stages of review. *)

(* Clock and cooldowns give an expiry the table can hold. *)
LEMMA ExpiryType ==
  ASSUME now \in Nat
  PROVE  /\ now + LoopCooldown \in Nat
         /\ now + BudgetCooldown \in Nat
         /\ now + GradeCooldown \in Nat
         /\ \A ticks \in ManualCooldowns : now + ticks \in Nat
BY CooldownAssumption

(* Stage 1 appends one row per detection. *)
LEMMA AfterLoopsGrows ==
  ASSUME now \in Nat, NEW r \in Rows, NEW found \in Seq(LoopTypes), NEW c \in Nat
  PROVE  Grows(r, AfterLoops(r, found, c))
<1> DEFINE added == [i \in DOMAIN found |-> LoopAction(found[i], c)]
<1>1. Len(found) \in Nat /\ DOMAIN found = 1..Len(found) BY LenProperties
<1>2. \A i \in DOMAIN found : LoopAction(found[i], c) \in Row
  <2> TAKE i \in DOMAIN found
  <2>1. found[i] \in LoopTypes BY <1>1, ElementOfSeq
  <2>2. NoExpiry \in Nat \cup {NoExpiry} /\ now + LoopCooldown \in Nat \cup {NoExpiry}
    BY ExpiryType
  <2>3. /\ NewRow("throttle", NoExpiry, c) \in Row
        /\ NewRow("cooldown", now + LoopCooldown, c) \in Row
        /\ NewRow("escalate", NoExpiry, c) \in Row
        /\ NewRow("isolate", NoExpiry, c) \in Row
    BY <2>2, NewRowType DEF ActionTypes
  <2> QED BY <2>1, <2>3 DEF LoopAction, LoopTypes
<1>3. added \in [1..Len(found) -> Row] BY <1>1, <1>2
<1>4. added \in Seq(Row) BY <1>1, <1>3, SeqDef
<1>5. /\ r \o added \in Seq(Row)
      /\ Len(r \o added) = Len(r) + Len(added)
      /\ \A i \in 1..Len(r) : (r \o added)[i] = r[i]
  BY <1>4, LenProperties, ConcatProperties DEF Rows
<1>6. /\ Len(r) \in Nat /\ Len(added) \in Nat /\ DOMAIN r = 1..Len(r)
  BY <1>4, LenProperties DEF Rows
<1>7. AfterLoops(r, found, c) = r \o added BY DEF AfterLoops
<1> HIDE DEF added
<1> QED BY <1>5, <1>6, <1>7 DEF Grows, HistoryOf, RowKept, Rows

(* Stage 2 appends at most one row. *)
LEMMA AfterBudgetGrows ==
  ASSUME now \in Nat, NEW r \in Rows, NEW status \in BudgetStatuses, NEW c \in Nat
  PROVE  Grows(r, AfterBudget(r, status, c))
<1>1. Grows(r, Record(r, "cooldown", now + BudgetCooldown, c))
  BY ExpiryType, RecordGrows DEF ActionTypes
<1>2. Grows(r, Record(r, "escalate", NoExpiry, c)) BY RecordGrows DEF ActionTypes
<1> QED BY <1>1, <1>2, GrowsReflexive DEF AfterBudget, BudgetStatuses

(* Stage 3 appends at most one row. *)
LEMMA AfterGradeGrows ==
  ASSUME now \in Nat, NEW r \in Rows, NEW failing \in BOOLEAN, NEW c \in Nat
  PROVE  Grows(r, AfterGrade(r, failing, c))
<1>1. Grows(r, Record(r, "cooldown", now + GradeCooldown, c))
  BY ExpiryType, RecordGrows DEF ActionTypes
<1> QED BY <1>1, GrowsReflexive DEF AfterGrade

(* The expiry stage is a restore or nothing. *)
LEMMA AfterExpiryGrows ==
  ASSUME NEW r \in Rows, NEW c \in Nat PROVE Grows(r, AfterExpiry(r, c))
BY RestoredGrows, GrowsReflexive DEF AfterExpiry

(* The last stage appends at most one row. *)
LEMMA AfterEscalationGrows ==
  ASSUME NEW r \in Rows, NEW c \in Nat PROVE Grows(r, AfterEscalation(r, c))
<1>1. Grows(r, Record(r, "isolate", NoExpiry, c)) BY RecordGrows DEF ActionTypes
<1> QED BY <1>1, GrowsReflexive DEF AfterEscalation

(* The first three stages together. *)
LEMMA BeforeExpiryGrows ==
  ASSUME now \in Nat, NEW r \in Rows, NEW found \in Seq(LoopTypes),
         NEW status \in BudgetStatuses, NEW failing \in BOOLEAN, NEW c \in Nat
  PROVE  Grows(r, BeforeExpiry(r, found, status, failing, c))
<1> DEFINE r1 == AfterLoops(r, found, c)
           r2 == AfterBudget(r1, status, c)
           r3 == AfterGrade(r2, failing, c)
<1>1. Grows(r, r1) /\ r1 \in Rows BY AfterLoopsGrows DEF Grows
<1>2. Grows(r1, r2) /\ r2 \in Rows BY <1>1, AfterBudgetGrows DEF Grows
<1>3. Grows(r2, r3) /\ r3 \in Rows BY <1>2, AfterGradeGrows DEF Grows
<1>4. BeforeExpiry(r, found, status, failing, c) = r3 BY DEF BeforeExpiry
<1> HIDE DEF r1, r2, r3
<1>5. Grows(r, r2) BY <1>1, <1>2, GrowsTransitive
<1>6. Grows(r, r3) BY <1>2, <1>3, <1>5, GrowsTransitive
<1> QED BY <1>4, <1>6

(* A whole review of one engine. *)
LEMMA ReviewedGrows ==
  ASSUME now \in Nat, NEW r \in Rows, NEW found \in Seq(LoopTypes),
         NEW status \in BudgetStatuses, NEW failing \in BOOLEAN, NEW c \in Nat
  PROVE  Grows(r, Reviewed(r, found, status, failing, c))
<1> DEFINE r3 == BeforeExpiry(r, found, status, failing, c)
           r4 == AfterExpiry(r3, c)
           r5 == AfterEscalation(r4, c)
<1>1. Grows(r, r3) /\ r3 \in Rows BY BeforeExpiryGrows DEF Grows
<1>2. Grows(r3, r4) /\ r4 \in Rows BY <1>1, AfterExpiryGrows DEF Grows
<1>3. Grows(r4, r5) /\ r5 \in Rows BY <1>2, AfterEscalationGrows DEF Grows
<1>4. Reviewed(r, found, status, failing, c) = r5 BY DEF Reviewed
<1> HIDE DEF r3, r4, r5
<1>5. Grows(r, r4) BY <1>1, <1>2, GrowsTransitive
<1>6. Grows(r, r5) BY <1>2, <1>3, <1>5, GrowsTransitive
<1> QED BY <1>4, <1>6

---------------------------------------------------------------------------
(* Type correctness. *)

(* The flag after a review is still a flag. *)
LEMMA FlagType ==
  ASSUME NEW flag \in BOOLEAN, NEW r, NEW found, NEW status, NEW failing, NEW c
  PROVE  FlagAfterReview(flag, r, found, status, failing, c) \in BOOLEAN
BY DEF FlagAfterReview

(* Resolving a detection leaves a sequence of detections. *)
LEMMA ResolveType ==
  ASSUME NEW s \in Seq(LoopTypes), NEW i \in DOMAIN s
  PROVE  SubSeq(s, 1, i - 1) \o SubSeq(s, i + 1, Len(s)) \in Seq(LoopTypes)
<1>1. Len(s) \in Nat /\ DOMAIN s = 1..Len(s) BY LenProperties
<1>2. i \in Int /\ 1 <= i /\ i <= Len(s) BY <1>1
<1>3. \A j \in 1..Len(s) : s[j] \in LoopTypes BY ElementOfSeq
<1>4. SubSeq(s, 1, i - 1) \in Seq(LoopTypes) BY <1>1, <1>2, <1>3, SubSeqProperties
<1>5. SubSeq(s, i + 1, Len(s)) \in Seq(LoopTypes) BY <1>1, <1>2, <1>3, SubSeqProperties
<1> QED BY <1>4, <1>5, ConcatProperties

(* Detections of a review join the unresolved ones. *)
LEMMA FoundType ==
  ASSUME NEW old \in Seq(LoopTypes), NEW new \in NewDetections
  PROVE  old \o new \in Seq(LoopTypes)
<1>1. PICK n \in 0..MaxLoops : new \in [1..n -> LoopTypes] BY DEF NewDetections
<1>2. n \in Nat BY <1>1, BoundAssumption
<1>3. new \in Seq(LoopTypes) BY <1>1, <1>2, SeqDef
<1> QED BY <1>3, ConcatProperties

(* What one step does to the rows of one engine. *)
LEMMA StepGrows ==
  ASSUME TypeOK, [Next]_vars, NEW e \in Engines
  PROVE  Grows(log[e], log'[e])
<1> USE DEF TypeOK
<1>1. log[e] \in Rows BY DEF Rows
<1>2. now \in Nat /\ cycle \in Nat /\ 0 \in Nat OBVIOUS
<1>3. Grows(log[e], log[e]) BY <1>1, GrowsReflexive
<1>4. CASE UNCHANGED log BY <1>3, <1>4
<1>5. ASSUME NEW f \in Engines, OperatorStep(f) PROVE Grows(log[e], log'[e])
  <2>1. CASE Throttle(f)
    <3>1. Grows(log[e], Record(log[e], "throttle", NoExpiry, 0))
      BY <1>1, <1>2, RecordGrows DEF ActionTypes
    <3> QED BY <1>3, <2>1, <3>1 DEF Throttle
  <2>2. ASSUME NEW ticks \in ManualCooldowns, Cooldown(f, ticks) PROVE Grows(log[e], log'[e])
    <3>1. now + ticks \in Nat BY <1>2, ExpiryType
    <3>2. Grows(log[e], Record(log[e], "cooldown", now + ticks, 0))
      BY <1>1, <1>2, <3>1, RecordGrows DEF ActionTypes
    <3> QED BY <1>3, <2>2, <3>2 DEF Cooldown
  <2>3. CASE Isolate(f)
    <3>1. Grows(log[e], Record(log[e], "isolate", NoExpiry, 0))
      BY <1>1, <1>2, RecordGrows DEF ActionTypes
    <3> QED BY <1>3, <2>3, <3>1 DEF Isolate
  <2>4. CASE Restore(f)
    <3>1. Grows(log[e], Restored(log[e], 0)) BY <1>1, <1>2, RestoredGrows
    <3> QED BY <1>3, <2>4, <3>1 DEF Restore
  <2>5. CASE \E value \in BOOLEAN : ToggleFlag(f, value) BY <1>4, <2>5 DEF ToggleFlag
  <2>6. CASE \E i \in DOMAIN loops[f] : Resolve(f, i) BY <1>4, <2>6 DEF Resolve
  <2> QED BY <1>5, <2>1, <2>2, <2>3, <2>4, <2>5, <2>6 DEF OperatorStep
<1>6. ASSUME NEW f \in Engines, Ask(f) PROVE Grows(log[e], log'[e])
  <2>1. Grows(log[e], ExpireOnAsk(log[e])) BY <1>1, ExpireOnAskGrows
  <2>2. log' = log \/ log' = [log EXCEPT ![f] = ExpireOnAsk(@)]
    BY <1>6 DEF Ask, RunRefused, RunAllowed
  <2> QED BY <1>3, <2>1, <2>2
<1>7. ASSUME NEW detected \in [Engines -> NewDetections],
             NEW status \in [Engines -> BudgetStatuses],
             NEW failing \in SUBSET Engines,
             ReviewCycle(detected, status, failing)
      PROVE  Grows(log[e], log'[e])
  <2> DEFINE found == loops[e] \o detected[e]
  <2>1. found \in Seq(LoopTypes) BY FoundType
  <2>2. log'[e] = Reviewed(log[e], found, status[e], e \in failing, cycle + 1)
    BY <1>7 DEF ReviewCycle
  <2>3. status[e] \in BudgetStatuses /\ (e \in failing) \in BOOLEAN /\ cycle + 1 \in Nat
    BY <1>2
  <2> HIDE DEF found
  <2> QED BY <1>1, <1>2, <2>1, <2>2, <2>3, ReviewedGrows
<1>8. CASE QuietCycle BY <1>4, <1>8 DEF QuietCycle
<1>9. CASE Tick BY <1>4, <1>9 DEF Tick
<1>10. CASE Restart BY <1>4, <1>10 DEF Restart
<1>11. CASE vars' = vars BY <1>4, <1>11 DEF vars
<1> QED BY <1>5, <1>6, <1>7, <1>8, <1>9, <1>10, <1>11 DEF Next, Review

(* The rows of every engine exist after a step, as one table. *)
LEMMA LogDomain ==
  ASSUME TypeOK, [Next]_vars
  PROVE  DOMAIN log' = Engines /\ log' = [e \in Engines |-> log'[e]]
<1> USE DEF TypeOK
<1>1. CASE UNCHANGED log BY <1>1
<1>2. ASSUME NEW f \in Engines, NEW rows, log' = [log EXCEPT ![f] = rows]
      PROVE  DOMAIN log' = Engines /\ log' = [e \in Engines |-> log'[e]]
  BY <1>2
<1>3. ASSUME NEW f \in Engines, OperatorStep(f)
      PROVE  UNCHANGED log \/ \E rows : log' = [log EXCEPT ![f] = rows]
  BY <1>3 DEF OperatorStep, Throttle, Cooldown, Isolate, Restore, ToggleFlag, Resolve
<1>4. ASSUME NEW f \in Engines, Ask(f)
      PROVE  UNCHANGED log \/ \E rows : log' = [log EXCEPT ![f] = rows]
  BY <1>4 DEF Ask, RunRefused, RunAllowed
<1>5. CASE Review
  <2>1. PICK detected, status, failing : ReviewCycle(detected, status, failing)
    BY <1>5 DEF Review
  <2> QED BY <2>1 DEF ReviewCycle
<1> QED BY <1>1, <1>2, <1>3, <1>4, <1>5 DEF Next, QuietCycle, Tick, Restart, vars

(* One step keeps the types. *)
LEMMA TypeStep == TypeOK /\ [Next]_vars => TypeOK'
<1> SUFFICES ASSUME TypeOK, [Next]_vars PROVE TypeOK'
  OBVIOUS
<1>1. log' \in [Engines -> Seq(Row)]
  <2>1. \A e \in Engines : log'[e] \in Seq(Row) BY StepGrows DEF Grows, Rows
  <2> QED BY <2>1, LogDomain
<1> DEFINE Typed == /\ enabled' \in [Engines -> BOOLEAN]
                    /\ loops' \in [Engines -> Seq(LoopTypes)]
                    /\ now' \in Nat /\ cycle' \in Nat
<1>2. Typed
  <2> USE DEF TypeOK
  <2>1. \A e \in Engines, value \in BOOLEAN : SetFlag(e, value) \in [Engines -> BOOLEAN]
    BY DEF SetFlag
  <2>2. ASSUME NEW e \in Engines, OperatorStep(e) PROVE Typed
    <3>1. CASE Throttle(e) BY <3>1 DEF Throttle
    <3>2. CASE \E ticks \in ManualCooldowns : Cooldown(e, ticks) BY <3>2 DEF Cooldown
    <3>3. CASE Isolate(e) BY <2>1, <3>3 DEF Isolate
    <3>4. CASE Restore(e) BY <2>1, <3>4 DEF Restore
    <3>5. CASE \E value \in BOOLEAN : ToggleFlag(e, value) BY <2>1, <3>5 DEF ToggleFlag
    <3>6. ASSUME NEW i \in DOMAIN loops[e], Resolve(e, i) PROVE Typed
      <4>1. SubSeq(loops[e], 1, i - 1) \o SubSeq(loops[e], i + 1, Len(loops[e]))
              \in Seq(LoopTypes)
        BY ResolveType
      <4> QED BY <3>6, <4>1 DEF Resolve
    <3> QED BY <2>2, <3>1, <3>2, <3>3, <3>4, <3>5, <3>6 DEF OperatorStep
  <2>3. CASE \E e \in Engines : Ask(e) BY <2>3 DEF Ask, RunRefused, RunAllowed
  <2>4. CASE QuietCycle BY <2>4 DEF QuietCycle
  <2>5. ASSUME NEW detected \in [Engines -> NewDetections],
               NEW status \in [Engines -> BudgetStatuses],
               NEW failing \in SUBSET Engines,
               ReviewCycle(detected, status, failing)
        PROVE Typed
    <3>1. \A e \in Engines : loops[e] \o detected[e] \in Seq(LoopTypes) BY FoundType
    <3>2. loops' \in [Engines -> Seq(LoopTypes)] BY <2>5, <3>1 DEF ReviewCycle
    <3>3. \A flag \in BOOLEAN : \A r, found, st, fl, c :
            FlagAfterReview(flag, r, found, st, fl, c) \in BOOLEAN
      BY FlagType
    <3>4. enabled' \in [Engines -> BOOLEAN] BY <2>5, <3>3 DEF ReviewCycle
    <3> QED BY <2>5, <3>2, <3>4 DEF ReviewCycle
  <2>6. CASE Tick BY <2>6 DEF Tick
  <2>7. CASE Restart BY <2>7 DEF Restart
  <2>8. CASE vars' = vars BY <2>8 DEF vars
  <2> QED BY <2>2, <2>3, <2>4, <2>5, <2>6, <2>7, <2>8 DEF Next, Review
<1> QED BY <1>1, <1>2 DEF TypeOK

(* The initial state has the types. *)
LEMMA TypeInit == Init => TypeOK
BY EmptySeq DEF Init, TypeOK

(* TypeOK holds in every reachable state, for every instance. *)
THEOREM TypeCorrect == Spec => []TypeOK
BY TypeInit, TypeStep, PTL DEF Spec

(* The table of governance_actions is a history: for every instance, no    *)
(* step loses, edits or revives a row.                                     *)
THEOREM HistoryKept == Spec => RetiredStaysRetired
<1>1. TypeOK /\ [Next]_vars => [\A e \in Engines : HistoryOf(log[e], log'[e])]_vars
  BY StepGrows DEF Grows
<1> QED BY <1>1, TypeCorrect, PTL DEF Spec, RetiredStaysRetired

---------------------------------------------------------------------------
(* What the row writers do to the active rows. *)

(* Table s is r and one more active row of type t. *)
Adds(r, s, t) ==
  /\ DOMAIN s = DOMAIN r \cup {Len(r) + 1}
  /\ \A i \in DOMAIN r : s[i] = r[i]
  /\ s[Len(r) + 1].type = t /\ s[Len(r) + 1].active

(* INSERT adds one active row, of the type given, and leaves the others. *)
LEMMA RecordActive ==
  ASSUME NEW r \in Rows, NEW t \in ActionTypes, NEW x \in Nat \cup {NoExpiry},
         NEW c \in Nat
  PROVE  Adds(r, Record(r, t, x, c), t)
<1> DEFINE new == NewRow(t, x, c)
           s == Append(r, new)
<1>1. new \in Row BY NewRowType
<1>2. /\ s \in Seq(Row)
      /\ Len(s) = Len(r) + 1
      /\ \A i \in 1..Len(r) : s[i] = r[i]
      /\ s[Len(r) + 1] = new
  BY <1>1 DEF Rows
<1>3. Len(r) \in Nat /\ DOMAIN r = 1..Len(r) /\ DOMAIN s = 1..Len(s)
  BY <1>2, LenProperties DEF Rows
<1>4. new.type = t /\ new.active BY DEF NewRow
<1>5. Record(r, t, x, c) = s BY DEF Record
<1> HIDE DEF s, new
<1>6. DOMAIN s = DOMAIN r \cup {Len(r) + 1} BY <1>2, <1>3
<1> QED BY <1>2, <1>3, <1>4, <1>5, <1>6 DEF Adds

(* An "isolate" row isolates; no other row changes who is isolated. *)
LEMMA RecordIsolated ==
  ASSUME NEW r \in Rows, NEW t \in ActionTypes, NEW x \in Nat \cup {NoExpiry},
         NEW c \in Nat
  PROVE  Isolated(Record(r, t, x, c)) <=> (Isolated(r) \/ t = "isolate")
<1> DEFINE s == Record(r, t, x, c)
<1>1. Adds(r, s, t) BY RecordActive
<1> HIDE DEF s
<1>2. Isolated(s) <=> (Isolated(r) \/ t = "isolate")
  BY <1>1 DEF Adds, Isolated, Active, RowsOf
<1> QED BY <1>2 DEF s

(* After a restore only its own row is active. *)
LEMMA RestoredActive ==
  ASSUME NEW r \in Rows, NEW c \in Nat
  PROVE  LET s == Restored(r, c) IN
         /\ \A i \in DOMAIN s : s[i].active => s[i].type = "restore"
         /\ ~Isolated(s)
<1> DEFINE q == Retire(r)
           s == Record(q, "restore", NoExpiry, c)
<1>1. q \in Rows BY RetireGrows DEF Grows
<1>2. Adds(q, s, "restore")
  <2> HIDE DEF q
  <2> QED BY <1>1, RecordActive DEF ActionTypes
<1>3. \A i \in DOMAIN q : ~q[i].active
  <2>1. \A i \in DOMAIN r : r[i] \in Row BY ElementOfSeq, LenProperties DEF Rows
  <2> QED BY <2>1 DEF Retire, Row
<1>4. Restored(r, c) = s BY DEF Restored
<1> HIDE DEF q, s
<1>5. \A i \in DOMAIN s : s[i].active => s[i].type = "restore"
  BY <1>2, <1>3 DEF Adds
<1>6. ~Isolated(s) BY <1>5 DEF Isolated, Active, RowsOf
<1> QED BY <1>4, <1>5, <1>6

(* The step that raises the cycle to a multiple of the period is a review. *)
LEMMA ReviewStepIsReview ==
  ASSUME TypeOK, [Next]_vars, ReviewStep PROVE Review
<1>1. cycle \in Nat /\ ReviewEvery \in Nat \ {0} BY PeriodAssumption DEF TypeOK
<1>2. cycle' # cycle /\ cycle' # 0 BY <1>1 DEF ReviewStep
<1>3. ASSUME NEW e \in Engines, OperatorStep(e) \/ Ask(e) PROVE FALSE
  BY <1>2, <1>3 DEF OperatorStep, Throttle, Cooldown, Isolate, Restore, ToggleFlag,
                    Resolve, Ask, RunRefused, RunAllowed
<1>4. ~QuietCycle BY DEF QuietCycle, ReviewStep
<1>5. ~Tick /\ ~Restart /\ vars' # vars BY <1>2 DEF Tick, Restart, vars
<1> QED BY <1>3, <1>4, <1>5 DEF Next

(* The stages of one engine's review, named. *)
LEMMA ReviewStages ==
  ASSUME TypeOK, NEW e \in Engines,
         NEW detected \in [Engines -> NewDetections],
         NEW status \in [Engines -> BudgetStatuses],
         NEW failing \in SUBSET Engines,
         ReviewCycle(detected, status, failing)
  PROVE  LET found == loops[e] \o detected[e]
             before == BeforeExpiry(log[e], found, status[e], e \in failing, cycle + 1)
             after == AfterExpiry(before, cycle + 1)
         IN /\ found \in Seq(LoopTypes)
            /\ before \in Rows /\ after \in Rows
            /\ cycle + 1 \in Nat /\ cycle' = cycle + 1
            /\ log'[e] = AfterEscalation(after, cycle + 1)
<1> USE DEF TypeOK
<1> DEFINE found == loops[e] \o detected[e]
           before == BeforeExpiry(log[e], found, status[e], e \in failing, cycle + 1)
           after == AfterExpiry(before, cycle + 1)
<1>1. found \in Seq(LoopTypes) BY FoundType
<1>2. cycle + 1 \in Nat /\ log[e] \in Rows BY DEF Rows
<1>3. log'[e] = Reviewed(log[e], found, status[e], e \in failing, cycle + 1)
  BY DEF ReviewCycle
<1>4. Reviewed(log[e], found, status[e], e \in failing, cycle + 1)
        = AfterEscalation(after, cycle + 1)
  BY DEF Reviewed
<1>5. status[e] \in BudgetStatuses /\ (e \in failing) \in BOOLEAN OBVIOUS
<1> HIDE DEF found
<1>6. before \in Rows BY <1>1, <1>2, <1>5, BeforeExpiryGrows DEF Grows
<1>7. after \in Rows BY <1>2, <1>6, AfterExpiryGrows DEF Grows
<1>8. cycle' = cycle + 1 BY DEF ReviewCycle
<1> QED BY <1>1, <1>2, <1>3, <1>4, <1>6, <1>7, <1>8 DEF found

(* The last stage leaves nobody at large who collected the throttles. *)
LEMMA EscalationIsolates ==
  ASSUME NEW r \in Rows, NEW c \in Nat,
         Cardinality(RecentThrottles(AfterEscalation(r, c), c)) >= ThrottleLimit
  PROVE  Isolated(AfterEscalation(r, c))
<1>1. CASE Escalates(r, c)
  BY <1>1, RecordIsolated DEF AfterEscalation, ActionTypes
<1>2. CASE ~Escalates(r, c) BY <1>2 DEF AfterEscalation, Escalates
<1> QED BY <1>1, <1>2

(* Whatever the detectors, budgets and grades say, a review that ends with *)
(* ThrottleLimit recent throttles ends with the engine isolated.           *)
THEOREM ThrottledEnginesIsolated == Spec => RepeatedThrottlesIsolate
<1> DEFINE Goal == ReviewStep => \A e \in Engines :
              Cardinality(RecentThrottles(log'[e], cycle')) >= ThrottleLimit
                => Isolated(log'[e])
<1>1. ASSUME TypeOK, [Next]_vars PROVE Goal
  <2> SUFFICES ASSUME ReviewStep, NEW e \in Engines,
                      Cardinality(RecentThrottles(log'[e], cycle')) >= ThrottleLimit
               PROVE  Isolated(log'[e])
    OBVIOUS
  <2>1. PICK detected \in [Engines -> NewDetections],
             status \in [Engines -> BudgetStatuses],
             failing \in SUBSET Engines : ReviewCycle(detected, status, failing)
    BY <1>1, ReviewStepIsReview DEF Review
  <2>2. PICK after \in Rows : /\ cycle + 1 \in Nat /\ cycle' = cycle + 1
                              /\ log'[e] = AfterEscalation(after, cycle + 1)
    BY <1>1, <2>1, ReviewStages
  <2> QED BY <2>2, EscalationIsolates
<1>2. TypeOK /\ [Next]_vars => [Goal]_vars BY <1>1
<1> QED BY <1>2, TypeCorrect, PTL DEF Spec, RepeatedThrottlesIsolate

(* No cooldown that ended on an earlier day survives a review, in any      *)
(* instance.                                                               *)
THEOREM NoStaleCooldowns == Spec => NoStaleCooldownAfterReview
<1> DEFINE Goal == ReviewStep => \A e \in Engines : \A i \in Active(log'[e], "cooldown") :
              ~Stale(log'[e][i])
<1>1. ASSUME NEW r \in Rows, NEW c \in Nat
      PROVE  ~StaleCooldown(AfterExpiry(r, c))
  <2>1. CASE StaleCooldown(r)
    BY <2>1, RestoredActive DEF AfterExpiry, StaleCooldown, Active, RowsOf
  <2>2. CASE ~StaleCooldown(r) BY <2>2 DEF AfterExpiry
  <2> QED BY <2>1, <2>2
<1>2. ASSUME NEW r \in Rows, NEW c \in Nat, ~StaleCooldown(r)
      PROVE  ~StaleCooldown(AfterEscalation(r, c))
  <2> DEFINE s == Record(r, "isolate", NoExpiry, c)
  <2>1. Adds(r, s, "isolate") BY RecordActive DEF ActionTypes
  <2> HIDE DEF s
  <2>2. ~StaleCooldown(s) BY <1>2, <2>1 DEF Adds, StaleCooldown, Active, RowsOf
  <2> QED BY <1>2, <2>2 DEF AfterEscalation, s
<1>3. ASSUME TypeOK, [Next]_vars PROVE Goal
  <2> SUFFICES ASSUME ReviewStep, NEW e \in Engines PROVE ~StaleCooldown(log'[e])
    BY DEF StaleCooldown
  <2>1. PICK detected \in [Engines -> NewDetections],
             status \in [Engines -> BudgetStatuses],
             failing \in SUBSET Engines : ReviewCycle(detected, status, failing)
    BY <1>3, ReviewStepIsReview DEF Review
  <2>2. PICK before \in Rows :
             /\ cycle + 1 \in Nat
             /\ AfterExpiry(before, cycle + 1) \in Rows
             /\ log'[e] = AfterEscalation(AfterExpiry(before, cycle + 1), cycle + 1)
    BY <1>3, <2>1, ReviewStages
  <2> QED BY <1>1, <1>2, <2>2
<1>4. TypeOK /\ [Next]_vars => [Goal]_vars BY <1>3
<1> QED BY <1>4, TypeCorrect, PTL DEF Spec, NoStaleCooldownAfterReview

---------------------------------------------------------------------------
(* What shouldRun does to the rows. *)

(* The row that LIMIT 1 returns is an active cooldown. *)
LEMMA FirstCooldownExists ==
  ASSUME NEW r \in Rows, Active(r, "cooldown") # {}
  PROVE  FirstCooldown(r) \in Active(r, "cooldown")
<1> DEFINE C == Active(r, "cooldown")
<1>1. DOMAIN r = 1..Len(r) /\ Len(r) \in Nat BY LenProperties DEF Rows
<1>2. C \in SUBSET Nat BY <1>1 DEF Active, RowsOf
<1>3. PICK i \in C : \A j \in C : i <= j
  <2>1. C # {} OBVIOUS
  <2> HIDE DEF C
  <2>2. PICK i \in C : \A j \in C : <<j, i>> \notin OpToRel(<, Nat)
    BY <1>2, <2>1, NatLessThanWellFounded, WFMin
  <2>3. \A j \in C : <<j, i>> \in OpToRel(<, Nat) <=> j < i
    BY <1>2 DEF OpToRel
  <2>4. \A j \in C : i \in Nat /\ j \in Nat /\ ~(j < i) BY <1>2, <2>2, <2>3
  <2>5. \A j \in C : i <= j BY <2>4
  <2> QED BY <2>5
<1> QED BY <1>3 DEF FirstCooldown

(* The row that an expired cooldown leaves behind is the only one changed. *)
LEMMA AskedRow ==
  ASSUME NEW r \in Rows, Active(r, "cooldown") # {}
  PROVE  /\ DOMAIN ExpireOnAsk(r) = DOMAIN r
         /\ ~ExpireOnAsk(r)[FirstCooldown(r)].active
         /\ \A i \in DOMAIN r : i # FirstCooldown(r) => ExpireOnAsk(r)[i] = r[i]
         /\ \A i \in DOMAIN r : ExpireOnAsk(r)[i].type = r[i].type
<1> DEFINE k == FirstCooldown(r)
<1>1. k \in DOMAIN r BY FirstCooldownExists DEF Active, RowsOf
<1>2. \A i \in DOMAIN r : r[i] \in Row BY ElementOfSeq, LenProperties DEF Rows
<1>3. ExpireOnAsk(r) = [r EXCEPT ![k].active = FALSE] BY DEF ExpireOnAsk
<1> HIDE DEF k
<1>4. /\ DOMAIN ExpireOnAsk(r) = DOMAIN r
      /\ \A i \in DOMAIN r : i # k => ExpireOnAsk(r)[i] = r[i]
      /\ ExpireOnAsk(r)[k] = [r[k] EXCEPT !.active = FALSE]
  BY <1>1, <1>3
<1>5. ~ExpireOnAsk(r)[k].active /\ ExpireOnAsk(r)[k].type = r[k].type
  BY <1>1, <1>2, <1>4 DEF Row
<1> QED BY <1>4, <1>5 DEF k

(* Asking never isolates or releases anybody. *)
LEMMA AskKeepsIsolation ==
  ASSUME NEW r \in Rows PROVE Isolated(ExpireOnAsk(r)) <=> Isolated(r)
<1>1. CASE Active(r, "cooldown") = {} BY <1>1 DEF ExpireOnAsk
<1>2. CASE Active(r, "cooldown") # {}
  <2>1. r[FirstCooldown(r)].type = "cooldown"
    BY <1>2, FirstCooldownExists DEF Active, RowsOf
  <2>2. \A i \in DOMAIN r : r[i].type = "isolate" => ExpireOnAsk(r)[i] = r[i]
    BY <1>2, <2>1, AskedRow
  <2> QED BY <1>2, <2>2, AskedRow DEF Isolated, Active, RowsOf
<1> QED BY <1>1, <1>2

(* In every instance shouldRun lets no isolated engine through, and passes *)
(* over an unexpired cooldown only by retiring an expired one.             *)
THEOREM CooldownsHonoured == Spec => CooldownHonoured
<1> DEFINE Goal == \A e \in Engines :
       RunAllowed(e, cycle) =>
         /\ ~Isolated(log'[e])
         /\ (\E i \in Active(log[e], "cooldown") : Unexpired(log[e][i])) =>
              \E j \in Active(log[e], "cooldown") :
                ~Unexpired(log[e][j]) /\ ~log'[e][j].active
<1>1. ASSUME TypeOK PROVE Goal
  <2> SUFFICES ASSUME NEW e \in Engines, RunAllowed(e, cycle)
               PROVE  /\ ~Isolated(log'[e])
                      /\ (\E i \in Active(log[e], "cooldown") : Unexpired(log[e][i])) =>
                            \E j \in Active(log[e], "cooldown") :
                              ~Unexpired(log[e][j]) /\ ~log'[e][j].active
    OBVIOUS
  <2>1. log[e] \in Rows /\ log'[e] = ExpireOnAsk(log[e])
    BY <1>1 DEF TypeOK, RunAllowed, Rows
  <2>2. ~Isolated(log'[e]) BY <2>1, AskKeepsIsolation DEF RunAllowed
  <2>3. ASSUME Active(log[e], "cooldown") # {}
        PROVE  \E j \in Active(log[e], "cooldown") :
                 ~Unexpired(log[e][j]) /\ ~log'[e][j].active
    <3>1. FirstCooldown(log[e]) \in Active(log[e], "cooldown")
      BY <2>1, <2>3, FirstCooldownExists
    <3>2. ~Unexpired(log[e][FirstCooldown(log[e])])
      BY <2>3 DEF RunAllowed, CooldownBlocks
    <3>3. ~log'[e][FirstCooldown(log[e])].active BY <2>1, <2>3, AskedRow
    <3> QED BY <3>1, <3>2, <3>3
  <2> QED BY <2>2, <2>3
<1>2. TypeOK /\ [Next]_vars => [Goal]_vars BY <1>1
<1> QED BY <1>2, TypeCorrect, PTL DEF Spec, CooldownHonoured

---------------------------------------------------------------------------
(* Isolation and the registry. *)

(* Before the expiry stage a review isolates exactly on epistemic drift. *)
LEMMA BeforeExpiryIsolated ==
  ASSUME TypeOK, NEW r \in Rows, NEW found \in Seq(LoopTypes),
         NEW status \in BudgetStatuses, NEW failing \in BOOLEAN, NEW c \in Nat
  PROVE  Isolated(BeforeExpiry(r, found, status, failing, c)) <=>
           \/ Isolated(r)
           \/ "epistemic_drift" \in {found[i] : i \in DOMAIN found}
<1> DEFINE r1 == AfterLoops(r, found, c)
           r2 == AfterBudget(r1, status, c)
           r3 == AfterGrade(r2, failing, c)
           drift == "epistemic_drift" \in {found[i] : i \in DOMAIN found}
<1>0. now \in Nat BY DEF TypeOK
<1>1. r1 \in Rows BY <1>0, AfterLoopsGrows DEF Grows
<1>2. r2 \in Rows BY <1>0, <1>1, AfterBudgetGrows DEF Grows
<1>3. Isolated(r1) <=> Isolated(r) \/ drift
  <2> DEFINE added == [i \in DOMAIN found |-> LoopAction(found[i], c)]
  <2>1. Len(found) \in Nat /\ DOMAIN found = 1..Len(found)
    BY LenProperties
  <2>2. Len(r) \in Nat /\ DOMAIN r = 1..Len(r) BY LenProperties DEF Rows
  <2>3. \A i \in DOMAIN found : found[i] \in LoopTypes BY <2>1, ElementOfSeq
  <2>4. \A i \in DOMAIN found : /\ added[i].active
                                /\ added[i].type = "isolate" <=> found[i] = "epistemic_drift"
    BY <2>3 DEF LoopAction, NewRow, LoopTypes
  <2>5. /\ DOMAIN r1 = 1..(Len(r) + Len(found))
        /\ \A i \in 1..Len(r) : r1[i] = r[i]
        /\ \A i \in 1..Len(found) : r1[Len(r) + i] = added[i]
    <3>1. added \in Seq({added[i] : i \in DOMAIN found}) /\ Len(added) = Len(found)
      BY <2>1, SeqDef
    <3>2. r \in Seq(Row) BY DEF Rows
    <3>3. r1 = r \o added BY DEF AfterLoops
    <3> HIDE DEF added, r1
    <3>4. DOMAIN added = 1..Len(found) BY <2>1 DEF added
    <3> QED BY <2>1, <2>2, <3>1, <3>2, <3>3, <3>4
  <2> HIDE DEF added, r1
  <2>6. ASSUME Isolated(r1) PROVE Isolated(r) \/ drift
    <3>1. PICK i \in DOMAIN r1 : r1[i].type = "isolate" /\ r1[i].active
      BY <2>6 DEF Isolated, Active, RowsOf
    <3>2. CASE i \in 1..Len(r)
      BY <2>2, <2>5, <3>1, <3>2 DEF Isolated, Active, RowsOf
    <3>3. CASE i \notin 1..Len(r)
      <4>1. i - Len(r) \in 1..Len(found) /\ i = Len(r) + (i - Len(r))
        BY <2>1, <2>2, <2>5, <3>3
      <4> QED BY <2>1, <2>4, <2>5, <3>1, <4>1
    <3> QED BY <3>2, <3>3
  <2>7. ASSUME Isolated(r) PROVE Isolated(r1)
    BY <2>1, <2>2, <2>5, <2>7 DEF Isolated, Active, RowsOf
  <2>8. ASSUME drift PROVE Isolated(r1)
    <3>1. PICK i \in DOMAIN found : found[i] = "epistemic_drift" BY <2>8
    <3>2. Len(r) + i \in DOMAIN r1 BY <2>1, <2>2, <2>5
    <3>3. r1[Len(r) + i].type = "isolate" /\ r1[Len(r) + i].active
      BY <2>1, <2>4, <2>5, <3>1
    <3> QED BY <3>2, <3>3 DEF Isolated, Active, RowsOf
  <2> QED BY <2>6, <2>7, <2>8
<1> HIDE DEF r1
<1>4. Isolated(r2) <=> Isolated(r1)
  BY <1>0, <1>1, ExpiryType, RecordIsolated DEF AfterBudget, BudgetStatuses, ActionTypes
<1> HIDE DEF r2
<1>5. Isolated(r3) <=> Isolated(r2)
  BY <1>0, <1>2, ExpiryType, RecordIsolated DEF AfterGrade, ActionTypes
<1>6. BeforeExpiry(r, found, status, failing, c) = r3 BY DEF BeforeExpiry, r1, r2
<1> QED BY <1>3, <1>4, <1>5, <1>6

(* In every instance the table and the registry agree at each change of    *)
(* isolation, through all the stages of a review.                          *)
THEOREM FlagsFollowIsolation == Spec => FlagFollowsIsolation
<1> DEFINE Edge(e) == Isolated(log[e]) # Isolated(log'[e]) => IsolationEdge(e)
<1>1. ASSUME TypeOK, [Next]_vars, NEW e \in Engines PROVE Edge(e)
  <2> USE <1>1
  <2>1. /\ log \in [Engines -> Seq(Row)] /\ log[e] \in Rows
        /\ enabled \in [Engines -> BOOLEAN]
        /\ now \in Nat /\ cycle \in Nat /\ Registered \subseteq Engines
    BY RegisteredAssumption DEF TypeOK, Rows
  <2>2. CASE log'[e] = log[e] BY <2>2
  <2>3. ASSUME NEW f \in Engines, OperatorStep(f) PROVE Edge(e)
    <3>1. CASE f # e \/ UNCHANGED log
      <4>1. log'[e] = log[e]
        BY <2>1, <2>3, <3>1
           DEF OperatorStep, Throttle, Cooldown, Isolate, Restore, ToggleFlag, Resolve
      <4> QED BY <2>2, <4>1
    <3>2. CASE Throttle(e)
      <4>1. log'[e] = Record(log[e], "throttle", NoExpiry, 0) BY <2>1, <3>2 DEF Throttle
      <4>2. Isolated(Record(log[e], "throttle", NoExpiry, 0)) <=> Isolated(log[e])
        BY <2>1, RecordIsolated DEF ActionTypes
      <4> QED BY <4>1, <4>2 DEF Isolated
    <3>3. ASSUME NEW ticks \in ManualCooldowns, Cooldown(e, ticks) PROVE Edge(e)
      <4>1. log'[e] = Record(log[e], "cooldown", now + ticks, 0) /\ now + ticks \in Nat
        BY <2>1, <3>3, ExpiryType DEF Cooldown
      <4>2. Isolated(Record(log[e], "cooldown", now + ticks, 0)) <=> Isolated(log[e])
        BY <2>1, <4>1, RecordIsolated DEF ActionTypes
      <4> QED BY <4>1, <4>2 DEF Isolated
    <3>4. CASE Isolate(e)
      <4>1. log'[e] = Record(log[e], "isolate", NoExpiry, 0) BY <2>1, <3>4 DEF Isolate
      <4>2. Isolated(Record(log[e], "isolate", NoExpiry, 0))
        BY <2>1, RecordIsolated DEF ActionTypes
      <4>3. e \in Registered => ~enabled'[e] BY <2>1, <3>4 DEF Isolate, SetFlag
      <4> QED BY <4>1, <4>2, <4>3 DEF IsolationEdge
    <3>5. CASE Restore(e)
      <4>1. log'[e] = Restored(log[e], 0) BY <2>1, <3>5 DEF Restore
      <4>2. /\ ~Isolated(log'[e])
            /\ \A i \in DOMAIN log'[e] : log'[e][i].active => log'[e][i].type = "restore"
        BY <2>1, <4>1, RestoredActive
      <4>3. e \in Registered => enabled'[e] BY <2>1, <3>5 DEF Restore, SetFlag
      <4> QED BY <4>2, <4>3 DEF IsolationEdge
    <3> QED BY <2>3, <3>1, <3>2, <3>3, <3>4, <3>5 DEF OperatorStep, ToggleFlag, Resolve
  <2>4. ASSUME NEW f \in Engines, Ask(f) PROVE Edge(e)
    <3>1. log'[e] = log[e] \/ log'[e] = ExpireOnAsk(log[e])
      BY <2>1, <2>4 DEF Ask, RunRefused, RunAllowed
    <3>2. Isolated(log'[e]) <=> Isolated(log[e]) BY <2>1, <3>1, AskKeepsIsolation
    <3> QED BY <3>2 DEF Isolated
  <2>5. ASSUME NEW detected \in [Engines -> NewDetections],
               NEW status \in [Engines -> BudgetStatuses],
               NEW failing \in SUBSET Engines,
               ReviewCycle(detected, status, failing)
        PROVE  Edge(e)
    <3> DEFINE found == loops[e] \o detected[e]
               before == BeforeExpiry(log[e], found, status[e], e \in failing, cycle + 1)
               after == AfterExpiry(before, cycle + 1)
               drift == "epistemic_drift" \in {found[i] : i \in DOMAIN found}
    <3>1. /\ found \in Seq(LoopTypes) /\ before \in Rows /\ after \in Rows
          /\ cycle + 1 \in Nat
          /\ log'[e] = AfterEscalation(after, cycle + 1)
      BY <2>5, ReviewStages
    <3>2. status[e] \in BudgetStatuses /\ (e \in failing) \in BOOLEAN OBVIOUS
    <3>3. e \in Registered => enabled'[e] =
            FlagAfterReview(enabled[e], log[e], found, status[e], e \in failing, cycle + 1)
      BY <2>5 DEF ReviewCycle
    <3>4. Isolated(before) <=> Isolated(log[e]) \/ drift
      <4> HIDE DEF found
      <4> QED BY <2>1, <3>1, <3>2, BeforeExpiryIsolated
    <3>5. FlagAfterReview(enabled[e], log[e], found, status[e], e \in failing, cycle + 1) =
             IF Escalates(after, cycle + 1) THEN FALSE
             ELSE StaleCooldown(before) \/ (enabled[e] /\ ~drift)
      BY DEF FlagAfterReview
    <3> HIDE DEF before, after, drift, found
    <3>6. e \in Registered =>
            /\ Escalates(after, cycle + 1) => ~enabled'[e]
            /\ ~Escalates(after, cycle + 1) /\ StaleCooldown(before) => enabled'[e]
            /\ ~Escalates(after, cycle + 1) /\ ~StaleCooldown(before) /\ drift
                 => ~enabled'[e]
      BY <3>3, <3>5
    <3>7. CASE Escalates(after, cycle + 1)
      <4>1. log'[e] = Record(after, "isolate", NoExpiry, cycle + 1)
        BY <3>1, <3>7 DEF AfterEscalation
      <4>2. Isolated(Record(after, "isolate", NoExpiry, cycle + 1))
        BY <3>1, RecordIsolated DEF ActionTypes
      <4>3. e \in Registered => ~enabled'[e] BY <3>6, <3>7
      <4> QED BY <4>1, <4>2, <4>3 DEF IsolationEdge
    <3>8. CASE ~Escalates(after, cycle + 1) /\ StaleCooldown(before)
      <4>1. log'[e] = Restored(before, cycle + 1)
        BY <3>1, <3>8 DEF AfterEscalation, after, AfterExpiry
      <4>2. /\ ~Isolated(log'[e])
            /\ \A i \in DOMAIN log'[e] : log'[e][i].active => log'[e][i].type = "restore"
        BY <3>1, <4>1, RestoredActive
      <4>3. e \in Registered => enabled'[e] BY <3>6, <3>8
      <4> QED BY <4>2, <4>3 DEF IsolationEdge
    <3>9. CASE ~Escalates(after, cycle + 1) /\ ~StaleCooldown(before)
      <4>1. log'[e] = before
        BY <3>1, <3>9 DEF AfterEscalation, after, AfterExpiry
      <4>2. ASSUME drift PROVE e \in Registered => ~enabled'[e] BY <3>6, <3>9, <4>2
      <4> QED BY <3>4, <4>1, <4>2 DEF IsolationEdge, Isolated
    <3> QED BY <3>7, <3>8, <3>9
  <2>6. CASE QuietCycle \/ Tick \/ Restart \/ vars' = vars
    BY <2>2, <2>6 DEF QuietCycle, Tick, Restart, vars
  <2> QED BY <2>3, <2>4, <2>5, <2>6 DEF Next, Review
<1>2. TypeOK /\ [Next]_vars => [\A e \in Engines : Edge(e)]_vars BY <1>1
<1> QED BY <1>2, TypeCorrect, PTL DEF Spec, FlagFollowsIsolation
===========================================================================
