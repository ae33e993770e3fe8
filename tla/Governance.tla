---------------------------- MODULE Governance ----------------------------
(***************************************************************************)
(* Active engine control (brain-core/src/governance): the GovernanceLayer  *)
(* with its table governance_actions, the enabled flag of the              *)
(* EngineRegistry and the unresolved rows of the LoopDetector.             *)
(*                                                                         *)
(* better-sqlite3 is synchronous, so every public method is one atomic     *)
(* step.  The actors that interleave are the orchestrator's feedback       *)
(* cycle, the operator's IPC calls, the callers of shouldRun, the clock    *)
(* and a restart of the daemon (the tables survive, the cycle counter and  *)
(* the registry cache do not).                                             *)
(*                                                                         *)
(* Every query is "WHERE engine = ?", so the table is kept as one sequence *)
(* of rows per engine, in id order.  Reasons, sources and the journal are  *)
(* left out.                                                               *)
(***************************************************************************)
EXTENDS Integers, Sequences, FiniteSets

CONSTANTS
  Engines,          \* engine names that appear in the table
  Registered,       \* those with a profile in the EngineRegistry
  DayLength,        \* clock ticks per UTC day
  ReviewEvery,      \* steps 67 and 68 run every ReviewEvery cycles (code: 10)
  ThrottleLimit,    \* throttles in the window that isolate (code: 3)
  Window,           \* cycles a throttle is counted for (code: 50)
  LoopCooldown,     \* ticks: cooldown for stagnation (code: 10 minutes)
  BudgetCooldown,   \* ticks: cooldown for an exhausted budget (code: 5)
  GradeCooldown,    \* ticks: cooldown for grade F (code: 15)
  ManualCooldowns,  \* ticks an operator may ask for
  MaxLog,           \* bound: rows per engine
  MaxOfType,        \* bound: rows of each type per engine
  MaxLoops,         \* bound: unresolved detections per engine
  MaxNow,           \* bound: the clock
  MaxCycle          \* bound: the cycle counter

ActionTypes == {"throttle", "cooldown", "isolate", "escalate", "restore"}

ASSUME RegisteredAssumption == Registered \subseteq Engines
ASSUME PeriodAssumption ==
  /\ DayLength \in Nat \ {0}
  /\ ReviewEvery \in Nat \ {0}
  /\ Window \in Nat
  /\ ThrottleLimit \in Nat
ASSUME CooldownAssumption ==
  /\ {LoopCooldown, BudgetCooldown, GradeCooldown} \subseteq Nat
  /\ ManualCooldowns \subseteq Nat
ASSUME BoundAssumption ==
  /\ MaxLog \in Nat
  /\ MaxOfType \in [ActionTypes -> Nat]
  /\ MaxLoops \in Nat
  /\ MaxNow \in Nat
  /\ MaxCycle \in Nat

VARIABLES
  log,      \* governance_actions, one sequence of rows per engine
  enabled,  \* EngineRegistry: the enabled flag of the profile
  loops,    \* loop_detections with resolved = 0, one sequence per engine
  now,      \* the wall clock
  cycle     \* the orchestrator's cycleCount

vars == <<log, enabled, loops, now, cycle>>

LoopTypes == {"retrigger_spiral", "stagnation", "kpi_gaming", "epistemic_drift"}
BudgetStatuses == {"ok", "warning", "exhausted"}
NoExpiry == -1

Row == [type    : ActionTypes,
        expires : Nat \cup {NoExpiry},
        active  : BOOLEAN,
        cycle   : Nat]

---------------------------------------------------------------------------
(* Queries on one engine's rows. *)

RowsOf(rows, t) == {i \in DOMAIN rows : rows[i].type = t}

Active(rows, t) == {i \in RowsOf(rows, t) : rows[i].active}

AnyActive(rows) == \E i \in DOMAIN rows : rows[i].active

Isolated(rows) == Active(rows, "isolate") # {}

(* LIMIT 1 on the index (engine, active): the lowest row id. *)
FirstCooldown(rows) ==
  CHOOSE i \in Active(rows, "cooldown") : \A j \in Active(rows, "cooldown") : i <= j

Date(t) == t \div DayLength

(* shouldRun compares two ISO strings, so the order is that of the times.  *)
Unexpired(row) == row.expires = NoExpiry \/ now < row.expires

(* The review compares "2026-03-01T10:00:00.000Z" with SQLite's            *)
(* "2026-03-01 12:00:00".  'T' sorts after ' ', so the first is smaller    *)
(* only when its date is.                                                  *)
Stale(row) == row.expires # NoExpiry /\ Date(row.expires) < Date(now)

(* Fault: the query for expired cooldowns carries the LIMIT 1 of shouldRun. *)
FirstCooldownStale(rows) ==
  Active(rows, "cooldown") # {} /\ Stale(rows[FirstCooldown(rows)])

StaleCooldown(rows) == \E i \in Active(rows, "cooldown") : Stale(rows[i])

RecentThrottles(rows, c) == {i \in RowsOf(rows, "throttle") : rows[i].cycle > c - Window}

---------------------------------------------------------------------------
(* Row writers. *)

(* Only the cycle of a throttle is ever read, so it is 0 elsewhere. *)
NewRow(t, expires, c) ==
  [type |-> t, expires |-> expires, active |-> TRUE,
   cycle |-> IF t = "throttle" THEN c ELSE 0]

(* recordAction: INSERT with active = 1. *)
Record(rows, t, expires, c) == Append(rows, NewRow(t, expires, c))

(* UPDATE ... SET active = 0 WHERE engine = ? AND active = 1 *)
Retire(rows) == [i \in DOMAIN rows |-> [rows[i] EXCEPT !.active = FALSE]]

(* Fault: the row that ends the retired ones has a type nobody knows. *)
RestoredUntyped(rows, c) == Record(Retire(rows), "resume", NoExpiry, c)

Restored(rows, c) == Record(Retire(rows), "restore", NoExpiry, c)

SetFlag(e, value) ==
  IF e \in Registered THEN [enabled EXCEPT ![e] = value] ELSE enabled

---------------------------------------------------------------------------
(* Operator calls, IPC routes governance.*; the router passes cycle 0. *)

WithinBounds(rows) ==
  /\ Len(rows) <= MaxLog
  /\ \A t \in ActionTypes : Cardinality(RowsOf(rows, t)) <= MaxOfType[t]

HasRoom(e, t) == Len(log[e]) < MaxLog /\ Cardinality(RowsOf(log[e], t)) < MaxOfType[t]

Throttle(e) ==
  /\ HasRoom(e, "throttle")
  /\ log' = [log EXCEPT ![e] = Record(@, "throttle", NoExpiry, 0)]
  /\ UNCHANGED <<enabled, loops, now, cycle>>

Cooldown(e, ticks) ==
  /\ HasRoom(e, "cooldown")
  /\ log' = [log EXCEPT ![e] = Record(@, "cooldown", now + ticks, 0)]
  /\ UNCHANGED <<enabled, loops, now, cycle>>

Isolate(e) ==
  /\ HasRoom(e, "isolate")
  /\ log' = [log EXCEPT ![e] = Record(@, "isolate", NoExpiry, 0)]
  /\ enabled' = SetFlag(e, FALSE)
  /\ UNCHANGED <<loops, now, cycle>>

Restore(e) ==
  /\ HasRoom(e, "restore")
  /\ log' = [log EXCEPT ![e] = Restored(@, 0)]
  /\ enabled' = SetFlag(e, TRUE)
  /\ UNCHANGED <<loops, now, cycle>>

(* governance.enable and governance.disable reach the registry directly. *)
ToggleFlag(e, value) ==
  /\ enabled[e] # value
  /\ enabled' = SetFlag(e, value)
  /\ UNCHANGED <<log, loops, now, cycle>>

(* LoopDetector.resolve of one detection. *)
Resolve(e, i) ==
  /\ loops' = [loops EXCEPT ![e] = SubSeq(@, 1, i - 1) \o SubSeq(@, i + 1, Len(@))]
  /\ UNCHANGED <<log, enabled, now, cycle>>

---------------------------------------------------------------------------
(* shouldRun(e, c).  Only one active cooldown row is looked at: when it    *)
(* has expired it is retired and the check falls through, whatever other   *)
(* cooldown rows are active.                                               *)

(* Fault: one expired cooldown opens the gate, but the first is retired. *)
CooldownBlocksWhile(rows) ==
  /\ Active(rows, "cooldown") # {}
  /\ \A i \in Active(rows, "cooldown") : Unexpired(rows[i])

CooldownBlocks(rows) ==
  Active(rows, "cooldown") # {} /\ Unexpired(rows[FirstCooldown(rows)])

(* Fault: the expired row is deleted. *)
DeleteOnAsk(rows) ==
  IF Active(rows, "cooldown") = {} THEN rows
  ELSE LET i == FirstCooldown(rows)
       IN SubSeq(rows, 1, i - 1) \o SubSeq(rows, i + 1, Len(rows))

ExpireOnAsk(rows) ==
  IF Active(rows, "cooldown") = {} THEN rows
  ELSE [rows EXCEPT ![FirstCooldown(rows)].active = FALSE]

Throttled(rows, c) == Active(rows, "throttle") # {} /\ c % 2 # 0

RunRefused(e, c) ==
  /\ \/ /\ Isolated(log[e]) \/ CooldownBlocks(log[e])
        /\ log' = log
     \/ /\ ~Isolated(log[e]) /\ ~CooldownBlocks(log[e])
        /\ Throttled(log[e], c)
        /\ log' = [log EXCEPT ![e] = ExpireOnAsk(@)]
  /\ UNCHANGED <<enabled, loops, now, cycle>>

RunAllowed(e, c) ==
  /\ ~Isolated(log[e])
  /\ ~CooldownBlocks(log[e])
  /\ ~Throttled(log[e], c)
  /\ log' = [log EXCEPT ![e] = ExpireOnAsk(@)]
  /\ UNCHANGED <<enabled, loops, now, cycle>>

---------------------------------------------------------------------------
(* review(c), as the stages the method runs one after another.             *)

(* 1. One action per unresolved detection, again at every review. *)
LoopAction(t, c) ==
  CASE t = "retrigger_spiral" -> NewRow("throttle", NoExpiry, c)
    [] t = "stagnation"       -> NewRow("cooldown", now + LoopCooldown, c)
    [] t = "kpi_gaming"       -> NewRow("escalate", NoExpiry, c)
    [] t = "epistemic_drift"  -> NewRow("isolate", NoExpiry, c)

AfterLoops(rows, found, c) == rows \o [i \in DOMAIN found |-> LoopAction(found[i], c)]

(* 2. Token budget: any active row, of whatever type, suppresses the       *)
(* cooldown of an exhausted engine.                                        *)
AfterBudget(rows, status, c) ==
  CASE status = "exhausted" /\ ~AnyActive(rows) ->
         Record(rows, "cooldown", now + BudgetCooldown, c)
    [] status = "warning" -> Record(rows, "escalate", NoExpiry, c)
    [] OTHER -> rows

(* 3. Three grades F among the recent report cards. *)
AfterGrade(rows, failing, c) ==
  IF failing /\ ~AnyActive(rows)
  THEN Record(rows, "cooldown", now + GradeCooldown, c)
  ELSE rows

(* 3. (sic) Expire old cooldowns: a full restore of the engine. *)
AfterExpiry(rows, c) == IF StaleCooldown(rows) THEN Restored(rows, c) ELSE rows

(* 4. ThrottleLimit throttles in the window, active or not, isolate. *)
Escalates(rows, c) == Cardinality(RecentThrottles(rows, c)) >= ThrottleLimit /\ ~Isolated(rows)

AfterEscalation(rows, c) ==
  IF Escalates(rows, c) THEN Record(rows, "isolate", NoExpiry, c) ELSE rows

BeforeExpiry(rows, found, status, failing, c) ==
  AfterGrade(AfterBudget(AfterLoops(rows, found, c), status, c), failing, c)

(* Fault: repeated throttles are looked at before cooldowns expire. *)
ReviewedEarly(rows, found, status, failing, c) ==
  AfterExpiry(AfterEscalation(BeforeExpiry(rows, found, status, failing, c), c), c)

Reviewed(rows, found, status, failing, c) ==
  AfterEscalation(AfterExpiry(BeforeExpiry(rows, found, status, failing, c), c), c)

(* Fault: the automatic restore forgets the registry. *)
FlagWithoutRestore(flag, rows, found, status, failing, c) ==
  LET before == BeforeExpiry(rows, found, status, failing, c)
  IN IF \/ Escalates(AfterExpiry(before, c), c)
        \/ "epistemic_drift" \in {found[i] : i \in DOMAIN found}
     THEN FALSE ELSE flag

(* The registry flag after the same stages: the last disable or enable     *)
(* wins.                                                                   *)
FlagAfterReview(flag, rows, found, status, failing, c) ==
  LET before == BeforeExpiry(rows, found, status, failing, c)
  IN IF Escalates(AfterExpiry(before, c), c) THEN FALSE
     ELSE \/ StaleCooldown(before)
          \/ flag /\ "epistemic_drift" \notin {found[i] : i \in DOMAIN found}

---------------------------------------------------------------------------
(* The orchestrator's feedback cycle. *)

QuietCycle ==
  /\ cycle < MaxCycle
  /\ (cycle + 1) % ReviewEvery # 0
  /\ cycle' = cycle + 1
  /\ UNCHANGED <<log, enabled, loops, now>>

(* Step 67 appends what the detectors find, step 68 reviews; there is no   *)
(* await between them.                                                     *)
ReviewCycle(detected, status, failing) ==
  LET c == cycle + 1
      found == [e \in Engines |-> loops[e] \o detected[e]]
      after == [e \in Engines |-> Reviewed(log[e], found[e], status[e], e \in failing, c)]
  IN /\ cycle < MaxCycle
     /\ c % ReviewEvery = 0
     /\ \A e \in Engines : Len(found[e]) <= MaxLoops /\ WithinBounds(after[e])
     /\ loops' = found
     /\ log' = after
     /\ enabled' = [e \in Engines |->
                      IF e \in Registered
                      THEN FlagAfterReview(enabled[e], log[e], found[e], status[e],
                                           e \in failing, c)
                      ELSE enabled[e]]
     /\ cycle' = c
     /\ UNCHANGED now

Tick ==
  /\ now < MaxNow
  /\ now' = now + 1
  /\ UNCHANGED <<log, enabled, loops, cycle>>

(* A restart registers every default profile with enabled = true and       *)
(* starts counting cycles from 0; the rows are still there.                *)
Restart ==
  /\ enabled' = [e \in Engines |-> e \in Registered]
  /\ cycle' = 0
  /\ UNCHANGED <<log, loops, now>>

---------------------------------------------------------------------------
(* What the four detectors may add of one engine; getActive reads 50       *)
(* detections, more than the bound has here.                               *)
NewDetections == UNION {[1..n -> LoopTypes] : n \in 0..MaxLoops}

Init ==
  /\ log = [e \in Engines |-> <<>>]
  /\ enabled = [e \in Engines |-> e \in Registered]
  /\ loops = [e \in Engines |-> <<>>]
  /\ now = 0
  /\ cycle = 0

OperatorStep(e) ==
  \/ Throttle(e)
  \/ \E ticks \in ManualCooldowns : Cooldown(e, ticks)
  \/ Isolate(e)
  \/ Restore(e)
  \/ \E value \in BOOLEAN : ToggleFlag(e, value)
  \/ \E i \in DOMAIN loops[e] : Resolve(e, i)

(* The steps that ran a review. *)
ReviewStep == cycle' = cycle + 1 /\ cycle' % ReviewEvery = 0

Ask(e) == RunRefused(e, cycle) \/ RunAllowed(e, cycle)

Review ==
  \E detected \in [Engines -> NewDetections],
     status \in [Engines -> BudgetStatuses],
     failing \in SUBSET Engines :
       ReviewCycle(detected, status, failing)

Next ==
  \/ \E e \in Engines : OperatorStep(e) \/ Ask(e)
  \/ QuietCycle
  \/ Review
  \/ Tick
  \/ Restart

Spec == Init /\ [][Next]_vars

---------------------------------------------------------------------------
(* The rows, flags, detections and counters are those the code can hold.   *)
TypeOK ==
  /\ log \in [Engines -> Seq(Row)]
  /\ enabled \in [Engines -> BOOLEAN]
  /\ loops \in [Engines -> Seq(LoopTypes)]
  /\ now \in Nat
  /\ cycle \in Nat

RowKept(old, new) ==
  /\ new.type = old.type /\ new.expires = old.expires /\ new.cycle = old.cycle
  /\ new.active => old.active

HistoryOf(old, new) ==
  /\ Len(old) <= Len(new)
  /\ \A i \in DOMAIN old : RowKept(old[i], new[i])

(* governance_actions is a history: no step loses or edits a row, and a    *)
(* decision that was retired never governs its engine again.               *)
RetiredStaysRetired == [][\A e \in Engines : HistoryOf(log[e], log'[e])]_vars

(* Isolation and the registry move together: in the step in which an       *)
(* engine becomes isolated its flag ends up off, and in the step in which  *)
(* it stops being isolated the flag ends up on and nothing but "restore"   *)
(* rows is left active, however many stages of a review ran in between.    *)
IsolationEdge(e) ==
  /\ Isolated(log'[e]) /\ e \in Registered => ~enabled'[e]
  /\ ~Isolated(log'[e]) =>
       /\ e \in Registered => enabled'[e]
       /\ \A i \in DOMAIN log'[e] : log'[e][i].active => log'[e][i].type = "restore"

FlagFollowsIsolation ==
  [][\A e \in Engines : Isolated(log[e]) # Isolated(log'[e]) => IsolationEdge(e)]_vars

(* A review never ends with an engine at large that collected three        *)
(* throttles in the window, not even when the same review restored it.     *)
RepeatedThrottlesIsolate ==
  [][ReviewStep => \A e \in Engines :
       Cardinality(RecentThrottles(log'[e], cycle')) >= ThrottleLimit => Isolated(log'[e])]_vars

(* A review never leaves an engine in a cooldown that ended on an earlier  *)
(* day: cooldowns do not outlive their expiry for good even if nobody      *)
(* calls shouldRun.                                                        *)
NoStaleCooldownAfterReview ==
  [][ReviewStep => \A e \in Engines : \A i \in Active(log'[e], "cooldown") :
       ~Stale(log'[e][i])]_vars

(* shouldRun lets an engine run during an unexpired cooldown only by       *)
(* spending a decision: that very call retired another, expired cooldown,  *)
(* so each unexpired cooldown is overlooked at most once per expired row.  *)
(* An isolated engine is never let through.                                *)
CooldownHonoured ==
  [][\A e \in Engines :
       RunAllowed(e, cycle) =>
         /\ ~Isolated(log'[e])
         /\ (\E i \in Active(log[e], "cooldown") : Unexpired(log[e][i])) =>
              \E j \in Active(log[e], "cooldown") :
                ~Unexpired(log[e][j]) /\ ~log'[e][j].active]_vars

(* governance-layer.ts:125 says of isolate "engine completely stopped,     *)
(* manual restore required": isolation only ends in the operator's call.   *)
IsolationNeedsManualRestore ==
  [][\A e \in Engines :
       Isolated(log[e]) /\ ~Isolated(log'[e]) => Restore(e)]_vars
===========================================================================
