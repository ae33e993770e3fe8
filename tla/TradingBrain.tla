--------------------------- MODULE TradingBrain ---------------------------
(***************************************************************************)
(* The ActionBridge of the trading brain with the PaperEngine behind its   *)
(* handler of execute_trade (trading-brain/src/init/engine-factory.ts and  *)
(* brain-core/src/action/handlers/trade-handler.ts).  The handler runs a   *)
(* cycle of the engine and waits for it; when one is under way already, it *)
(* is through at once.  The handler of start_mission does nothing here.    *)
(***************************************************************************)
EXTENDS ActionBridge, PaperTrading

CONSTANTS
  ExecuteTrade,  \* a type of actions
  MaxMishaps     \* bound: crashes, and statements of a cycle that throw

ASSUME TradeAssumption == Traders = Ids /\ ExecuteTrade \in Handled /\ MaxMishaps \in Nat

vars == <<bridge, paper>>

(* The part of a handler that runs before its await.  That of execute_trade *)
(* throws before it begins a cycle if the payload's confidence is no number. *)
Handler(a) ==
  \/ queue[a].type = ExecuteTrade /\ Begin(a)
  \/ UNCHANGED paper

(* Fault: the handler does not await the cycle. *)
ThroughAtOnce(c) == c \in calls

(* The handler of execute_trade waits for the cycle it began. *)
Through(c) == cycle.by # c.action

Init == BridgeInit /\ PaperInit

Proposes ==
  /\ Waits
  /\ \E kind \in Kinds : Propose(kind)
  /\ UNCHANGED paper

(* A feedback cycle at its step 59. *)
WalkGoesOn(w) ==
  /\ Waits
  /\ \/ /\ \/ StartWalk(w)
           \/ \E a \in Ids : WalkFindsNoHandler(w, a) \/ WalkSkips(w, a)
        /\ UNCHANGED paper
     \/ \E a \in Ids : WalkInvokes(w, a) /\ Handler(a)

Settles(c) ==
  /\ Waits /\ Through(c)
  /\ \E ok \in BOOLEAN : HandlerSettles(c, ok)
  /\ UNCHANGED paper

(* The routes action.execute, action.outcome and action.rollback. *)
Operates(a) ==
  /\ Waits
  /\ \/ RouteInvokes(a) /\ Handler(a)
     \/ /\ \/ RouteFindsNoHandler(a)
           \/ \E ok \in BOOLEAN : RecordOutcome(a, ok)
           \/ Rollback(a)
        /\ UNCHANGED paper

Trades ==
  /\ TimerCycle \/ CycleStep \/ Reset
  /\ UNCHANGED bridge

Mishap == mishaps < MaxMishaps

Throws == Mishap /\ StatementThrows /\ UNCHANGED bridge

Crash == Mishap /\ BridgeCrash /\ PaperCrash

Next ==
  \/ Proposes
  \/ \E w \in Walks : WalkGoesOn(w)
  \/ \E c \in calls : Settles(c)
  \/ \E a \in Ids : Operates(a)
  \/ Trades \/ Throws \/ Crash

(* Feedback cycles are begun for ever, with step 59 among their steps; a    *)
(* walk goes on when its handler is through, for which it has to find the   *)
(* engine waiting: the sections that run alone are short and come to their  *)
(* end.  A cycle gets its prices, or none: the fetches set no timeout, those *)
(* of the runtime end them.                                                 *)
Fairness ==
  /\ \A w \in Walks :
       /\ SF_vars(WalkGoesOn(w))
       /\ SF_vars(\E c \in calls : c.by = w /\ Settles(c))
  /\ WF_vars(CycleStep /\ UNCHANGED bridge)

Spec == Init /\ [][Next]_vars /\ Fairness

---------------------------------------------------------------------------
(* Properties *)

(* The state of both parts is well typed, and a cycle of an action has a *)
(* handler that waits for it.                                            *)
TypeOK ==
  /\ BridgeTypeOK /\ PaperTypeOK
  /\ cycle.by \in Ids => \E c \in calls : c.action = cycle.by

(* Money is neither made nor lost: between two cycles, and while one waits   *)
(* for its prices, what is in cash and what is held are the starting balance *)
(* and the realised profits; a crash or a statement that throws in a cycle   *)
(* may cost or give the amount of one position and its gain, no more.        *)
BooksBalance ==
  LET largest == Max(Sizes) + Max({IF g < 0 THEN -g ELSE g : g \in Gains})
      off == IF Discrepancy < 0 THEN -Discrepancy ELSE Discrepancy
  IN Waits => off <= mishaps * largest

(* An action that is pending and sure enough does not stay pending: some    *)
(* walk comes to it, also after a crash.                                    *)
SureActionsAreExecuted ==
  \A a \in Ids :
    (a \in Pending /\ queue[a].sure) ~> (a \notin Pending)
===========================================================================
