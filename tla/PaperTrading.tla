--------------------------- MODULE PaperTrading ---------------------------
(***************************************************************************)
(* PaperEngine with its PortfolioManager and PaperRepository               *)
(* (trading-brain/src/paper, src/db/repositories/paper.repository.ts).     *)
(*                                                                         *)
(* A cycle waits once, for the prices; from there to its end it runs       *)
(* alone.  But each of its statements is a commit of its own, so a crash,  *)
(* or a statement that throws, may come between any two of them.           *)
(*                                                                         *)
(* What is bought and sold, at which gain, is DecisionEngine's choice and  *)
(* the market's: any.  Equity and marking to market are left out, as they  *)
(* only serve to size positions.  So are pause and resume: they stop the   *)
(* interval only, and the first timeout, the route paper.cycle and the     *)
(* handler of execute_trade begin cycles of a paused engine all the same.  *)
(***************************************************************************)
EXTENDS Integers, FiniteSets, FiniteSetsExt

CONSTANTS
  Symbols,       \* cryptoIds and stockSymbols
  Sizes,         \* amounts a position may have
  Gains,         \* profits and losses a position may end with
  Start,         \* startingBalance
  MaxPositions,  \* maxPositions (code: 10)
  Timer,         \* the interval of the engine, its first timeout and the
                 \* route paper.cycle
  Traders,       \* the calls of the handler of execute_trade
  None,          \* nobody
  MaxOpens       \* bound: positions ever opened

ASSUME PaperAssumption ==
  /\ Sizes \subseteq Nat /\ Gains \subseteq Int /\ Start \in Int
  /\ Sizes # {} /\ Gains # {} /\ IsFiniteSet(Sizes) /\ IsFiniteSet(Gains)
  /\ {MaxPositions, MaxOpens} \subseteq Nat
  /\ None \notin Traders \cup {Timer} /\ Timer \notin Traders

VARIABLES
  balance,    \* of the last row of paper_balance
  positions,  \* paper_positions
  realised,   \* the sum of pnl_usdt over paper_trades
  opened,     \* positions opened so far: the last id
  cycle,      \* the cycle: its step, its caller and what it has still to do
  mishaps     \* how often a statement has thrown or the process ended

books == <<balance, positions, realised, opened>>
paper == <<books, cycle, mishaps>>

(* In these steps the cycle waits or there is none; in the others it runs. *)
Waits == cycle.step \in {"idle", "prices"}

Idle == [step |-> "idle", by |-> None, exits |-> {}, entries |-> {}, at |-> None]

SymbolsOf(ps) == {p.symbol : p \in ps}

CanOpen == Cardinality(positions) < MaxPositions

---------------------------------------------------------------------------
(* runCycle, as far as its await.  A cycle that is under way turns the call *)
(* into nothing.                                                            *)
Begin(who) ==
  /\ cycle' = IF cycle.step = "idle"
              THEN [Idle EXCEPT !.step = "prices", !.by = who]
              ELSE cycle
  /\ UNCHANGED <<books, mishaps>>

TimerCycle ==
  /\ cycle.step = "idle"
  /\ Begin(Timer)

NoPrices ==
  /\ cycle.step = "prices"
  /\ cycle' = Idle
  /\ UNCHANGED <<books, mishaps>>

(* checkExits: any of the positions, with any gain. *)
Prices ==
  /\ cycle.step = "prices"
  /\ \E out \in SUBSET positions : \E gain \in [out -> Gains] :
       cycle' = [cycle EXCEPT !.step = "exits",
                              !.exits = {[position |-> p, gain |-> gain[p]] : p \in out}]
  /\ UNCHANGED <<books, mishaps>>

(* closePosition: the trade, the position and the balance. *)
RecordTrade ==
  /\ cycle.step = "exits"
  /\ \E e \in cycle.exits :
       /\ cycle' = [cycle EXCEPT !.step = "traded", !.at = e]
       /\ realised' = realised + e.gain
  /\ UNCHANGED <<balance, positions, opened, mishaps>>

DeletePosition ==
  /\ cycle.step = "traded"
  /\ positions' = positions \ {cycle.at.position}
  /\ cycle' = [cycle EXCEPT !.step = "deleted"]
  /\ UNCHANGED <<balance, realised, opened, mishaps>>

(* Fault: the principal stays with the position. *)
CreditGain ==
  /\ cycle.step = "deleted"
  /\ balance' = balance + cycle.at.gain
  /\ cycle' = [cycle EXCEPT !.step = "exits", !.exits = @ \ {cycle.at}, !.at = None]
  /\ UNCHANGED <<positions, realised, opened, mishaps>>

Credit ==
  /\ cycle.step = "deleted"
  /\ balance' = balance + cycle.at.position.size + cycle.at.gain
  /\ cycle' = [cycle EXCEPT !.step = "exits", !.exits = @ \ {cycle.at}, !.at = None]
  /\ UNCHANGED <<positions, realised, opened, mishaps>>

(* checkEntries: any of the symbols that are not open. *)
Enter ==
  /\ cycle.step = "exits" /\ cycle.exits = {} /\ CanOpen
  /\ \E in \in SUBSET (Symbols \ SymbolsOf(positions)) :
       cycle' = [cycle EXCEPT !.step = "entries", !.entries = in]
  /\ UNCHANGED <<books, mishaps>>

(* Fault: whether another position is allowed is asked before the loop. *)
OpenUncounted ==
  /\ cycle.step = "entries" /\ opened < MaxOpens
  /\ \E s \in cycle.entries, size \in Sizes :
       LET p == [id |-> opened + 1, symbol |-> s, size |-> size]
       IN /\ positions' = positions \cup {p}
          /\ cycle' = [cycle EXCEPT !.step = "opened", !.entries = @ \ {s}, !.at = p]
  /\ opened' = opened + 1
  /\ UNCHANGED <<balance, realised, mishaps>>

(* An entry: the position and the balance. *)
Open ==
  /\ cycle.step = "entries" /\ CanOpen /\ opened < MaxOpens
  /\ \E s \in cycle.entries, size \in Sizes :
       LET p == [id |-> opened + 1, symbol |-> s, size |-> size]
       IN /\ positions' = positions \cup {p}
          /\ cycle' = [cycle EXCEPT !.step = "opened", !.entries = @ \ {s}, !.at = p]
  /\ opened' = opened + 1
  /\ UNCHANGED <<balance, realised, mishaps>>

Debit ==
  /\ cycle.step = "opened"
  /\ balance' = balance - cycle.at.size
  /\ cycle' = [cycle EXCEPT !.step = "entries", !.at = None]
  /\ UNCHANGED <<positions, realised, opened, mishaps>>

End ==
  /\ \/ cycle.step = "exits" /\ cycle.exits = {} /\ ~CanOpen
     \/ cycle.step = "entries" /\ (cycle.entries = {} \/ ~CanOpen \/ opened = MaxOpens)
  /\ cycle' = Idle
  /\ UNCHANGED <<books, mishaps>>

(* A statement throws: the catch of runCycle ends the cycle. *)
StatementThrows ==
  /\ ~Waits
  /\ mishaps' = mishaps + 1
  /\ cycle' = Idle
  /\ UNCHANGED books

---------------------------------------------------------------------------
(* Fault: the trades of the past are kept. *)
ResetKeepingTrades ==
  /\ Waits
  /\ positions' = {} /\ balance' = Start
  /\ UNCHANGED <<realised, opened, cycle, mishaps>>

(* The route paper.reset: one transaction; a cycle that waits for its prices is not told. *)
Reset ==
  /\ Waits
  /\ positions' = {} /\ realised' = 0 /\ balance' = Start
  /\ UNCHANGED <<opened, cycle, mishaps>>

PaperCrash ==
  /\ mishaps' = mishaps + 1
  /\ cycle' = Idle
  /\ UNCHANGED books

PaperInit ==
  /\ balance = Start /\ positions = {} /\ realised = 0 /\ opened = 0
  /\ cycle = Idle /\ mishaps = 0

CycleStep ==
  \/ NoPrices \/ Prices
  \/ RecordTrade \/ DeletePosition \/ Credit
  \/ Enter \/ Open \/ Debit \/ End

---------------------------------------------------------------------------
(* Properties *)

PaperTypeOK ==
  LET Position == [id: 1 .. MaxOpens, symbol: Symbols, size: Sizes]
      Exit == [position: Position, gain: Gains]
  IN /\ balance \in Int /\ realised \in Int
     /\ opened \in 0 .. MaxOpens
     /\ positions \subseteq Position
     /\ cycle \in [step: {"idle", "prices", "exits", "traded", "deleted",
                          "entries", "opened"},
                   by: Traders \cup {Timer, None},
                   exits: SUBSET Exit, entries: SUBSET Symbols,
                   at: Exit \cup Position \cup {None}]
     /\ mishaps \in Nat

(* No symbol is held twice, and never more than maxPositions at a time. *)
PositionsInBounds ==
  /\ Cardinality(positions) <= MaxPositions
  /\ \A p, q \in positions : p.symbol = q.symbol => p = q

Held == SumFunction([p \in positions |-> p.size])

(* What the books are off by: money made of nothing or lost. *)
Discrepancy == balance + Held - Start - realised
===========================================================================
