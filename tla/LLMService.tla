---------------------------- MODULE LLMService ----------------------------
(***************************************************************************)
(* LLMService (brain-core/src/llm) with EngineTokenBudgetTracker           *)
(* (brain-core/src/governance): concurrent calls of the engines to the     *)
(* providers, under a token budget per engine and a rate limit for paid    *)
(* providers.                                                              *)
(*                                                                         *)
(* A call waits twice: for isAvailable of the providers, and for chat.     *)
(* Between two awaits its code runs alone.  The tracker's reservations and *)
(* caches, the call history and the answer cache live in the process; the  *)
(* rows of llm_usage survive it.  The budgets stay as they are.  A         *)
(* statement on llm_usage may throw: the tracker then takes an engine's    *)
(* usage for zero, and the service goes on without the row.                *)
(***************************************************************************)
EXTENDS Integers, Sequences, FiniteSets, FiniteSetsExt

CONSTANTS
  Calls,         \* calls of LLMService.call, each made once
  Engines,       \* engines that call
  Budgeted,      \* engines that have a token budget
  Providers,     \* registered chat providers
  Paid,          \* providers whose costTier is not free
  Engine,        \* the engine of each call
  Estimate,      \* the tokens each call reserves: maxTokens + 500
  Key,           \* the cache key of each call: template and message
  Route,         \* TaskRouter's order of the providers for each call
  Costs,         \* the tokens an answer may use
  Limit,         \* budget of an engine per window; 0 is no limit
  Span,          \* length of the windows "hourly" and "daily"
  CallsPerHour,  \* maxCallsPerHour (code: 30)
  TokensPer,     \* tokenBudgetPerHour, tokenBudgetPerDay
  UsageTtl,      \* cacheTtlMs of the tracker (code: one minute)
  StaleAfter,    \* when a reservation is stale (code: two minutes)
  AnswerTtl,     \* cacheTtlMs of the service (code: an hour)
  MaxAnswers,    \* maxCacheEntries (code: 500)
  NoUsage,       \* the tracker has cached nothing for an engine
  MaxNow,        \* bound: the clock
  MaxMishaps     \* bound: restarts and throwing statements

Windows == {"hourly", "daily"}

ASSUME CallAssumption ==
  /\ Budgeted \subseteq Engines /\ Paid \subseteq Providers
  /\ Engine \in [Calls -> Engines]
  /\ Estimate \in [Calls -> Nat]
  /\ Route \in [Calls -> Seq(Providers)]
  /\ Costs \subseteq Nat /\ IsFiniteSet(Calls)
ASSUME LimitAssumption ==
  /\ Limit \in [Budgeted -> [Windows -> Nat]]
  /\ Span \in [Windows -> Nat] /\ TokensPer \in [Windows -> Nat]
  /\ {CallsPerHour, UsageTtl, StaleAfter, AnswerTtl, MaxNow, MaxMishaps} \subseteq Nat
  /\ MaxAnswers \in Nat \ {0}

VARIABLES
  now,           \* the clock
  pc,            \* what each call waits for, or how it ended
  chain,         \* providers a call has still to hear from
  reservations,  \* the tracker's reservations
  seen,          \* the tracker's usage cache
  rows,          \* llm_usage where cached = 0
  history,       \* callHistory
  answers,       \* the answer cache, in the order of the Map
  missed,        \* history: calls the tracker has missed
  mishaps        \* restarts and throwing statements so far

vars == <<now, pc, chain, reservations, seen, rows, history, answers, missed,
          mishaps>>

InFlight == {c \in Calls : pc[c] \in {"routing", "asking"}}

Within(w, r) == r.at + Span[w] > now

Tokens(R) == SumFunction([r \in R |-> r.tokens])

MishapHappens ==
  /\ mishaps < MaxMishaps
  /\ mishaps' = mishaps + 1

---------------------------------------------------------------------------
(* EngineTokenBudgetTracker. *)

RowsOf(e, w) == {r \in rows : Engine[r.call] = e /\ Within(w, r)}

(* Fault: what was cached once is used for ever. *)
UsageForEver(e) ==
  IF seen[e] # NoUsage
  THEN seen[e]
  ELSE [used |-> [w \in Windows |-> Tokens(RowsOf(e, w))], at |-> now]

Cached(e) == seen[e] # NoUsage /\ now - seen[e].at < UsageTtl

(* getUsage: from the cache, or from the rows and into the cache. *)
Usage(e) ==
  IF Cached(e)
  THEN seen[e]
  ELSE [used |-> [w \in Windows |-> Tokens(RowsOf(e, w))], at |-> now]

Fresh == {r \in reservations : r.at + StaleAfter >= now}

(* getReservedTokens, once the stale ones are gone. *)
Reserved(e) ==
  SumFunction([r \in {x \in Fresh : Engine[x.call] = e} |-> Estimate[r.call]])

(* blind: a query of getUsage has thrown, and no usage is known of.         *)
Fits(c, blind) ==
  \A w \in Windows :
    LET most == Limit[Engine[c]][w]
        used == IF blind THEN 0 ELSE Usage(Engine[c]).used[w]
    IN most > 0 => used + Reserved(Engine[c]) + Estimate[c] <= most

(* Fault: the usage cache is left as it is. *)
ReleaseQuietly(c) ==
  /\ reservations' = {r \in reservations : r.call # c}
  /\ UNCHANGED seen

(* releaseReservation: nothing happens if the reservation is gone. *)
Release(c) ==
  IF \E r \in reservations : r.call = c
  THEN /\ reservations' = {r \in reservations : r.call # c}
       /\ seen' = [seen EXCEPT ![Engine[c]] = NoUsage]
  ELSE UNCHANGED <<reservations, seen>>

---------------------------------------------------------------------------
(* LLMService. *)

Answered(c) == \E i \in DOMAIN answers : answers[i].key = Key[c] /\ now <= answers[i].expires

(* No two answers have the same key. *)
Without(k) ==
  LET hit == {i \in DOMAIN answers : answers[i].key = k}
  IN IF hit = {} THEN answers
     ELSE [i \in 1 .. Len(answers) - 1 |-> answers[IF i < Min(hit) THEN i ELSE i + 1]]

(* callInternal finds an answer in the cache. *)
CallFromCache(c) ==
  /\ pc[c] = "idle"
  /\ Answered(c)
  /\ pc' = [pc EXCEPT ![c] = "done"]
  /\ UNCHANGED <<now, chain, reservations, seen, rows, history, answers, missed,
                 mishaps>>

(* Or it does not: an expired answer is deleted, and the engine's tokens   *)
(* are reserved before the providers are looked up.                        *)
Miss(c) ==
  /\ pc[c] = "idle"
  /\ ~Answered(c)
  /\ answers' = Without(Key[c])
  /\ UNCHANGED <<now, chain, rows, history>>

(* Waiting calls whose reservation is dropped as a stale one. *)
Dropped == {r.call : r \in {x \in reservations \ Fresh : x.call \in InFlight}}

(* Both outcomes have looked at the usage and dropped stale reservations,  *)
(* of every engine; a usage that could not be read is not cached.          *)
Reckon(c, blind) ==
  /\ Engine[c] \in Budgeted
  /\ IF blind
     THEN ~Cached(Engine[c]) /\ MishapHappens /\ UNCHANGED seen
     ELSE seen' = [seen EXCEPT ![Engine[c]] = Usage(Engine[c])] /\ UNCHANGED mishaps

CallAdmitted(c, blind) ==
  /\ Miss(c)
  /\ Reckon(c, blind)
  /\ Fits(c, blind)
  /\ reservations' = Fresh \cup {[call |-> c, at |-> now]}
  /\ missed' = missed \cup Dropped \cup (IF blind THEN {c} ELSE {})
  /\ pc' = [pc EXCEPT ![c] = "routing"]

CallDenied(c, blind) ==
  /\ Miss(c)
  /\ Reckon(c, blind)
  /\ ~Fits(c, blind)
  /\ reservations' = Fresh
  /\ missed' = missed \cup Dropped
  /\ pc' = [pc EXCEPT ![c] = "denied"]

CallUnbudgeted(c) ==
  /\ Miss(c)
  /\ Engine[c] \notin Budgeted
  /\ pc' = [pc EXCEPT ![c] = "routing"]
  /\ UNCHANGED <<reservations, seen, missed, mishaps>>

PaidSince(w) == {r \in history : r.provider \in Paid /\ Within(w, r)}

(* checkRateLimit and checkTokenBudget. *)
Askable(p) ==
  p \in Paid =>
    /\ Cardinality(PaidSince("hourly")) < CallsPerHour
    /\ \A w \in Windows : Tokens(PaidSince(w)) < TokensPer[w]

(* The providers of s from the first one that may be asked. *)
FromAskable(s) ==
  LET ok == {i \in DOMAIN s : Askable(s[i])}
  IN IF ok = {} THEN <<>> ELSE SubSeq(s, Min(ok), Len(s))

(* Fault: the call gives up without releasing. *)
AskAndLeak(c, s) ==
  /\ chain' = [chain EXCEPT ![c] = FromAskable(s)]
  /\ pc' = [pc EXCEPT ![c] = IF FromAskable(s) = <<>> THEN "failed" ELSE "asking"]
  /\ UNCHANGED <<reservations, seen>>

(* Ask the next provider; if there is none, release and give up. *)
Ask(c, s) ==
  /\ chain' = [chain EXCEPT ![c] = FromAskable(s)]
  /\ IF FromAskable(s) = <<>>
     THEN pc' = [pc EXCEPT ![c] = "failed"] /\ Release(c)
     ELSE pc' = [pc EXCEPT ![c] = "asking"] /\ UNCHANGED <<reservations, seen>>

(* The providers of s that are there, in the order of s. *)
Available(s, there) ==
  LET first[n \in 0 .. Len(s)] ==
        IF n = 0 THEN <<>>
        ELSE IF s[n] \in there THEN Append(first[n - 1], s[n]) ELSE first[n - 1]
  IN first[Len(s)]

(* getProviderChain has heard from every isAvailable.  If no provider is   *)
(* there, the call returns at once and its reservation stays.              *)
Routed(c, available) ==
  /\ pc[c] = "routing"
  /\ LET s == Available(Route[c], available)
     IN IF s = <<>>
        THEN /\ pc' = [pc EXCEPT ![c] = "unavailable"]
             /\ UNCHANGED <<chain, reservations, seen>>
        ELSE Ask(c, s)
  /\ UNCHANGED <<now, rows, history, answers, missed, mishaps>>

(* Fault: the cache grows. *)
StoreAlways(k) == Append(Without(k), [key |-> k, expires |-> now + AnswerTtl])

(* setCache: a full Map loses its oldest entry, whichever key comes in; a  *)
(* key that is still there keeps its place.                                *)
Store(k) ==
  LET kept == IF Len(answers) >= MaxAnswers THEN Tail(answers) ELSE answers
      new  == [key |-> k, expires |-> now + AnswerTtl]
  IN IF \E i \in DOMAIN kept : kept[i].key = k
     THEN [i \in DOMAIN kept |-> IF kept[i].key = k THEN new ELSE kept[i]]
     ELSE Append(kept, new)

(* recordUsage goes on without the row if the statement throws. *)
ChatSucceeds(c, cost, recorded) ==
  /\ pc[c] = "asking"
  /\ LET row == [call |-> c, tokens |-> cost, at |-> now, provider |-> Head(chain[c])]
     IN /\ history' = history \cup {row}
        /\ IF recorded
           THEN rows' = rows \cup {row} /\ UNCHANGED <<missed, mishaps>>
           ELSE UNCHANGED rows /\ missed' = missed \cup {c} /\ MishapHappens
  /\ answers' = Store(Key[c])
  /\ Release(c)
  /\ pc' = [pc EXCEPT ![c] = "done"]
  /\ chain' = [chain EXCEPT ![c] = <<>>]
  /\ UNCHANGED now

ChatFails(c) ==
  /\ pc[c] = "asking"
  /\ Ask(c, Tail(chain[c]))
  /\ UNCHANGED <<now, rows, history, answers, missed, mishaps>>

(* The governance layer and the dashboards read getEngineStatus. *)
ReadUsage(e) ==
  /\ e \in Budgeted
  /\ seen' = [seen EXCEPT ![e] = Usage(e)]
  /\ UNCHANGED <<now, pc, chain, reservations, rows, history, answers, missed,
                 mishaps>>

Tick ==
  /\ now < MaxNow
  /\ now' = now + 1
  /\ UNCHANGED <<pc, chain, reservations, seen, rows, history, answers, missed,
                 mishaps>>

(* The process dies and comes back: only the rows are left. *)
Restart ==
  /\ MishapHappens
  /\ pc' = [c \in Calls |-> IF c \in InFlight THEN "lost" ELSE pc[c]]
  /\ chain' = [c \in Calls |-> <<>>]
  /\ reservations' = {}
  /\ seen' = [e \in Engines |-> NoUsage]
  /\ history' = {}
  /\ answers' = <<>>
  /\ UNCHANGED <<now, rows, missed>>

Init ==
  /\ now = 0
  /\ pc = [c \in Calls |-> "idle"]
  /\ chain = [c \in Calls |-> <<>>]
  /\ reservations = {}
  /\ seen = [e \in Engines |-> NoUsage]
  /\ rows = {}
  /\ history = {}
  /\ answers = <<>>
  /\ missed = {}
  /\ mishaps = 0

CallStep(c) ==
  \/ CallFromCache(c)
  \/ \E blind \in BOOLEAN : CallAdmitted(c, blind) \/ CallDenied(c, blind)
  \/ CallUnbudgeted(c)
  \/ \E available \in SUBSET Providers : Routed(c, available)
  \/ \E cost \in Costs, recorded \in BOOLEAN : ChatSucceeds(c, cost, recorded)
  \/ ChatFails(c)

Next ==
  \/ \E c \in Calls : CallStep(c)
  \/ \E e \in Engines : ReadUsage(e)
  \/ Tick
  \/ Restart

Spec == Init /\ [][Next]_vars

---------------------------------------------------------------------------
Row == [call : Calls, tokens : Costs, at : 0..MaxNow, provider : Providers]

(* Calls, reservations, caches and rows are those the code can hold; the   *)
(* answer cache keeps its bound.                                           *)
TypeOK ==
  /\ now \in 0..MaxNow
  /\ pc \in [Calls -> {"idle", "routing", "asking", "done", "denied",
                       "unavailable", "failed", "lost"}]
  /\ chain \in [Calls -> Seq(Providers)]
  /\ reservations \subseteq [call : Calls, at : 0..MaxNow]
  /\ \A e \in Engines :
       seen[e] # NoUsage => seen[e].used \in [Windows -> Nat] /\ seen[e].at \in 0..now
  /\ rows \subseteq Row /\ history \subseteq Row
  /\ Len(answers) <= MaxAnswers
  /\ \A i, j \in DOMAIN answers : answers[i].key = answers[j].key => i = j
  /\ missed \subseteq Calls
  /\ mishaps \in 0..MaxMishaps

Lesser(a, b) == IF a < b THEN a ELSE b

(* What a call has taken of its engine's budget: its estimate while it     *)
(* waits, then what it used, as far as that was foreseen.                  *)
Claim(c, w) ==
  IF c \in InFlight
  THEN Estimate[c]
  ELSE SumFunction([r \in {x \in rows : x.call = c /\ Within(w, x)} |->
                      Lesser(r.tokens, Estimate[c])])

(* However the calls of an engine interleave, across refreshes of the      *)
(* usage cache, failures, leaks and restarts, they stay within its budget. *)
(* Beyond it go only the part of an answer that exceeds its estimate, and  *)
(* the calls the tracker has missed: one that waits so long that its       *)
(* reservation is dropped, one admitted while the usage could not be read, *)
(* and one whose row could not be written.                                 *)
BudgetKept ==
  \A e \in Budgeted, w \in Windows :
    Limit[e][w] > 0 =>
      SumFunction([c \in {x \in Calls \ missed : Engine[x] = e} |-> Claim(c, w)])
        <= Limit[e][w]

(* A reservation belongs to one call that waits, or to one that found no   *)
(* provider.                                                               *)
ReservationsOwned ==
  \A r \in reservations :
    /\ r.call \in InFlight \/ pc[r.call] = "unavailable"
    /\ \A q \in reservations : q.call = r.call => q = r

(* Tokens that count for an engine, or did within one life of the cache. *)
Counted(e, w) == Tokens({r \in rows : Engine[r.call] = e /\ r.at + Span[w] + UsageTtl > now})

Held(e) ==
  LET held == {r \in reservations : Engine[r.call] = e /\ r.at + StaleAfter >= now}
  IN SumFunction([r \in held |-> Estimate[r.call]])

(* An engine is denied a call only if the call would not have fitted with  *)
(* the rows of the window and one life of the usage cache before it, and   *)
(* with the reservations of the last two minutes: neither a leaked         *)
(* reservation nor an old usage figure starves it for longer.              *)
DenialsJustified ==
  [][\A c \in Calls :
       pc[c] = "idle" /\ pc'[c] = "denied" =>
         \E w \in Windows :
           /\ Limit[Engine[c]][w] > 0
           /\ Counted(Engine[c], w) + Held(Engine[c]) + Estimate[c] > Limit[Engine[c]][w]]_vars

(* llm-service.ts:23 says of maxCallsPerHour "Max API calls per hour (for  *)
(* paid providers)": no more paid calls are answered within an hour.       *)
PaidCallsWithinLimit ==
  Cardinality({r \in rows : r.provider \in Paid /\ Within("hourly", r)}) <= CallsPerHour
===========================================================================
