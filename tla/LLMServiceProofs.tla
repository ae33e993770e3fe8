------------------------- MODULE LLMServiceProofs -------------------------
(***************************************************************************)
(* Proofs about LLMService for any calls, engines, providers, limits and   *)
(* lifetimes: the types, who holds a reservation, that engines stay within *)
(* their budgets, and that they are denied only what does not fit.         *)
(***************************************************************************)
EXTENDS LLMService, Sums

(* Where a call can be. *)
Places == {"idle", "routing", "asking", "done", "denied", "unavailable", "failed", "lost"}

PcType == pc \in [Calls -> Places]

(* Reservations are made for calls. *)
ForCalls == \A r \in reservations : r.call \in Calls

IInv == PcType /\ ForCalls /\ ReservationsOwned

(* A call with a reservation cannot be in a place where it must not be. *)
LEMMA OwnersPlace ==
  ASSUME IInv, NEW r \in reservations
  PROVE  r.call \in Calls /\ pc[r.call] \in {"routing", "asking", "unavailable"}
BY DEF IInv, ForCalls, ReservationsOwned, InFlight

(* A call that moves without touching reservations must have none, or move *)
(* to a place where it may keep it.                                        *)
LEMMA MoveKeeps ==
  ASSUME IInv, NEW c \in Calls, NEW p \in Places,
         pc' = [pc EXCEPT ![c] = p], reservations' \subseteq reservations,
         \/ pc[c] \in {"idle", "done"}
         \/ p \in {"routing", "asking", "unavailable"}
         \/ \A r \in reservations' : r.call # c
  PROVE  IInv'
<1>1. PcType' BY DEF IInv, PcType
<1>2. ForCalls' BY DEF IInv, ForCalls
<1>3. ASSUME NEW r \in reservations'
      PROVE  /\ r.call \in InFlight' \/ pc'[r.call] = "unavailable"
             /\ \A q \in reservations' : q.call = r.call => q = r
  <2>1. r \in reservations BY <1>3
  <2>2. r.call \in Calls /\ pc[r.call] \in {"routing", "asking", "unavailable"}
    BY <2>1, OwnersPlace
  <2>3. pc'[r.call] \in {"routing", "asking", "unavailable"}
    <3>1. CASE r.call = c BY <1>3, <2>2, <3>1 DEF IInv, PcType
    <3>2. CASE r.call # c BY <2>2, <3>2 DEF IInv, PcType
    <3> QED BY <3>1, <3>2
  <2> QED BY <2>1, <2>2, <2>3 DEF IInv, ReservationsOwned, InFlight
<1>4. ReservationsOwned' BY <1>3 DEF ReservationsOwned
<1> QED BY <1>1, <1>2, <1>4 DEF IInv

(* Release takes every reservation of the call away, and no other. *)
LEMMA ReleaseRemoves ==
  ASSUME NEW c, Release(c)
  PROVE  reservations' \subseteq reservations /\ \A r \in reservations' : r.call # c
BY DEF Release

(* Asking either goes on to a provider or releases. *)
LEMMA AskKeeps ==
  ASSUME IInv, NEW c \in Calls, NEW s, Ask(c, s)
  PROVE  IInv'
<1>1. CASE FromAskable(s) = <<>>
  BY <1>1, ReleaseRemoves, MoveKeeps DEF Ask, Places
<1>2. CASE FromAskable(s) # <<>>
  BY <1>2, MoveKeeps DEF Ask, Places
<1> QED BY <1>1, <1>2

(* Every step keeps reservations with their owners. *)
LEMMA NextKeeps ==
  ASSUME IInv, [Next]_vars
  PROVE  IInv'
<1>1. ASSUME NEW c \in Calls, CallFromCache(c) PROVE IInv'
  BY <1>1, MoveKeeps DEF CallFromCache, Places
<1>2. ASSUME NEW c \in Calls, NEW blind \in BOOLEAN, CallAdmitted(c, blind) PROVE IInv'
  <2> DEFINE new == [call |-> c, at |-> now]
  <2>1. /\ pc[c] = "idle" /\ pc' = [pc EXCEPT ![c] = "routing"]
        /\ reservations' = Fresh \cup {new}
    BY <1>2 DEF CallAdmitted, Miss
  <2>2. Fresh \subseteq reservations BY DEF Fresh
  <2>3. \A r \in reservations : r.call # c BY <2>1, OwnersPlace
  <2>4. new.call = c OBVIOUS
  <2> HIDE DEF new
  <2>5. PcType' BY <2>1 DEF IInv, PcType, Places
  <2>6. ForCalls' BY <2>1, <2>2, <2>4 DEF IInv, ForCalls
  <2>7. ASSUME NEW r \in reservations'
        PROVE  /\ r.call \in InFlight' \/ pc'[r.call] = "unavailable"
               /\ \A q \in reservations' : q.call = r.call => q = r
    <3>1. CASE r = new
      <4>1. pc'[c] = "routing" BY <2>1 DEF IInv, PcType
      <4> QED BY <2>1, <2>2, <2>3, <2>4, <3>1, <4>1 DEF InFlight
    <3>2. CASE r # new
      <4>1. r \in reservations BY <2>1, <2>2, <2>7, <3>2
      <4>2. r.call # c BY <2>3, <4>1
      <4>3. r.call \in Calls /\ pc[r.call] \in {"routing", "asking", "unavailable"}
        BY <4>1, OwnersPlace
      <4>4. pc'[r.call] = pc[r.call] BY <2>1, <4>2, <4>3 DEF IInv, PcType
      <4>5. \A q \in reservations' : q.call = r.call => q = r
        BY <2>1, <2>2, <2>4, <4>1, <4>2 DEF IInv, ReservationsOwned
      <4> QED BY <4>3, <4>4, <4>5 DEF InFlight
    <3> QED BY <3>1, <3>2
  <2>8. ReservationsOwned' BY <2>7 DEF ReservationsOwned
  <2> QED BY <2>5, <2>6, <2>8 DEF IInv
<1>3. ASSUME NEW c \in Calls, NEW blind \in BOOLEAN, CallDenied(c, blind) PROVE IInv'
  <2>1. reservations' \subseteq reservations BY <1>3 DEF CallDenied, Fresh
  <2> QED BY <1>3, <2>1, MoveKeeps DEF CallDenied, Miss, Places
<1>4. ASSUME NEW c \in Calls, CallUnbudgeted(c) PROVE IInv'
  BY <1>4, MoveKeeps DEF CallUnbudgeted, Miss, Places
<1>5. ASSUME NEW c \in Calls, NEW available, Routed(c, available) PROVE IInv'
  <2> DEFINE s == Available(Route[c], available)
  <2>1. CASE s = <<>> BY <1>5, <2>1, MoveKeeps DEF Routed, Places
  <2>2. CASE s # <<>>
    <3>1. Ask(c, s) BY <1>5, <2>2 DEF Routed
    <3> HIDE DEF s
    <3> QED BY <3>1, AskKeeps
  <2> QED BY <2>1, <2>2
<1>6. ASSUME NEW c \in Calls, NEW cost, NEW recorded \in BOOLEAN,
             ChatSucceeds(c, cost, recorded) PROVE IInv'
  BY <1>6, ReleaseRemoves, MoveKeeps DEF ChatSucceeds, Places
<1>7. ASSUME NEW c \in Calls, ChatFails(c) PROVE IInv'
  BY <1>7, AskKeeps DEF ChatFails
<1>8. ASSUME UNCHANGED <<pc, reservations>> PROVE IInv'
  BY <1>8 DEF IInv, PcType, ForCalls, ReservationsOwned, InFlight
<1>9. ASSUME NEW e \in Engines, ReadUsage(e) PROVE IInv'
  BY <1>8, <1>9 DEF ReadUsage
<1>10. CASE Tick BY <1>8, <1>10 DEF Tick
<1>11. CASE Restart
  BY <1>11 DEF Restart, IInv, PcType, ForCalls, ReservationsOwned, Places
<1>12. CASE UNCHANGED vars BY <1>8, <1>12 DEF vars
<1> QED
  BY <1>1, <1>2, <1>3, <1>4, <1>5, <1>6, <1>7, <1>9, <1>10, <1>11, <1>12
  DEF Next, CallStep

(* A reservation belongs to one call that waits, or to one that found no   *)
(* provider: every other way out of LLMService.call releases it, a restart *)
(* included.                                                               *)
THEOREM ReservationsHaveOwners == Spec => []ReservationsOwned
<1>1. Init => IInv
  BY DEF Init, IInv, PcType, ForCalls, ReservationsOwned, Places
<1>2. IInv /\ [Next]_vars => IInv' BY NextKeeps
<1>3. IInv => ReservationsOwned BY DEF IInv
<1> QED BY <1>1, <1>2, <1>3, PTL DEF Spec
---------------------------------------------------------------------------
(* The operators: what they make of well-typed state. *)

Answer == [key : {Key[c] : c \in Calls}, expires : Nat]

Reservation == [call : Calls, at : 0..MaxNow]

Figures == [used : [Windows -> Nat], at : 0..MaxNow]

CallTypes ==
  /\ now \in 0..MaxNow /\ mishaps \in 0..MaxMishaps /\ missed \subseteq Calls
  /\ pc \in [Calls -> Places] /\ chain \in [Calls -> Seq(Providers)]
  /\ \A c \in Calls : pc[c] = "asking" => chain[c] # <<>>

BudgetTypes ==
  /\ reservations \subseteq Reservation
  /\ seen \in [Engines -> {NoUsage} \cup Figures]
  /\ \A e \in Engines : seen[e] # NoUsage => seen[e].at <= now

RowTypes == rows \subseteq Row /\ IsFiniteSet(rows) /\ history \subseteq Row

AnswerTypes ==
  /\ answers \in Seq(Answer) /\ Len(answers) <= MaxAnswers
  /\ \A i, j \in DOMAIN answers : answers[i].key = answers[j].key => i = j

Types == CallTypes /\ BudgetTypes /\ RowTypes /\ AnswerTypes

(* The list that getProviderChain makes, after each of the providers. *)
Lists(f, s, there, k) ==
  f = [n \in 0 .. k |->
         IF n = 0 THEN <<>>
         ELSE IF s[n] \in there THEN Append(f[n - 1], s[n]) ELSE f[n - 1]]

LEMMA ListsMore ==
  ASSUME NEW s, NEW there, NEW k \in Nat, NEW f, Lists(f, s, there, k)
  PROVE  \E h : Lists(h, s, there, k + 1)
<1> DEFINE h == [n \in 0 .. k + 1 |->
                   IF n = 0 THEN <<>>
                   ELSE IF s[n] \in there THEN Append(f[n - 1], s[n]) ELSE f[n - 1]]
<1>1. \A n \in 0 .. k : n \in 0 .. k + 1 OBVIOUS
<1>2. \A n \in 0 .. k + 1 : n # 0 => n - 1 \in 0 .. k OBVIOUS
<1>3. \A n \in 0 .. k : h[n] = f[n] BY <1>1 DEF Lists
<1>4. h = [n \in 0 .. k + 1 |->
             IF n = 0 THEN <<>>
             ELSE IF s[n] \in there THEN Append(h[n - 1], s[n]) ELSE h[n - 1]]
  BY <1>2, <1>3
<1> HIDE DEF h
<1> QED BY <1>4 DEF Lists

LEMMA ListsExist ==
  ASSUME NEW s, NEW there, NEW k \in Nat
  PROVE  \E f : Lists(f, s, there, k)
<1> DEFINE Bad == {n \in Nat : ~ \E f : Lists(f, s, there, n)}
<1>1. 0 \notin Bad
  <2> DEFINE f == [n \in 0 .. 0 |-> <<>>]
  <2>1. Lists(f, s, there, 0) BY DEF Lists
  <2> QED BY <2>1
<1>2. \A n \in Nat : n \notin Bad => n + 1 \notin Bad BY ListsMore
<1>3. Bad \subseteq Nat OBVIOUS
<1>4. Bad = {}
  <2> HIDE DEF Bad
  <2> SUFFICES ASSUME Bad # {} PROVE FALSE
    OBVIOUS
  <2>1. PICK n \in Bad : \A m \in Bad : n <= m BY <1>3, Least
  <2>2. n # 0 /\ n \in Nat BY <1>1, <1>3
  <2>3. n - 1 \in Nat /\ ~(n <= n - 1) /\ (n - 1) + 1 = n BY <2>2
  <2>4. n - 1 \notin Bad BY <2>1, <2>3
  <2> QED BY <1>2, <2>3, <2>4
<1> QED BY <1>4

(* The chain is a list of providers. *)
LEMMA AvailableType ==
  ASSUME NEW s \in Seq(Providers), NEW there
  PROVE  Available(s, there) \in Seq(Providers)
<1> DEFINE k == Len(s)
           f == CHOOSE g : Lists(g, s, there, k)
<1>1. k \in Nat OBVIOUS
<1>2. Available(s, there) = f[k] BY DEF Available, Lists
<1>3. Lists(f, s, there, k) BY <1>1, ListsExist
<1>4. \A n \in 1 .. k : s[n] \in Providers OBVIOUS
<1> HIDE DEF f, k
<1>5. f[0] = <<>> BY <1>1, <1>3 DEF Lists
<1>6. \A n \in 1 .. k : f[n] = IF s[n] \in there THEN Append(f[n - 1], s[n]) ELSE f[n - 1]
  <2>1. \A n \in 1 .. k : n \in 0 .. k /\ n # 0 BY <1>1
  <2> QED BY <1>3, <2>1 DEF Lists
<1> DEFINE Bad == {n \in 0 .. k : f[n] \notin Seq(Providers)}
<1>7. 0 \notin Bad
  <2>1. f[0] \in Seq(Providers) BY <1>5
  <2> QED BY <2>1
<1>8. ASSUME NEW n \in 1 .. k, n - 1 \notin Bad PROVE n \notin Bad
  <2>1. f[n - 1] \in Seq(Providers) BY <1>1, <1>8
  <2>2. Append(f[n - 1], s[n]) \in Seq(Providers) BY <1>4, <2>1
  <2> QED BY <1>6, <2>1, <2>2
<1>9. Bad \subseteq Nat /\ Bad \subseteq 0 .. k BY <1>1
<1>10. Bad = {}
  <2> HIDE DEF Bad
  <2> SUFFICES ASSUME Bad # {} PROVE FALSE
    OBVIOUS
  <2>1. PICK n \in Bad : \A m \in Bad : n <= m BY <1>9, Least
  <2>2. n # 0 /\ n \in Nat /\ n \in 0 .. k BY <1>7, <1>9
  <2>3. n \in 1 .. k /\ n - 1 \in Nat /\ ~(n <= n - 1) BY <1>1, <2>2
  <2>4. n - 1 \notin Bad BY <2>1, <2>3
  <2> QED BY <1>8, <2>3, <2>4
<1>11. k \in 0 .. k BY <1>1
<1> QED BY <1>2, <1>10, <1>11

LEMMA MinIs ==
  ASSUME NEW T, T \subseteq Nat, T # {}
  PROVE  Min(T) \in T /\ \A k \in T : Min(T) <= k
<1>1. \E n \in T : \A k \in T : n <= k BY Least
<1> QED BY <1>1 DEF Min

LEMMA FromAskableType ==
  ASSUME NEW s \in Seq(Providers)
  PROVE  FromAskable(s) \in Seq(Providers)
<1> DEFINE ok == {i \in DOMAIN s : Askable(s[i])}
<1>1. CASE ok = {} BY <1>1 DEF FromAskable
<1>2. CASE ok # {}
  <2>1. ok \subseteq 1 .. Len(s) /\ ok \subseteq Nat OBVIOUS
  <2>2. FromAskable(s) = SubSeq(s, Min(ok), Len(s)) BY <1>2 DEF FromAskable
  <2> HIDE DEF ok
  <2>3. Min(ok) \in 1 .. Len(s) BY <1>2, <2>1, MinIs
  <2> QED BY <2>2, <2>3
<1> QED BY <1>1, <1>2

(* The sum of the tokens of a set of rows; fewer rows, fewer tokens. *)
LEMMA TokensOf ==
  ASSUME NEW R \in SUBSET Row, IsFiniteSet(R)
  PROVE  /\ Tokens(R) \in Nat
         /\ \A Q \in SUBSET R : Tokens(Q) <= Tokens(R)
<1> DEFINE g == [r \in R |-> r.tokens]
<1>1. \A r \in Row : r.tokens \in Nat BY CallAssumption DEF Row
<1>2. DOMAIN g = R /\ \A r \in R : g[r] = r.tokens OBVIOUS
<1>3. Tokens(R) = SumFunctionOnSet(g, R) BY <1>2 DEF Tokens, SumFunction
<1> HIDE DEF g
<1>4. SumFunctionOnSet(g, R) \in Nat BY <1>1, <1>2, SumBelow
<1>5. ASSUME NEW Q \in SUBSET R PROVE Tokens(Q) <= Tokens(R)
  <2> DEFINE f == [r \in Q |-> r.tokens]
  <2>1. DOMAIN f = Q /\ \A r \in Q : f[r] = r.tokens OBVIOUS
  <2>2. Tokens(Q) = SumFunctionOnSet(f, Q) BY <2>1 DEF Tokens, SumFunction
  <2> HIDE DEF f
  <2>3. \A r \in Q : f[r] \in Int /\ f[r] <= g[r] BY <1>1, <1>2, <2>1
  <2>4. SumFunctionOnSet(f, Q) <= SumFunctionOnSet(g, R) BY <1>1, <1>2, <2>3, SumBelow
  <2> QED BY <1>3, <2>2, <2>4
<1> QED BY <1>3, <1>4, <1>5

LEMMA UsageType ==
  ASSUME CallTypes, BudgetTypes, RowTypes, NEW e \in Engines
  PROVE  Usage(e) \in Figures /\ Usage(e).at <= now
<1>1. CASE Cached(e)
  BY <1>1 DEF Usage, Cached, BudgetTypes
<1>2. CASE ~Cached(e)
  <2> DEFINE used == [w \in Windows |-> Tokens(RowsOf(e, w))]
  <2>1. \A w \in Windows : Tokens(RowsOf(e, w)) \in Nat
    BY TokensOf, FS_Subset DEF RowsOf, RowTypes
  <2>2. used \in [Windows -> Nat] BY <2>1
  <2>3. Usage(e) = [used |-> used, at |-> now] BY <1>2 DEF Usage
  <2> HIDE DEF used
  <2>4. now \in 0..MaxNow /\ MaxNow \in Nat BY LimitAssumption DEF CallTypes
  <2> QED BY <2>2, <2>3, <2>4 DEF Figures
<1> QED BY <1>1, <1>2

LEMMA WithoutType ==
  ASSUME AnswerTypes, NEW k
  PROVE  LET kept == Without(k)
         IN /\ kept \in Seq(Answer) /\ Len(kept) <= MaxAnswers
            /\ \A i, j \in DOMAIN kept : kept[i].key = kept[j].key => i = j
<1> DEFINE kept == Without(k)
           hit == {i \in DOMAIN answers : answers[i].key = k}
<1>1. CASE hit = {} BY <1>1 DEF Without, AnswerTypes
<1>2. CASE hit # {}
  <2>1. answers \in Seq(Answer) BY DEF AnswerTypes
  <2>2. hit \subseteq Nat /\ hit \subseteq 1 .. Len(answers) BY <2>1
  <2> DEFINE m == Min(hit)
             n == Len(answers)
             at(i) == IF i < m THEN i ELSE i + 1
  <2>3. kept = [i \in 1 .. n - 1 |-> answers[at(i)]] BY <1>2 DEF Without
  <2>4. m \in 1 .. n /\ n \in Nat /\ MaxAnswers \in Nat
    <3>1. m \in hit BY <1>2, <2>2, MinIs
    <3>2. n \in Nat BY <2>1
    <3> QED BY <2>2, <3>1, <3>2, LimitAssumption
  <2>5. n - 1 \in Nat /\ n <= MaxAnswers BY <2>4 DEF AnswerTypes
  <2> HIDE DEF hit, m, n, kept
  <2>6. /\ \A i \in 1 .. n - 1 : at(i) \in 1 .. n
        /\ \A i, j \in 1 .. n - 1 : at(i) = at(j) => i = j
    BY <2>4
  <2> HIDE DEF at
  <2>7. \A i \in 1 .. n : answers[i] \in Answer BY <2>1 DEF n
  <2>8. \A i \in 1 .. n - 1 : kept[i] = answers[at(i)] /\ kept[i] \in Answer
    BY <2>3, <2>6, <2>7
  <2>9. kept = [i \in 1 .. n - 1 |-> kept[i]] BY <2>3, <2>8
  <2>10. kept \in Seq(Answer) /\ Len(kept) = n - 1 /\ DOMAIN kept = 1 .. n - 1
    BY <2>3, <2>5, <2>8, <2>9
  <2>11. Len(kept) <= MaxAnswers BY <2>4, <2>5, <2>10
  <2>12. DOMAIN answers = 1 .. n BY <2>1 DEF n
  <2>13. \A i, j \in DOMAIN kept : kept[i].key = kept[j].key => i = j
    BY <2>6, <2>8, <2>10, <2>12 DEF AnswerTypes
  <2> QED BY <2>10, <2>11, <2>13 DEF kept
<1> QED BY <1>1, <1>2

(* A full cache makes room; an entry is put in place of the one of its key, *)
(* or at the end.                                                           *)
LEMMA StoreType ==
  ASSUME CallTypes, AnswerTypes, NEW c \in Calls
  PROVE  LET kept == Store(Key[c])
         IN /\ kept \in Seq(Answer) /\ Len(kept) <= MaxAnswers
            /\ \A i, j \in DOMAIN kept : kept[i].key = kept[j].key => i = j
<1> DEFINE k == Key[c]
           old == IF Len(answers) >= MaxAnswers THEN Tail(answers) ELSE answers
           new == [key |-> k, expires |-> now + AnswerTtl]
           kept == Store(k)
<1>1. new \in Answer /\ new.key = k
  BY LimitAssumption DEF CallTypes, Answer
<1>2. answers \in Seq(Answer) /\ MaxAnswers \in Nat /\ MaxAnswers > 0
  BY LimitAssumption DEF AnswerTypes
<1>3. old \in Seq(Answer) /\ Len(old) < MaxAnswers
  <2>1. CASE Len(answers) >= MaxAnswers
    <3>1. answers # <<>> BY <1>2, <2>1
    <3>2. Len(Tail(answers)) = Len(answers) - 1 /\ Tail(answers) \in Seq(Answer)
      BY <1>2, <3>1
    <3> QED BY <1>2, <2>1, <3>2 DEF AnswerTypes
  <2>2. CASE ~(Len(answers) >= MaxAnswers) BY <1>2, <2>2
  <2> QED BY <2>1, <2>2
<1>4. \A i, j \in DOMAIN old : old[i].key = old[j].key => i = j
  <2>1. CASE Len(answers) >= MaxAnswers
    <3>1. answers # <<>> BY <1>2, <2>1
    <3>2. old = Tail(answers) BY <2>1
    <3>3. \A i \in DOMAIN old : i \in Nat /\ i + 1 \in DOMAIN answers /\ old[i] = answers[i + 1]
      BY <1>2, <3>1, <3>2
    <3> QED BY <3>3 DEF AnswerTypes
  <2>2. CASE ~(Len(answers) >= MaxAnswers) BY <2>2 DEF AnswerTypes
  <2> QED BY <2>1, <2>2
<1>5. kept = IF \E i \in DOMAIN old : old[i].key = k
             THEN [i \in DOMAIN old |-> IF old[i].key = k THEN new ELSE old[i]]
             ELSE Append(old, new)
  BY DEF Store
<1> HIDE DEF old, new, kept
<1>6. CASE \E i \in DOMAIN old : old[i].key = k
  <2>1. kept = [i \in DOMAIN old |-> IF old[i].key = k THEN new ELSE old[i]]
    BY <1>5, <1>6
  <2>2. DOMAIN old = 1 .. Len(old) /\ Len(old) \in Nat BY <1>3
  <2>3. \A i \in 1 .. Len(old) : kept[i] \in Answer /\ kept[i].key = old[i].key
    BY <1>1, <1>3, <2>1, <2>2
  <2>4. kept \in Seq(Answer) /\ Len(kept) = Len(old) /\ DOMAIN kept = DOMAIN old
    BY <2>1, <2>2, <2>3
  <2>5. Len(kept) <= MaxAnswers BY <1>2, <1>3, <2>2, <2>4
  <2>6. \A i, j \in DOMAIN kept : kept[i].key = kept[j].key => i = j
    BY <1>4, <2>2, <2>3, <2>4
  <2> QED BY <2>4, <2>5, <2>6 DEF kept
<1>7. CASE ~ \E i \in DOMAIN old : old[i].key = k
  <2>1. kept = Append(old, new) BY <1>5, <1>7
  <2>2. DOMAIN old = 1 .. Len(old) /\ Len(old) \in Nat BY <1>3
  <2>3. /\ kept \in Seq(Answer) /\ Len(kept) = Len(old) + 1
        /\ \A i \in 1 .. Len(old) : kept[i] = old[i]
        /\ kept[Len(old) + 1] = new
    BY <1>1, <1>3, <2>1
  <2>4. Len(kept) <= MaxAnswers BY <1>2, <1>3, <2>2, <2>3
  <2>5. DOMAIN kept = 1 .. Len(old) + 1 BY <2>3
  <2>6. \A i \in DOMAIN kept : \/ i \in DOMAIN old /\ kept[i] = old[i] /\ kept[i].key # k
                               \/ i = Len(old) + 1 /\ kept[i].key = k
    BY <1>1, <1>7, <2>2, <2>3, <2>5
  <2>7. \A i, j \in DOMAIN kept : kept[i].key = kept[j].key => i = j
    BY <1>4, <2>6
  <2> QED BY <2>3, <2>4, <2>7 DEF kept
<1> QED BY <1>6, <1>7

LEMMA ReleaseType ==
  ASSUME BudgetTypes, NEW c \in Calls, Release(c), now' = now
  PROVE  BudgetTypes'
<1>1. Engine[c] \in Engines BY CallAssumption
<1>2. CASE \E r \in reservations : r.call = c
  <2>1. /\ reservations' \subseteq reservations
        /\ seen' = [seen EXCEPT ![Engine[c]] = NoUsage]
    BY <1>2 DEF Release
  <2> QED BY <1>1, <2>1 DEF BudgetTypes
<1>3. CASE ~ \E r \in reservations : r.call = c
  BY <1>3 DEF Release, BudgetTypes
<1> QED BY <1>2, <1>3

LEMMA AskType ==
  ASSUME CallTypes, BudgetTypes, NEW c \in Calls, NEW s \in Seq(Providers), Ask(c, s),
         UNCHANGED <<now, missed, mishaps>>
  PROVE  CallTypes' /\ BudgetTypes'
<1> DEFINE t == FromAskable(s)
<1>1. t \in Seq(Providers) BY FromAskableType
<1>2. chain' = [chain EXCEPT ![c] = t] BY DEF Ask
<1>3. CASE t = <<>>
  <2>1. pc' = [pc EXCEPT ![c] = "failed"] /\ Release(c) BY <1>3 DEF Ask
  <2> HIDE DEF t
  <2>2. CallTypes' BY <1>1, <1>2, <2>1 DEF CallTypes, Places
  <2> QED BY <2>1, <2>2, ReleaseType
<1>4. CASE t # <<>>
  <2>1. pc' = [pc EXCEPT ![c] = "asking"] /\ UNCHANGED <<reservations, seen>>
    BY <1>4 DEF Ask
  <2> HIDE DEF t
  <2>2. CallTypes' BY <1>1, <1>2, <1>4, <2>1 DEF CallTypes, Places
  <2>3. BudgetTypes' BY <2>1 DEF BudgetTypes
  <2> QED BY <2>2, <2>3
<1> QED BY <1>3, <1>4

LEMMA MissType ==
  ASSUME Types, NEW c \in Calls, Miss(c)
  PROVE  AnswerTypes' /\ RowTypes'
<1>1. AnswerTypes' BY WithoutType DEF Miss, AnswerTypes, Types
<1>2. RowTypes' BY DEF Miss, RowTypes, Types
<1> QED BY <1>1, <1>2

LEMMA ReckonType ==
  ASSUME Types, NEW c \in Calls, NEW blind \in BOOLEAN, Reckon(c, blind), now' = now
  PROVE  /\ mishaps' \in 0..MaxMishaps /\ seen' \in [Engines -> {NoUsage} \cup Figures]
         /\ \A e \in Engines : seen'[e] # NoUsage => seen'[e].at <= now'
<1>1. Engine[c] \in Engines BY CallAssumption
<1>2. CASE blind
  <2>1. seen' = seen /\ MishapHappens BY <1>2 DEF Reckon
  <2> QED BY <2>1, LimitAssumption DEF MishapHappens, Types, BudgetTypes, CallTypes
<1>3. CASE ~blind
  <2>1. Usage(Engine[c]) \in Figures /\ Usage(Engine[c]).at <= now
    BY <1>1, UsageType DEF Types
  <2>2. /\ seen' = [seen EXCEPT ![Engine[c]] = Usage(Engine[c])]
        /\ mishaps' = mishaps
    BY <1>3 DEF Reckon
  <2> QED BY <1>1, <2>1, <2>2 DEF Types, BudgetTypes, CallTypes
<1> QED BY <1>2, <1>3

LEMMA DroppedType ==
  ASSUME Types
  PROVE  Dropped \subseteq Calls
BY DEF Dropped, InFlight

LEMMA MoveType ==
  ASSUME CallTypes, NEW c \in Calls, NEW p \in Places \ {"asking"},
         pc' = [pc EXCEPT ![c] = p], chain' = chain, missed' \subseteq Calls,
         now' = now, mishaps' \in 0..MaxMishaps
  PROVE  CallTypes'
BY DEF CallTypes

LEMMA NextTypes ==
  ASSUME Types, [Next]_vars
  PROVE  Types'
<1>1. ASSUME NEW c \in Calls, CallFromCache(c) PROVE Types'
  <2>1. CallTypes' BY <1>1, MoveType DEF CallFromCache, Types, CallTypes, Places
  <2> QED BY <1>1, <2>1 DEF CallFromCache, Types, BudgetTypes, RowTypes, AnswerTypes
<1>2. ASSUME NEW c \in Calls, NEW blind \in BOOLEAN, CallAdmitted(c, blind) PROVE Types'
  <2> DEFINE new == [call |-> c, at |-> now]
  <2>1. AnswerTypes' /\ RowTypes' BY <1>2, MissType DEF CallAdmitted
  <2>2. UNCHANGED <<now, chain>> /\ pc' = [pc EXCEPT ![c] = "routing"]
    BY <1>2 DEF CallAdmitted, Miss
  <2>3. /\ mishaps' \in 0..MaxMishaps /\ seen' \in [Engines -> {NoUsage} \cup Figures]
        /\ \A e \in Engines : seen'[e] # NoUsage => seen'[e].at <= now'
    BY <1>2, <2>2, ReckonType DEF CallAdmitted
  <2>4. missed' \subseteq Calls BY <1>2, DroppedType DEF CallAdmitted, Types, CallTypes
  <2>5. CallTypes' BY <2>2, <2>3, <2>4, MoveType DEF Types, Places
  <2>6. reservations' = Fresh \cup {new} BY <1>2 DEF CallAdmitted
  <2>7. new \in Reservation BY DEF Types, CallTypes, Reservation
  <2> HIDE DEF new
  <2>8. reservations' \subseteq Reservation
    BY <2>6, <2>7 DEF Types, BudgetTypes, Fresh
  <2> QED BY <2>1, <2>3, <2>5, <2>8 DEF Types, BudgetTypes
<1>3. ASSUME NEW c \in Calls, NEW blind \in BOOLEAN, CallDenied(c, blind) PROVE Types'
  <2>1. AnswerTypes' /\ RowTypes' BY <1>3, MissType DEF CallDenied
  <2>2. UNCHANGED <<now, chain>> /\ pc' = [pc EXCEPT ![c] = "denied"]
    BY <1>3 DEF CallDenied, Miss
  <2>3. /\ mishaps' \in 0..MaxMishaps /\ seen' \in [Engines -> {NoUsage} \cup Figures]
        /\ \A e \in Engines : seen'[e] # NoUsage => seen'[e].at <= now'
    BY <1>3, <2>2, ReckonType DEF CallDenied
  <2>4. missed' \subseteq Calls BY <1>3, DroppedType DEF CallDenied, Types, CallTypes
  <2>5. CallTypes' BY <2>2, <2>3, <2>4, MoveType DEF Types, Places
  <2>6. reservations' \subseteq Reservation
    BY <1>3 DEF CallDenied, Types, BudgetTypes, Fresh
  <2> QED BY <2>1, <2>3, <2>5, <2>6 DEF Types, BudgetTypes
<1>4. ASSUME NEW c \in Calls, CallUnbudgeted(c) PROVE Types'
  <2>1. AnswerTypes' /\ RowTypes' BY <1>4, MissType DEF CallUnbudgeted
  <2>2. CallTypes'
    BY <1>4, MoveType DEF CallUnbudgeted, Miss, Types, CallTypes, Places
  <2>3. BudgetTypes' BY <1>4 DEF CallUnbudgeted, Miss, Types, BudgetTypes
  <2> QED BY <2>1, <2>2, <2>3 DEF Types
<1>5. ASSUME NEW c \in Calls, NEW available, Routed(c, available) PROVE Types'
  <2> DEFINE s == Available(Route[c], available)
  <2>1. RowTypes' /\ AnswerTypes' BY <1>5 DEF Routed, Types, RowTypes, AnswerTypes
  <2>2. s \in Seq(Providers) BY AvailableType, CallAssumption
  <2>3. UNCHANGED <<now, missed, mishaps>> BY <1>5 DEF Routed
  <2>4. CASE s = <<>>
    <3>1. CallTypes' BY <1>5, <2>4, MoveType DEF Routed, Types, CallTypes, Places
    <3>2. BudgetTypes' BY <1>5, <2>4 DEF Routed, Types, BudgetTypes
    <3> QED BY <2>1, <3>1, <3>2 DEF Types
  <2>5. CASE s # <<>>
    <3>1. Ask(c, s) BY <1>5, <2>5 DEF Routed
    <3> HIDE DEF s
    <3> QED BY <2>1, <2>2, <2>3, <3>1, AskType DEF Types
  <2> QED BY <2>4, <2>5
<1>6. ASSUME NEW c \in Calls, NEW cost \in Costs, NEW recorded \in BOOLEAN,
             ChatSucceeds(c, cost, recorded) PROVE Types'
  <2> DEFINE row == [call |-> c, tokens |-> cost, at |-> now, provider |-> Head(chain[c])]
  <2>1. rows' \in {rows, rows \cup {row}} /\ history' = history \cup {row}
    BY <1>6 DEF ChatSucceeds
  <2>2. row \in Row
    <3>1. chain[c] \in Seq(Providers) /\ chain[c] # <<>>
      BY <1>6 DEF ChatSucceeds, Types, CallTypes
    <3>2. Head(chain[c]) \in Providers BY <3>1
    <3> QED BY <3>2 DEF Types, CallTypes, Row
  <2> HIDE DEF row
  <2>3. RowTypes' BY <2>1, <2>2, FS_AddElement DEF Types, RowTypes
  <2>4. AnswerTypes' BY <1>6, StoreType DEF ChatSucceeds, Types, AnswerTypes
  <2>5. BudgetTypes' BY <1>6, ReleaseType DEF ChatSucceeds, Types
  <2>6. CallTypes'
    <3>1. /\ pc' = [pc EXCEPT ![c] = "done"] /\ chain' = [chain EXCEPT ![c] = <<>>]
          /\ now' = now /\ missed' \in {missed, missed \cup {c}}
      BY <1>6 DEF ChatSucceeds
    <3>2. mishaps' \in 0..MaxMishaps
      BY <1>6, LimitAssumption DEF ChatSucceeds, MishapHappens, Types, CallTypes
    <3> QED BY <3>1, <3>2 DEF Types, CallTypes, Places
  <2> QED BY <2>3, <2>4, <2>5, <2>6 DEF Types
<1>7. ASSUME NEW c \in Calls, ChatFails(c) PROVE Types'
  <2>1. RowTypes' /\ AnswerTypes' BY <1>7 DEF ChatFails, Types, RowTypes, AnswerTypes
  <2>2. chain[c] \in Seq(Providers) /\ chain[c] # <<>>
    BY <1>7 DEF ChatFails, Types, CallTypes
  <2>3. Tail(chain[c]) \in Seq(Providers) BY <2>2
  <2>4. Ask(c, Tail(chain[c])) /\ UNCHANGED <<now, missed, mishaps>>
    BY <1>7 DEF ChatFails
  <2> QED BY <2>1, <2>3, <2>4, AskType DEF Types
<1>8. ASSUME NEW e \in Engines, ReadUsage(e) PROVE Types'
  <2>1. CallTypes' /\ RowTypes' /\ AnswerTypes'
    BY <1>8 DEF ReadUsage, Types, CallTypes, RowTypes, AnswerTypes
  <2>2. Usage(e) \in Figures /\ Usage(e).at <= now BY UsageType DEF Types
  <2>3. BudgetTypes' BY <1>8, <2>2 DEF ReadUsage, Types, BudgetTypes
  <2> QED BY <2>1, <2>3 DEF Types
<1>9. CASE Tick
  <2>1. now' \in 0..MaxNow /\ now <= now' /\ now \in Nat /\ now' = now + 1
    BY <1>9, LimitAssumption DEF Tick, Types, CallTypes
  <2>2. CallTypes' /\ RowTypes' /\ AnswerTypes'
    BY <1>9, <2>1 DEF Tick, Types, CallTypes, RowTypes, AnswerTypes
  <2>3. \A e \in Engines : seen[e] # NoUsage => seen[e].at <= now'
    BY <2>1 DEF Types, BudgetTypes, Figures
  <2>4. BudgetTypes' BY <1>9, <2>3 DEF Tick, Types, BudgetTypes
  <2> QED BY <2>2, <2>4 DEF Types
<1>10. CASE Restart
  <2>1. CallTypes'
    <3>1. mishaps' \in 0..MaxMishaps
      BY <1>10, LimitAssumption DEF Restart, MishapHappens, Types, CallTypes
    <3>2. pc' \in [Calls -> Places] /\ \A c \in Calls : pc'[c] # "asking"
      BY <1>10 DEF Restart, Types, CallTypes, Places, InFlight
    <3>3. chain' = [c \in Calls |-> <<>>] BY <1>10 DEF Restart
    <3>4. chain' \in [Calls -> Seq(Providers)] BY <3>3
    <3>5. now' \in 0..MaxNow /\ missed' \subseteq Calls
      BY <1>10 DEF Restart, Types, CallTypes
    <3> QED BY <3>1, <3>2, <3>4, <3>5 DEF CallTypes
  <2>2. BudgetTypes' BY <1>10 DEF Restart, BudgetTypes
  <2>3. RowTypes' BY <1>10 DEF Restart, Types, RowTypes
  <2>4. AnswerTypes' BY <1>10, LimitAssumption DEF Restart, AnswerTypes
  <2> QED BY <2>1, <2>2, <2>3, <2>4 DEF Types
<1>11. CASE UNCHANGED vars
  BY <1>11 DEF vars, Types, CallTypes, BudgetTypes, RowTypes, AnswerTypes
<1> QED
  BY <1>1, <1>2, <1>3, <1>4, <1>5, <1>6, <1>7, <1>8, <1>9, <1>10, <1>11
  DEF Next, CallStep

LEMMA InitTypes == Init => Types
<1> SUFFICES ASSUME Init PROVE Types OBVIOUS
<1>1. CallTypes BY LimitAssumption DEF Init, CallTypes, Places
<1>2. BudgetTypes BY DEF Init, BudgetTypes
<1>3. RowTypes BY FS_EmptySet DEF Init, RowTypes
<1>4. AnswerTypes BY LimitAssumption DEF Init, AnswerTypes
<1> QED BY <1>1, <1>2, <1>3, <1>4 DEF Types

LEMMA AlwaysTyped == Spec => []Types
<1>1. Types /\ [Next]_vars => Types' BY NextTypes
<1> QED BY <1>1, InitTypes, PTL DEF Spec

(* Calls, reservations, usage figures and rows are those the code can hold; *)
(* a call that waits for chat has a provider to wait for, and the answer    *)
(* cache keeps its bound and one answer per key.                            *)
THEOREM LLMServiceTypes == Spec => []TypeOK
<1>1. ASSUME Types PROVE TypeOK
  <2>1. \A e \in Engines :
          seen[e] # NoUsage => seen[e].used \in [Windows -> Nat] /\ seen[e].at \in 0..now
    BY <1>1 DEF Types, CallTypes, BudgetTypes, Figures
  <2> QED
    BY <1>1, <2>1
    DEF TypeOK, Types, CallTypes, BudgetTypes, RowTypes, AnswerTypes, Reservation, Places
<1> QED BY <1>1, AlwaysTyped, PTL

---------------------------------------------------------------------------
(* What the budgets rest on. *)

(* A call that waits has a reservation, unless it is missed. *)
Reserving ==
  \A c \in InFlight :
    Engine[c] \in Budgeted /\ c \notin missed => \E r \in reservations : r.call = c

(* A call has one row at most, and none before it is done. *)
RowsOnce ==
  \A r \in rows :
    /\ pc[r.call] \notin {"idle", "routing", "asking"}
    /\ \A q \in rows : q.call = r.call => q = r

(* A usage figure made at some time counts all that counts now, but for the *)
(* calls that are missed, and no more than counted then.                    *)
Figured(e, w, figure, at) ==
  /\ Tokens({r \in rows : Engine[r.call] = e /\ Within(w, r) /\ r.call \notin missed}) <= figure
  /\ figure <= Tokens({r \in rows : Engine[r.call] = e /\ r.at + Span[w] > at})

CacheCounts ==
  \A e \in Budgeted, w \in Windows :
    seen[e] # NoUsage => Figured(e, w, seen[e].used[w], seen[e].at)

UInv == IInv /\ Types /\ Reserving /\ RowsOnce /\ CacheCounts

LEMMA FiguredLater ==
  ASSUME Types, RowTypes', now' \in Nat, now <= now', rows \subseteq rows', missed \subseteq missed',
         NEW e \in Engines, NEW w \in Windows, NEW figure \in Nat, NEW at \in Nat,
         \A r \in rows' \ rows : Engine[r.call] # e \/ r.call \in missed',
         Figured(e, w, figure, at)
  PROVE  Figured(e, w, figure, at)'
<1> DEFINE R == {r \in rows : Engine[r.call] = e /\ Within(w, r) /\ r.call \notin missed}
           Q == {r \in rows' : Engine[r.call] = e /\ r.at + Span[w] > now' /\ r.call \notin missed'}
           T == {r \in rows : Engine[r.call] = e /\ r.at + Span[w] > at}
           U == {r \in rows' : Engine[r.call] = e /\ r.at + Span[w] > at}
<1>1. rows \in SUBSET Row /\ IsFiniteSet(rows) BY DEF Types, RowTypes
<1>2. rows' \in SUBSET Row /\ IsFiniteSet(rows') BY DEF RowTypes
<1>3. now \in Nat BY DEF Types, CallTypes
<1>4. Q \in SUBSET R
  <2>1. ASSUME NEW r \in Q PROVE r \in R
    <3>1. r \in rows OBVIOUS
    <3>2. r.at \in Nat /\ Span[w] \in Nat
      BY <1>1, <3>1, LimitAssumption DEF Row
    <3>3. r.at + Span[w] > now BY <1>3, <3>2
    <3> QED BY <3>1, <3>3 DEF Within
  <2> QED BY <2>1
<1>5. T \in SUBSET U OBVIOUS
<1>6. /\ R \in SUBSET Row /\ IsFiniteSet(R) /\ U \in SUBSET Row /\ IsFiniteSet(U)
      /\ Q \in SUBSET Row /\ IsFiniteSet(Q) /\ T \in SUBSET Row /\ IsFiniteSet(T)
  BY <1>1, <1>2, <1>4, <1>5, FS_Subset
<1>7. Tokens(R) <= figure /\ figure <= Tokens(T) BY DEF Figured
<1>8. Figured(e, w, figure, at)' <=> Tokens(Q) <= figure /\ figure <= Tokens(U)
  BY DEF Figured, Within
<1> HIDE DEF R, Q, T, U
<1>9. /\ Tokens(R) \in Nat /\ Tokens(Q) \in Nat /\ Tokens(T) \in Nat /\ Tokens(U) \in Nat
      /\ Tokens(Q) <= Tokens(R) /\ Tokens(T) <= Tokens(U)
  BY <1>4, <1>5, <1>6, TokensOf
<1> QED BY <1>7, <1>8, <1>9

(* What getUsage returns is such a figure, whether it was cached or not. *)
LEMMA UsageIsFigured ==
  ASSUME Types, CacheCounts, NEW e \in Budgeted, NEW w \in Windows
  PROVE  /\ Figured(e, w, Usage(e).used[w], Usage(e).at)
         /\ Usage(e).used[w] \in Nat /\ Usage(e).at \in Nat
         /\ Usage(e).at <= now
         /\ (now - Usage(e).at < UsageTtl \/ Usage(e).at = now)
<1>1. e \in Engines BY CallAssumption
<1>2. Usage(e) \in Figures /\ Usage(e).at <= now BY <1>1, UsageType DEF Types
<1>3. CASE Cached(e)
  BY <1>2, <1>3 DEF Usage, Cached, CacheCounts, Figures
<1>4. CASE ~Cached(e)
  <2> DEFINE R == {r \in rows : Engine[r.call] = e /\ Within(w, r) /\ r.call \notin missed}
             T == {r \in rows : Engine[r.call] = e /\ r.at + Span[w] > now}
  <2>1. Usage(e).used[w] = Tokens(RowsOf(e, w)) /\ Usage(e).at = now
    BY <1>4 DEF Usage
  <2>2. RowsOf(e, w) = T BY DEF RowsOf, Within
  <2>3. R \in SUBSET T BY DEF Within
  <2>4. T \in SUBSET Row /\ IsFiniteSet(T) BY FS_Subset DEF Types, RowTypes
  <2>5. Figured(e, w, Tokens(T), now) <=> Tokens(R) <= Tokens(T) /\ Tokens(T) <= Tokens(T)
    BY DEF Figured
  <2> HIDE DEF R, T
  <2>6. Tokens(T) \in Nat /\ Tokens(R) <= Tokens(T) BY <2>3, <2>4, TokensOf
  <2> QED BY <1>2, <2>1, <2>2, <2>5, <2>6 DEF Figures
<1> QED BY <1>3, <1>4

(* A step that forgets a figure, leaves it or asks for it, and adds no row  *)
(* to what it stands for but of a missed call.                              *)
LEMMA CacheKeeps ==
  ASSUME Types, RowTypes', now' \in Nat, now <= now', rows \subseteq rows',
         missed \subseteq missed', CacheCounts,
         \A e \in Budgeted :
           seen'[e] = NoUsage
           \/ /\ seen'[e] \in {seen[e], Usage(e)}
              /\ \A r \in rows' \ rows : Engine[r.call] # e \/ r.call \in missed'
  PROVE  CacheCounts'
<1>1. SUFFICES ASSUME NEW e \in Budgeted, NEW w \in Windows, seen'[e] # NoUsage
               PROVE  Figured(e, w, seen[e].used[w], seen[e].at)'
  BY DEF CacheCounts
<1>2. e \in Engines BY CallAssumption
<1>3. PICK x \in {seen[e], Usage(e)} : x = seen'[e] BY <1>1
<1>4. \A r \in rows' \ rows : Engine[r.call] # e \/ r.call \in missed' BY <1>1
<1>5. Figured(e, w, x.used[w], x.at) /\ x.used[w] \in Nat /\ x.at \in Nat
  <2>1. CASE x = seen[e]
    <3>1. seen[e] \in Figures BY <1>1, <1>2, <1>3, <2>1 DEF Types, BudgetTypes
    <3> QED BY <1>1, <1>3, <2>1, <3>1 DEF CacheCounts, Figures
  <2>2. CASE x = Usage(e) BY <2>2, UsageIsFigured
  <2> QED BY <2>1, <2>2
<1>6. PICK figure \in Nat, at \in Nat : figure = x.used[w] /\ at = x.at BY <1>5
<1>7. Figured(e, w, figure, at) BY <1>5, <1>6
<1>8. Figured(e, w, figure, at)' BY <1>2, <1>4, <1>7, FiguredLater
<1>9. figure = (seen[e].used[w])' /\ at = (seen[e].at)' BY <1>3, <1>6
<1> QED BY <1>8, <1>9 DEF Figured

(* A call that has no rows moves. *)
LEMMA MoveKeepsRows ==
  ASSUME Types, RowsOnce, rows' = rows, NEW c \in Calls, NEW p,
         pc[c] \in {"idle", "routing", "asking"}, pc' = [pc EXCEPT ![c] = p]
  PROVE  RowsOnce'
<1>1. ASSUME NEW r \in rows
      PROVE  pc'[r.call] = pc[r.call] /\ pc[r.call] \notin {"idle", "routing", "asking"}
  <2>1. r.call \in Calls BY DEF Types, RowTypes, Row
  <2>2. pc[r.call] \notin {"idle", "routing", "asking"} BY DEF RowsOnce
  <2> QED BY <2>1, <2>2 DEF Types, CallTypes
<1> QED BY <1>1 DEF RowsOnce

(* Who waits after a step waited before and keeps its reservation, or is    *)
(* missed, or got one.                                                      *)
LEMMA ReservingKept ==
  ASSUME Reserving, missed \subseteq missed',
         \A x \in InFlight' :
           \/ Engine[x] \notin Budgeted
           \/ \E r \in reservations' : r.call = x
           \/ x \in InFlight /\ \A r \in reservations : r.call = x => r \in reservations'
           \/ x \in missed'
  PROVE  Reserving'
BY DEF Reserving

(* The reservations of waiting calls that Fresh drops. *)
LEMMA StaleAreDropped ==
  ASSUME NEW x \in InFlight, NEW r \in reservations, r.call = x
  PROVE  r \in Fresh \/ x \in Dropped
BY DEF Dropped

(* A release leaves the others their reservations, and forgets the usage *)
(* figure of the engine if there was a reservation.                      *)
LEMMA ReleaseFacts ==
  ASSUME BudgetTypes, NEW c \in Calls, Release(c)
  PROVE  /\ \A r \in reservations : r.call # c => r \in reservations'
         /\ \A e \in Engines : seen'[e] \in {NoUsage, seen[e]}
         /\ (\E r \in reservations : r.call = c) => seen'[Engine[c]] = NoUsage
<1>1. Engine[c] \in Engines BY CallAssumption
<1> QED BY <1>1 DEF Release, BudgetTypes

LEMMA AskFacts ==
  ASSUME BudgetTypes, NEW c \in Calls, NEW s, Ask(c, s)
  PROVE  /\ \E p \in {"failed", "asking"} :
              /\ pc' = [pc EXCEPT ![c] = p]
              /\ p = "asking" => reservations' = reservations
         /\ \A r \in reservations : r.call # c => r \in reservations'
         /\ \A e \in Engines : seen'[e] \in {NoUsage, seen[e]}
<1>1. CASE FromAskable(s) = <<>> BY <1>1, ReleaseFacts DEF Ask
<1>2. CASE FromAskable(s) # <<>> BY <1>2 DEF Ask
<1> QED BY <1>1, <1>2

LEMMA NextRowsOnce ==
  ASSUME UInv, [Next]_vars
  PROVE  RowsOnce'
<1> USE DEF UInv
<1>1. ASSUME NEW c \in Calls, CallFromCache(c) PROVE RowsOnce'
  <2>1. pc[c] = "idle" /\ rows' = rows /\ pc' = [pc EXCEPT ![c] = "done"]
    BY <1>1 DEF CallFromCache
  <2>2. \A r \in rows : r.call \in Calls BY DEF Types, RowTypes, Row
  <2>3. \A r \in rows : pc'[r.call] = pc[r.call]
    BY <2>1, <2>2 DEF RowsOnce, Types, CallTypes
  <2> QED BY <2>1, <2>3 DEF RowsOnce
<1>2. ASSUME NEW c \in Calls, NEW blind \in BOOLEAN,
             CallAdmitted(c, blind) \/ CallDenied(c, blind) \/ CallUnbudgeted(c)
      PROVE  RowsOnce'
  BY <1>2, MoveKeepsRows DEF CallAdmitted, CallDenied, CallUnbudgeted, Miss
<1>3. ASSUME NEW c \in Calls, NEW available, Routed(c, available) PROVE RowsOnce'
  <2> DEFINE s == Available(Route[c], available)
  <2>1. pc[c] = "routing" /\ rows' = rows BY <1>3 DEF Routed
  <2>2. CASE s = <<>> BY <1>3, <2>1, <2>2, MoveKeepsRows DEF Routed
  <2>3. CASE s # <<>>
    <3>1. Ask(c, s) BY <1>3, <2>3 DEF Routed
    <3> HIDE DEF s
    <3> QED BY <2>1, <3>1, AskFacts, MoveKeepsRows DEF Types
  <2> QED BY <2>2, <2>3
<1>4. ASSUME NEW c \in Calls, NEW cost \in Costs, NEW recorded \in BOOLEAN,
             ChatSucceeds(c, cost, recorded) PROVE RowsOnce'
  <2> DEFINE row == [call |-> c, tokens |-> cost, at |-> now, provider |-> Head(chain[c])]
  <2>1. /\ rows' \in {rows, rows \cup {row}}
        /\ pc[c] = "asking" /\ pc' = [pc EXCEPT ![c] = "done"]
    BY <1>4 DEF ChatSucceeds
  <2>2. row.call = c OBVIOUS
  <2> HIDE DEF row
  <2>3. \A r \in rows : r.call \in Calls /\ r.call # c
    BY <2>1 DEF RowsOnce, Types, RowTypes, Row
  <2>4. pc'[c] = "done" /\ \A r \in rows : pc'[r.call] = pc[r.call]
    BY <2>1, <2>3 DEF Types, CallTypes
  <2> QED BY <2>1, <2>2, <2>3, <2>4 DEF RowsOnce
<1>5. ASSUME NEW c \in Calls, ChatFails(c) PROVE RowsOnce'
  <2>1. pc[c] = "asking" /\ rows' = rows /\ Ask(c, Tail(chain[c]))
    BY <1>5 DEF ChatFails
  <2> QED BY <2>1, AskFacts, MoveKeepsRows DEF Types
<1>6. ASSUME UNCHANGED <<pc, rows>> PROVE RowsOnce'
  BY <1>6 DEF RowsOnce
<1>7. ASSUME NEW e \in Engines, ReadUsage(e) PROVE RowsOnce' BY <1>6, <1>7 DEF ReadUsage
<1>8. CASE Tick BY <1>6, <1>8 DEF Tick
<1>9. CASE UNCHANGED vars BY <1>6, <1>9 DEF vars
<1>10. CASE Restart
  <2>1. rows' = rows /\ pc' = [c \in Calls |-> IF c \in InFlight THEN "lost" ELSE pc[c]]
    BY <1>10 DEF Restart
  <2>2. \A r \in rows : r.call \in Calls /\ pc'[r.call] \notin {"idle", "routing", "asking"}
    BY <2>1 DEF RowsOnce, Types, RowTypes, Row
  <2> QED BY <2>1, <2>2 DEF RowsOnce
<1> QED
  BY <1>1, <1>2, <1>3, <1>4, <1>5, <1>7, <1>8, <1>9, <1>10 DEF Next, CallStep

LEMMA NextReserving ==
  ASSUME UInv, [Next]_vars
  PROVE  Reserving'
<1> USE DEF UInv
<1>1. ASSUME NEW c \in Calls, NEW p \in Places \ {"routing", "asking"},
             pc' = [pc EXCEPT ![c] = p], missed \subseteq missed',
             \A r \in reservations : r.call # c => r \in reservations' \/ r.call \in missed'
      PROVE  Reserving'
  <2>1. \A x \in InFlight' : x \in InFlight /\ x # c
    BY <1>1 DEF InFlight, Types, CallTypes
  <2>2. ASSUME NEW x \in InFlight'
        PROVE  \/ x \in InFlight /\ \A r \in reservations : r.call = x => r \in reservations'
               \/ x \in missed'
    BY <1>1, <2>1
  <2> QED BY <1>1, <2>2, ReservingKept
<1>2. ASSUME NEW c \in Calls, CallFromCache(c) PROVE Reserving'
  BY <1>1, <1>2 DEF CallFromCache, Places
<1>3. ASSUME NEW c \in Calls, NEW blind \in BOOLEAN, CallAdmitted(c, blind) PROVE Reserving'
  <2> DEFINE new == [call |-> c, at |-> now]
  <2>1. /\ missed \subseteq missed' /\ Dropped \subseteq missed'
        /\ pc' = [pc EXCEPT ![c] = "routing"]
        /\ reservations' = Fresh \cup {new} /\ new.call = c
    BY <1>3 DEF CallAdmitted
  <2> HIDE DEF new
  <2>2. \A x \in InFlight' : x = c \/ x \in InFlight
    BY <2>1 DEF InFlight, Types, CallTypes
  <2>3. ASSUME NEW x \in InFlight'
        PROVE  \/ \E r \in reservations' : r.call = x
               \/ x \in InFlight /\ \A r \in reservations : r.call = x => r \in reservations'
               \/ x \in missed'
    BY <2>1, <2>2, StaleAreDropped
  <2> QED BY <2>1, <2>3, ReservingKept
<1>4. ASSUME NEW c \in Calls, NEW blind \in BOOLEAN, CallDenied(c, blind) PROVE Reserving'
  <2>1. /\ missed' = missed \cup Dropped /\ reservations' = Fresh
        /\ pc' = [pc EXCEPT ![c] = "denied"]
    BY <1>4 DEF CallDenied
  <2>2. \A x \in InFlight' : x \in InFlight BY <2>1 DEF InFlight, Types, CallTypes
  <2>3. ASSUME NEW x \in InFlight'
        PROVE  \/ x \in InFlight /\ \A r \in reservations : r.call = x => r \in reservations'
               \/ x \in missed'
    BY <2>1, <2>2, StaleAreDropped
  <2> QED BY <2>1, <2>3, ReservingKept
<1>5. ASSUME NEW c \in Calls, CallUnbudgeted(c) PROVE Reserving'
  <2>1. /\ Engine[c] \notin Budgeted /\ pc' = [pc EXCEPT ![c] = "routing"]
        /\ reservations' = reservations /\ missed' = missed
    BY <1>5 DEF CallUnbudgeted
  <2>2. \A x \in InFlight' : x = c \/ x \in InFlight
    BY <2>1 DEF InFlight, Types, CallTypes
  <2> QED BY <2>1, <2>2, ReservingKept
<1>6. ASSUME NEW c \in Calls, c \in InFlight, NEW s, Ask(c, s), missed' = missed
      PROVE  Reserving'
  <2>1. PICK p \in {"failed", "asking"} :
          /\ pc' = [pc EXCEPT ![c] = p]
          /\ p = "asking" => reservations' = reservations
    BY <1>6, AskFacts DEF Types
  <2>2. \A r \in reservations : r.call # c => r \in reservations'
    BY <1>6, AskFacts DEF Types
  <2>3. CASE p = "failed" BY <1>1, <1>6, <2>1, <2>2, <2>3 DEF Places
  <2>4. CASE p = "asking"
    <3>1. \A x \in InFlight' : x \in InFlight
      BY <1>6, <2>1 DEF InFlight, Types, CallTypes
    <3> QED BY <1>6, <2>1, <2>4, <3>1, ReservingKept
  <2> QED BY <2>3, <2>4
<1>7. ASSUME NEW c \in Calls, NEW available, Routed(c, available) PROVE Reserving'
  <2> DEFINE s == Available(Route[c], available)
  <2>1. c \in InFlight /\ missed' = missed BY <1>7 DEF Routed, InFlight
  <2>2. CASE s = <<>>
    BY <1>1, <1>7, <2>1, <2>2 DEF Routed, Places
  <2>3. CASE s # <<>>
    <3>1. Ask(c, s) BY <1>7, <2>3 DEF Routed
    <3> HIDE DEF s
    <3> QED BY <1>6, <2>1, <3>1
  <2> QED BY <2>2, <2>3
<1>8. ASSUME NEW c \in Calls, NEW cost \in Costs, NEW recorded \in BOOLEAN,
             ChatSucceeds(c, cost, recorded) PROVE Reserving'
  <2>1. Release(c) /\ pc' = [pc EXCEPT ![c] = "done"] /\ missed \subseteq missed'
    BY <1>8 DEF ChatSucceeds
  <2>2. \A r \in reservations : r.call # c => r \in reservations'
    BY <2>1, ReleaseFacts DEF Types
  <2> QED BY <1>1, <2>1, <2>2 DEF Places
<1>9. ASSUME NEW c \in Calls, ChatFails(c) PROVE Reserving'
  <2>1. c \in InFlight /\ missed' = missed /\ Ask(c, Tail(chain[c]))
    BY <1>9 DEF ChatFails, InFlight
  <2> QED BY <1>6, <2>1
<1>10. ASSUME UNCHANGED <<pc, reservations, missed>> PROVE Reserving'
  BY <1>10 DEF Reserving, InFlight
<1>11. ASSUME NEW e \in Engines, ReadUsage(e) PROVE Reserving'
  BY <1>10, <1>11 DEF ReadUsage
<1>12. CASE Tick BY <1>10, <1>12 DEF Tick
<1>13. CASE UNCHANGED vars BY <1>10, <1>13 DEF vars
<1>14. CASE Restart
  <2>1. InFlight' = {} BY <1>14 DEF Restart, InFlight, Types, CallTypes
  <2> QED BY <2>1 DEF Reserving
<1> QED
  BY <1>2, <1>3, <1>4, <1>5, <1>7, <1>8, <1>9, <1>11, <1>12, <1>13, <1>14
  DEF Next, CallStep

LEMMA NextCache ==
  ASSUME UInv, [Next]_vars
  PROVE  CacheCounts'
<1> USE DEF UInv
<1>1. RowTypes' /\ now' \in Nat
  <2>1. Types' BY NextTypes
  <2> QED BY <2>1 DEF Types, CallTypes
<1>2. now \in Nat /\ \A e \in Budgeted : e \in Engines
  BY CallAssumption DEF Types, CallTypes
<1>3. ASSUME now' = now, rows' = rows, missed \subseteq missed',
             \A e \in Engines : seen'[e] \in {NoUsage, seen[e], Usage(e)}
      PROVE  CacheCounts'
  BY <1>1, <1>2, <1>3, CacheKeeps
<1>4. ASSUME NEW c \in Calls, CallFromCache(c) PROVE CacheCounts'
  BY <1>3, <1>4 DEF CallFromCache
<1>5. ASSUME NEW c \in Calls, NEW blind \in BOOLEAN, Miss(c), Reckon(c, blind),
             missed \subseteq missed'
      PROVE  CacheCounts'
  <2>1. \A e \in Engines : seen'[e] \in {seen[e], Usage(e)}
    BY <1>5 DEF Reckon, Types, BudgetTypes
  <2> QED BY <1>3, <1>5, <2>1 DEF Miss
<1>6. ASSUME NEW c \in Calls, NEW blind \in BOOLEAN,
             CallAdmitted(c, blind) \/ CallDenied(c, blind) \/ CallUnbudgeted(c)
      PROVE  CacheCounts'
  BY <1>3, <1>5, <1>6 DEF CallAdmitted, CallDenied, CallUnbudgeted, Miss
<1>7. ASSUME NEW c \in Calls, NEW available, Routed(c, available) PROVE CacheCounts'
  <2> DEFINE s == Available(Route[c], available)
  <2>1. now' = now /\ rows' = rows /\ missed' = missed BY <1>7 DEF Routed
  <2>2. CASE s = <<>> BY <1>3, <1>7, <2>1, <2>2 DEF Routed
  <2>3. CASE s # <<>>
    <3>1. Ask(c, s) BY <1>7, <2>3 DEF Routed
    <3> HIDE DEF s
    <3>2. \A e \in Engines : seen'[e] \in {NoUsage, seen[e]} BY <3>1, AskFacts DEF Types
    <3> QED BY <1>3, <2>1, <3>2
  <2> QED BY <2>2, <2>3
<1>8. ASSUME NEW c \in Calls, NEW cost \in Costs, NEW recorded \in BOOLEAN,
             ChatSucceeds(c, cost, recorded) PROVE CacheCounts'
  <2> DEFINE row == [call |-> c, tokens |-> cost, at |-> now, provider |-> Head(chain[c])]
  <2>1. rows' \in {rows, rows \cup {row}} /\ row.call = c BY <1>8 DEF ChatSucceeds
  <2> HIDE DEF row
  <2>2. Release(c) /\ now' = now /\ missed \subseteq missed' /\ c \in InFlight
    BY <1>8 DEF ChatSucceeds, InFlight
  <2>3. \A e \in Engines : seen'[e] \in {NoUsage, seen[e]}
    BY <2>2, ReleaseFacts DEF Types
  <2>4. ASSUME NEW e \in Budgeted, seen'[e] # NoUsage
        PROVE  Engine[c] # e \/ c \in missed'
    <3>1. CASE \E r \in reservations : r.call = c
      BY <2>2, <2>4, <3>1, ReleaseFacts DEF Types
    <3>2. CASE ~ \E r \in reservations : r.call = c
      BY <2>2, <3>2 DEF Reserving
    <3> QED BY <3>1, <3>2
  <2>5. \A e \in Budgeted :
          seen'[e] = NoUsage
          \/ /\ seen'[e] \in {seen[e], Usage(e)}
             /\ \A r \in rows' \ rows : Engine[r.call] # e \/ r.call \in missed'
    BY <1>2, <2>1, <2>3, <2>4
  <2> QED BY <1>1, <1>2, <2>1, <2>2, <2>5, CacheKeeps
<1>9. ASSUME NEW c \in Calls, ChatFails(c) PROVE CacheCounts'
  <2>1. now' = now /\ rows' = rows /\ missed' = missed /\ Ask(c, Tail(chain[c]))
    BY <1>9 DEF ChatFails
  <2>2. \A e \in Engines : seen'[e] \in {NoUsage, seen[e]} BY <2>1, AskFacts DEF Types
  <2> QED BY <1>3, <2>1, <2>2
<1>10. ASSUME NEW f \in Engines, ReadUsage(f) PROVE CacheCounts'
  <2>1. \A e \in Engines : seen'[e] \in {seen[e], Usage(e)}
    BY <1>10 DEF ReadUsage, Types, BudgetTypes
  <2> QED BY <1>3, <1>10, <2>1 DEF ReadUsage
<1>11. CASE Tick
  <2>1. now' = now + 1 /\ UNCHANGED <<rows, missed, seen>> BY <1>11 DEF Tick
  <2>2. now <= now' BY <1>2, <2>1
  <2> QED BY <1>1, <1>2, <2>1, <2>2, CacheKeeps
<1>12. CASE UNCHANGED vars BY <1>3, <1>12 DEF vars
<1>13. CASE Restart
  <2>1. \A e \in Engines : seen'[e] = NoUsage BY <1>13 DEF Restart
  <2> QED BY <1>2, <2>1 DEF CacheCounts
<1> QED
  BY <1>4, <1>6, <1>7, <1>8, <1>9, <1>10, <1>11, <1>12, <1>13 DEF Next, CallStep

LEMMA UsesInvariant == Spec => []UInv
<1>1. Init => UInv
  <2> SUFFICES ASSUME Init PROVE UInv OBVIOUS
  <2>1. IInv BY DEF Init, IInv, PcType, ForCalls, ReservationsOwned, Places
  <2>2. Types BY InitTypes
  <2>3. Reserving /\ RowsOnce BY DEF Init, Reserving, RowsOnce, InFlight
  <2>4. CacheCounts BY CallAssumption DEF Init, CacheCounts
  <2> QED BY <2>1, <2>2, <2>3, <2>4 DEF UInv
<1>2. UInv /\ [Next]_vars => UInv'
  BY NextKeeps, NextTypes, NextReserving, NextRowsOnce, NextCache DEF UInv
<1> QED BY <1>1, <1>2, PTL DEF Spec

---------------------------------------------------------------------------
(* What a call claims of its engine's budget. *)

LEMMA EstimatesAreNaturals ==
  \A c \in Calls : Estimate[c] \in Nat /\ Engine[c] \in Engines
BY CallAssumption

(* A call's claim is its estimate while it waits, nothing before, and then  *)
(* at most the estimate and the tokens of its row, while that counts.       *)
ClaimIs(c, w) ==
  /\ Claim(c, w) \in Nat /\ Claim(c, w) <= Estimate[c]
  /\ c \in InFlight => Claim(c, w) = Estimate[c]
  /\ c \notin InFlight =>
       \A r \in rows : r.call = c /\ Within(w, r) =>
         Claim(c, w) = Lesser(r.tokens, Estimate[c])
  /\ c \notin InFlight /\ (\A r \in rows : ~(r.call = c /\ Within(w, r))) =>
       Claim(c, w) = 0

Claims == \A c \in Calls, w \in Windows : ClaimIs(c, w)

LEMMA ClaimsAre == Types /\ RowsOnce => Claims
<1> SUFFICES ASSUME Types, RowsOnce, NEW c \in Calls, NEW w \in Windows
             PROVE  ClaimIs(c, w)
  BY DEF Claims
<1>1. Estimate[c] \in Nat BY EstimatesAreNaturals
<1>2. CASE c \in InFlight BY <1>1, <1>2 DEF ClaimIs, Claim
<1>3. CASE c \notin InFlight
  <2> DEFINE R == {x \in rows : x.call = c /\ Within(w, x)}
             f == [r \in R |-> Lesser(r.tokens, Estimate[c])]
  <2>1. DOMAIN f = R /\ \A r \in R : f[r] = Lesser(r.tokens, Estimate[c]) OBVIOUS
  <2>2. Claim(c, w) = SumFunctionOnSet(f, R)
    BY <1>3, <2>1 DEF Claim, SumFunction
  <2> HIDE DEF f
  <2>3. CASE R = {}
    <3>1. Claim(c, w) = 0 BY <2>2, <2>3, SumEmpty
    <3>2. \A r \in rows : ~(r.call = c /\ Within(w, r)) BY <2>3
    <3> QED BY <1>1, <1>3, <3>1, <3>2 DEF ClaimIs
  <2>4. CASE R # {}
    <3>1. PICK r \in R : TRUE BY <2>4
    <3>2. R = {r} BY <3>1 DEF RowsOnce
    <3>3. r.tokens \in Nat BY CallAssumption DEF Types, RowTypes, Row
    <3>4. f[r] = Lesser(r.tokens, Estimate[c]) BY <2>1
    <3>5. f[r] \in Nat /\ f[r] <= Estimate[c] BY <1>1, <3>3, <3>4 DEF Lesser
    <3>6. IsFiniteSet(R) BY FS_Subset DEF Types, RowTypes
    <3>7. R \ {r} = {} BY <3>2
    <3>8. \A x \in R : f[x] \in Int BY <3>2, <3>5
    <3> HIDE DEF R
    <3>9. SumFunctionOnSet(f, R) = f[r] + SumFunctionOnSet(f, R \ {r})
      BY <3>1, <3>6, <3>8, SumAny
    <3>10. Claim(c, w) = f[r] BY <2>2, <3>5, <3>7, <3>9, SumEmpty
    <3>11. \A x \in rows : x.call = c /\ Within(w, x) => x = r BY <3>2 DEF R
    <3>12. r \in rows /\ r.call = c /\ Within(w, r) BY <3>1 DEF R
    <3> QED BY <1>3, <3>4, <3>5, <3>10, <3>11, <3>12 DEF ClaimIs
  <2> QED BY <2>3, <2>4
<1> QED BY <1>2, <1>3

(* The claim of a call falls when it stops waiting, and as time passes. *)
LEMMA ClaimFalls ==
  ASSUME Types, RowsOnce, Types', RowsOnce', now <= now',
         NEW c \in Calls, NEW w \in Windows,
         \/ c \in InFlight
         \/ c \notin InFlight' /\ \A r \in rows' : r.call = c => r \in rows
  PROVE  Claim(c, w)' <= Claim(c, w) /\ Claim(c, w) \in Nat /\ Claim(c, w)' \in Nat
<1>1. ClaimIs(c, w) BY ClaimsAre DEF Claims
<1>2. (Types /\ RowsOnce => Claims)' BY ClaimsAre, PTL
<1>3. ClaimIs(c, w)' BY <1>2 DEF Claims
<1>4. Claim(c, w) \in Nat /\ Claim(c, w)' \in Nat /\ Claim(c, w)' <= Estimate[c]
  BY <1>1, <1>3 DEF ClaimIs
<1>5. CASE c \in InFlight BY <1>1, <1>4, <1>5 DEF ClaimIs
<1>6. CASE c \notin InFlight
  <2>1. c \notin InFlight' /\ \A r \in rows' : r.call = c => r \in rows BY <1>6
  <2>2. CASE \E r \in rows' : r.call = c /\ Within(w, r)'
    <3>1. PICK r \in rows' : r.call = c /\ Within(w, r)' BY <2>2
    <3>2. r \in rows BY <2>1, <3>1
    <3>3. r.at \in Nat /\ Span[w] \in Nat /\ now \in Nat /\ now' \in Nat
      BY <3>2, LimitAssumption DEF Types, CallTypes, RowTypes, Row
    <3>4. Within(w, r) BY <3>1, <3>3 DEF Within
    <3>5. Claim(c, w)' = Lesser(r.tokens, Estimate[c]) BY <1>3, <2>1, <3>1 DEF ClaimIs
    <3>6. Claim(c, w) = Lesser(r.tokens, Estimate[c])
      BY <1>1, <1>6, <3>1, <3>2, <3>4 DEF ClaimIs
    <3> QED BY <1>4, <3>5, <3>6
  <2>3. CASE ~ \E r \in rows' : r.call = c /\ Within(w, r)'
    <3>1. Claim(c, w)' = 0 BY <1>3, <2>1, <2>3 DEF ClaimIs
    <3> QED BY <1>4, <3>1
  <2> QED BY <2>2, <2>3
<1> QED BY <1>4, <1>5, <1>6

(* The claims of some calls, together. *)
Claimed(D, w) == SumFunction([c \in D |-> Claim(c, w)])

Claimants(e) == {c \in Calls \ missed : Engine[c] = e}

LEMMA BudgetIs ==
  BudgetKept <=> \A e \in Budgeted, w \in Windows :
                   Limit[e][w] > 0 => Claimed(Claimants(e), w) <= Limit[e][w]
BY DEF BudgetKept, Claimed, Claimants

LEMMA CallsAreFinite ==
  ASSUME NEW D \in SUBSET Calls
  PROVE  IsFiniteSet(D)
BY FS_Subset, CallAssumption

LEMMA ClaimedFalls ==
  ASSUME NEW w \in Windows, NEW C \in SUBSET Calls, NEW D \in SUBSET C,
         \A c \in C : Claim(c, w) \in Nat,
         \A c \in D : Claim(c, w)' \in Nat /\ Claim(c, w)' <= Claim(c, w)
  PROVE  /\ Claimed(D, w)' \in Int /\ Claimed(C, w) \in Nat
         /\ Claimed(D, w)' <= Claimed(C, w)
<1> DEFINE f == [c \in D |-> Claim(c, w)']
           g == [c \in C |-> Claim(c, w)]
<1>1. DOMAIN f = D /\ DOMAIN g = C OBVIOUS
<1>2. \A c \in C : g[c] \in Nat OBVIOUS
<1>3. \A c \in D : f[c] \in Int /\ f[c] <= g[c] OBVIOUS
<1>4. Claimed(D, w)' = SumFunctionOnSet(f, D) BY <1>1 DEF Claimed, SumFunction
<1>5. Claimed(C, w) = SumFunctionOnSet(g, C) BY <1>1 DEF Claimed, SumFunction
<1>6. IsFiniteSet(C) BY CallsAreFinite
<1> HIDE DEF f, g
<1>7. /\ SumFunctionOnSet(f, D) \in Int /\ SumFunctionOnSet(g, C) \in Nat
      /\ SumFunctionOnSet(f, D) <= SumFunctionOnSet(g, C)
  BY <1>2, <1>3, <1>6, SumBelow
<1> QED BY <1>4, <1>5, <1>7

LEMMA LimitsAreNaturals ==
  ASSUME NEW e \in Budgeted, NEW w \in Windows
  PROVE  Limit[e][w] \in Nat
BY LimitAssumption

(* Where no claim grows, a budget is kept. *)
LEMMA LowerClaims ==
  ASSUME Types, RowsOnce, Types', RowsOnce', BudgetKept, now <= now', missed \subseteq missed',
         NEW e \in Budgeted, NEW w \in Windows, Limit[e][w] > 0,
         \A c \in Claimants(e)' :
           \/ c \in InFlight
           \/ c \notin InFlight' /\ \A r \in rows' : r.call = c => r \in rows
  PROVE  Claimed(Claimants(e), w)' <= Limit[e][w]
<1>1. /\ Claimants(e) \in SUBSET Calls
      /\ Claimants(e)' \in SUBSET Claimants(e)
  BY DEF Claimants
<1>2. PICK C \in SUBSET Calls : C = Claimants(e) BY <1>1
<1>3. PICK D \in SUBSET C : D = Claimants(e)' BY <1>1, <1>2
<1>4. \A c \in C : Claim(c, w) \in Nat
  BY ClaimsAre DEF Claims, ClaimIs
<1>5. \A c \in D : Claim(c, w)' \in Nat /\ Claim(c, w)' <= Claim(c, w)
  BY <1>3, ClaimFalls
<1>6. Claimed(C, w) <= Limit[e][w] BY <1>2, BudgetIs
<1>7. /\ Claimed(D, w)' \in Int /\ Claimed(C, w) \in Nat
      /\ Claimed(D, w)' <= Claimed(C, w)
  BY <1>4, <1>5, ClaimedFalls
<1>8. Claimed(Claimants(e), w)' = Claimed(D, w)' BY <1>3 DEF Claimed
<1> QED BY <1>6, <1>7, <1>8, LimitsAreNaturals

LEMMA BudgetIsNext ==
  BudgetKept' <=> \A e \in Budgeted, w \in Windows :
                    Limit[e][w] > 0 => Claimed(Claimants(e), w)' <= Limit[e][w]
BY DEF BudgetKept, Claimed, Claimants

(* What waits is covered by the reservations that are fresh. *)
LEMMA ReservedCovers ==
  ASSUME UInv, NEW e \in Budgeted, NEW D \in SUBSET Calls, NEW k,
         \A x \in D : /\ Engine[x] = e /\ \E r \in Fresh : r.call = x
                      /\ k[x] \in Int /\ k[x] <= Estimate[x]
  PROVE  /\ SumFunctionOnSet(k, D) \in Int /\ Reserved(e) \in Nat
         /\ SumFunctionOnSet(k, D) <= Reserved(e)
<1> DEFINE R == {r \in Fresh : Engine[r.call] = e}
           h == [r \in R |-> r.call]
           f == [r \in R |-> Estimate[r.call]]
           T == {h[r] : r \in R}
<1>1. R \subseteq reservations BY DEF Fresh
<1>2. \A r \in R : r.call \in Calls BY <1>1 DEF UInv, IInv, ForCalls
<1>3. \A q, r \in R : h[q] = h[r] => q = r
  BY <1>1 DEF UInv, IInv, ReservationsOwned
<1>4. h \in Injection(R, Calls) 
  <2>1. h \in [R -> Calls] BY <1>2
  <2>2. \A q, r \in DOMAIN h : h[q] = h[r] => q = r BY <1>3
  <2> HIDE DEF h
  <2> QED BY <2>1, <2>2 DEF Injection, IsInjective
<1>5. IsFiniteSet(R) BY <1>4, FS_Injection, CallAssumption
<1>6. \A r \in R : f[r] \in Int /\ f[r] = Estimate[h[r]] BY <1>2, EstimatesAreNaturals
<1>7. T \in SUBSET Calls BY <1>2
<1>8. D \in SUBSET T
  <2>1. ASSUME NEW x \in D PROVE x \in T
    <3>1. PICK r \in Fresh : r.call = x OBVIOUS
    <3>2. r \in R /\ h[r] = x BY <3>1
    <3> QED BY <3>2
  <2> QED BY <2>1
<1>9. DOMAIN f = R OBVIOUS
<1>10. Reserved(e) = SumFunctionOnSet(f, R) BY <1>9 DEF Reserved, SumFunction
<1> HIDE DEF R, h, f
<1>11. SumFunctionOnSet(Estimate, T) = SumFunctionOnSet(f, R)
  BY <1>3, <1>5, <1>6, SumImage
<1> HIDE DEF T
<1>12. IsFiniteSet(T) /\ \A x \in T : Estimate[x] \in Nat
  BY <1>7, CallsAreFinite, EstimatesAreNaturals
<1>13. /\ SumFunctionOnSet(k, D) \in Int /\ SumFunctionOnSet(Estimate, T) \in Nat
       /\ SumFunctionOnSet(k, D) <= SumFunctionOnSet(Estimate, T)
  BY <1>8, <1>12, SumBelow
<1> QED BY <1>10, <1>11, <1>13

(* What has been answered is covered by its rows. *)
LEMMA RowsCover ==
  ASSUME Types, RowsOnce, NEW R \in SUBSET rows, NEW D \in SUBSET Calls, NEW k,
         \A x \in D : k[x] \in Int /\ \E r \in R : r.call = x /\ k[x] <= r.tokens
  PROVE  SumFunctionOnSet(k, D) \in Int /\ SumFunctionOnSet(k, D) <= Tokens(R)
<1> DEFINE h == [r \in R |-> r.call]
           f == [r \in R |-> r.tokens]
           T == {h[r] : r \in R}
           g == [x \in T |-> (CHOOSE r \in R : r.call = x).tokens]
<1>1. \A r \in R : r.call \in Calls /\ r.tokens \in Nat
  BY CallAssumption DEF Types, RowTypes, Row
<1>2. \A q, r \in R : q.call = r.call => q = r BY DEF RowsOnce
<1>3. \A r \in R : h[r] = r.call /\ f[r] = r.tokens OBVIOUS
<1>4. IsFiniteSet(R) BY FS_Subset DEF Types, RowTypes
<1>5. ASSUME NEW r \in R PROVE r.call \in T /\ g[r.call] = r.tokens
  <2>1. r.call \in T BY <1>3
  <2>2. (CHOOSE q \in R : q.call = r.call) = r BY <1>2
  <2> QED BY <2>1, <2>2
<1>6. DOMAIN f = R OBVIOUS
<1>7. Tokens(R) = SumFunctionOnSet(f, R) BY <1>6 DEF Tokens, SumFunction
<1> HIDE DEF h, f, g
<1>8. T \in SUBSET Calls BY <1>1, <1>3
<1>9. SumFunctionOnSet(g, T) = SumFunctionOnSet(f, R)
  <2>1. \A q, r \in R : h[q] = h[r] => q = r BY <1>2, <1>3
  <2>2. \A r \in R : f[r] \in Int /\ f[r] = g[h[r]] BY <1>1, <1>3, <1>5
  <2> QED BY <1>4, <2>1, <2>2, SumImage
<1>10. \A x \in T : \E r \in R : r.call = x BY <1>3
<1> HIDE DEF T
<1>11. IsFiniteSet(T) BY <1>8, CallsAreFinite
<1>12. \A x \in T : g[x] \in Nat BY <1>1, <1>5, <1>10
<1>13. D \in SUBSET T BY <1>5
<1>14. \A x \in D : k[x] \in Int /\ k[x] <= g[x] BY <1>5
<1>15. /\ SumFunctionOnSet(k, D) \in Int
       /\ SumFunctionOnSet(k, D) <= SumFunctionOnSet(g, T)
  BY <1>11, <1>12, <1>13, <1>14, SumBelow
<1> QED BY <1>7, <1>9, <1>15

(* A call is admitted: the claims of the others are covered by what the     *)
(* tracker counts, and with that the new estimate fits.                     *)
LEMMA AdmissionFits ==
  ASSUME UInv, Types', RowsOnce', BudgetKept,
         NEW c \in Calls, NEW blind \in BOOLEAN, CallAdmitted(c, blind),
         NEW e \in Budgeted, NEW w \in Windows, Limit[e][w] > 0
  PROVE  Claimed(Claimants(e), w)' <= Limit[e][w]
<1>1. /\ UNCHANGED <<now, rows>> /\ pc[c] = "idle" /\ pc' = [pc EXCEPT ![c] = "routing"]
      /\ Fits(c, blind) /\ Dropped \subseteq missed' /\ (blind => c \in missed')
  BY DEF CallAdmitted, Miss
<1>2. missed \subseteq missed' BY DEF CallAdmitted
<1>3. \A x \in Calls : x # c => (x \in InFlight' <=> x \in InFlight)
  BY <1>1 DEF InFlight, UInv, Types, CallTypes
<1>4. now \in Nat BY DEF UInv, Types, CallTypes
<1>5. PICK D \in SUBSET Calls : D = Claimants(e)' BY DEF Claimants
<1>6. \A x \in D : x \notin missed' /\ Engine[x] = e BY <1>5 DEF Claimants
<1>7. CASE c \notin D
  <2>1. \A x \in Claimants(e)' :
          \/ x \in InFlight
          \/ x \notin InFlight' /\ \A r \in rows' : r.call = x => r \in rows
    BY <1>1, <1>3, <1>5, <1>7
  <2> QED BY <1>1, <1>2, <1>4, <2>1, LowerClaims DEF UInv
<1>8. CASE c \in D
  <2> DEFINE k == [x \in D |-> Claim(x, w)']
             O == D \ {c}
             R == {r \in RowsOf(e, w) : r.call \notin missed'}
             A == {x \in O : x \in InFlight}
             B == {x \in O : x \notin InFlight /\ \E r \in R : r.call = x}
             Z == {x \in O : x \notin InFlight /\ ~ \E r \in R : r.call = x}
  <2>1. Claimed(Claimants(e), w)' = SumFunctionOnSet(k, D)
    <3>1. DOMAIN k = D OBVIOUS
    <3>2. Claimed(Claimants(e), w)' = SumFunction(k) BY <1>5 DEF Claimed
    <3> QED BY <3>1, <3>2 DEF SumFunction
  <2>2. \A x \in D : k[x] = Claim(x, w)' OBVIOUS
  <2> HIDE DEF k
  <2>3. (Types /\ RowsOnce => Claims)' BY ClaimsAre, PTL
  <2>4. \A x \in D : ClaimIs(x, w)' BY <2>3 DEF Claims
  <2>5. \A x \in D : k[x] \in Nat /\ k[x] <= Estimate[x] BY <2>2, <2>4 DEF ClaimIs
  <2>6. Engine[c] = e BY <1>6, <1>8
  <2>7. A \in SUBSET Calls /\ B \in SUBSET Calls /\ Z \in SUBSET Calls /\ O \in SUBSET Calls
    OBVIOUS
  <2>8. /\ SumFunctionOnSet(k, A) \in Int /\ Reserved(e) \in Nat
        /\ SumFunctionOnSet(k, A) <= Reserved(e)
    <3>1. ASSUME NEW x \in A
          PROVE  /\ Engine[x] = e /\ \E r \in Fresh : r.call = x
                 /\ k[x] \in Int /\ k[x] <= Estimate[x]
      <4>1. x \in InFlight /\ x \in D /\ Engine[x] \in Budgeted /\ x \notin missed
        BY <1>2, <1>6
      <4>2. PICK r \in reservations : r.call = x BY <4>1 DEF UInv, Reserving
      <4>3. r \in Fresh BY <1>1, <1>6, <4>1, <4>2, StaleAreDropped
      <4> QED BY <1>6, <2>5, <4>1, <4>2, <4>3
    <3> HIDE DEF A
    <3> QED BY <2>7, <3>1, ReservedCovers
  <2>9. R \in SUBSET rows BY DEF RowsOf
  <2>10. SumFunctionOnSet(k, B) \in Int /\ SumFunctionOnSet(k, B) <= Tokens(R)
    <3>1. ASSUME NEW x \in B
          PROVE  k[x] \in Int /\ \E r \in R : r.call = x /\ k[x] <= r.tokens
      <4>1. PICK r \in R : r.call = x OBVIOUS
      <4>2. x \in D /\ x # c /\ x \notin InFlight' BY <1>3
      <4>3. r \in rows' /\ Within(w, r)' BY <1>1, <2>9 DEF RowsOf, Within
      <4>4. k[x] = Lesser(r.tokens, Estimate[x])
        BY <2>2, <2>4, <4>1, <4>2, <4>3 DEF ClaimIs
      <4>5. r.tokens \in Nat /\ Estimate[x] \in Nat
        BY <2>9, <4>2, CallAssumption, EstimatesAreNaturals DEF UInv, Types, RowTypes, Row
      <4>6. k[x] <= r.tokens /\ k[x] \in Int BY <4>4, <4>5 DEF Lesser
      <4> QED BY <4>1, <4>6
    <3> HIDE DEF B, R
    <3> QED BY <2>7, <2>9, <3>1, RowsCover DEF UInv
  <2>11. SumFunctionOnSet(k, Z) = 0
    <3>1. ASSUME NEW x \in Z PROVE k[x] = 0
      <4>1. x \in D /\ x # c /\ x \notin InFlight' BY <1>3
      <4>2. \A r \in rows' : ~(r.call = x /\ Within(w, r)')
        BY <1>1, <1>6, <4>1 DEF RowsOf, Within
      <4> QED BY <2>2, <2>4, <4>1, <4>2 DEF ClaimIs
    <3> HIDE DEF Z
    <3> QED BY <2>7, <3>1, CallsAreFinite, SumZero
  <2>12. SumFunctionOnSet(k, O) = SumFunctionOnSet(k, A) + SumFunctionOnSet(k, B)
    <3>1. /\ O = (A \cup B) \cup Z /\ A \cap B = {} /\ (A \cup B) \cap Z = {}
          /\ A \cup B \in SUBSET Calls
          /\ \A x \in (A \cup B) \cup Z : k[x] \in Int
      BY <2>5
    <3> HIDE DEF O, A, B, Z
    <3>2. SumFunctionOnSet(k, A \cup B) = SumFunctionOnSet(k, A) + SumFunctionOnSet(k, B)
      BY <2>7, <3>1, CallsAreFinite, SumParts
    <3> DEFINE C == A \cup B
    <3>3. /\ IsFiniteSet(C) /\ IsFiniteSet(Z) /\ C \cap Z = {} /\ O = C \cup Z
          /\ \A x \in C \cup Z : k[x] \in Int
      BY <2>7, <3>1, CallsAreFinite
    <3> HIDE DEF C
    <3>4. SumFunctionOnSet(k, O) = SumFunctionOnSet(k, C) + SumFunctionOnSet(k, Z)
      BY <3>3, SumParts
    <3> QED BY <2>8, <2>10, <2>11, <3>2, <3>4 DEF C
  <2>13. SumFunctionOnSet(k, D) = k[c] + SumFunctionOnSet(k, O)
    <3>1. IsFiniteSet(D) /\ \A x \in D : k[x] \in Int BY <2>5, CallsAreFinite
    <3>2. \A x \in D : SumFunctionOnSet(k, D) = k[x] + SumFunctionOnSet(k, D \ {x})
      BY <3>1, SumAny
    <3> QED BY <1>8, <3>2
  <2>14. Tokens(R) <= Usage(e).used[w] /\ Usage(e).used[w] \in Nat /\ Tokens(R) \in Nat
    <3> DEFINE Q == {r \in rows : Engine[r.call] = e /\ Within(w, r) /\ r.call \notin missed}
    <3>1. R \in SUBSET Q BY <1>2 DEF RowsOf
    <3>2. Tokens(Q) <= Usage(e).used[w] /\ Usage(e).used[w] \in Nat
      BY UsageIsFigured DEF UInv, Figured
    <3>3. Q \in SUBSET Row /\ IsFiniteSet(Q) /\ R \in SUBSET Row /\ IsFiniteSet(R)
      BY <2>9, FS_Subset DEF UInv, Types, RowTypes
    <3> HIDE DEF Q, R
    <3>4. Tokens(Q) \in Nat /\ Tokens(R) <= Tokens(Q) /\ Tokens(R) \in Nat
      BY <3>1, <3>3, TokensOf
    <3> QED BY <3>2, <3>4
  <2>15. Usage(e).used[w] + Reserved(e) + Estimate[c] <= Limit[e][w]
    BY <1>1, <1>6, <1>8, <2>6 DEF Fits
  <2>16. k[c] \in Nat /\ k[c] <= Estimate[c] /\ Estimate[c] \in Nat
    BY <1>8, <2>5, EstimatesAreNaturals
  <2>17. Limit[e][w] \in Nat BY LimitsAreNaturals
  <2> HIDE DEF O, A, B, Z, R
  <2> QED BY <2>1, <2>8, <2>10, <2>12, <2>13, <2>14, <2>15, <2>16, <2>17
<1> QED BY <1>7, <1>8

LEMMA NextBudget ==
  ASSUME UInv, BudgetKept, [Next]_vars
  PROVE  BudgetKept'
<1>1. Types' /\ RowsOnce' BY NextTypes, NextRowsOnce DEF UInv
<1>2. Types /\ RowsOnce BY DEF UInv
<1>3. now \in Nat BY DEF UInv, Types, CallTypes
<1>4. ASSUME now <= now', missed \subseteq missed',
             \A x \in Calls :
               \/ Engine[x] \notin Budgeted
               \/ x \in InFlight
               \/ x \notin InFlight' /\ \A r \in rows' : r.call = x => r \in rows
      PROVE  BudgetKept'
  <2>1. ASSUME NEW e \in Budgeted, NEW w \in Windows, Limit[e][w] > 0
        PROVE  Claimed(Claimants(e), w)' <= Limit[e][w]
    <3>1. \A x \in Claimants(e)' : x \in Calls /\ Engine[x] = e BY DEF Claimants
    <3> QED BY <1>1, <1>2, <1>4, <2>1, <3>1, LowerClaims
  <2> QED BY <2>1, BudgetIsNext
<1>5. ASSUME now' = now, rows' = rows, missed \subseteq missed', NEW c \in Calls,
             NEW p \in Places, pc' = [pc EXCEPT ![c] = p],
             c \in InFlight \/ p \notin {"routing", "asking"}
      PROVE  BudgetKept'
  <2>1. \A x \in Calls : x \in InFlight \/ x \notin InFlight'
    BY <1>5 DEF InFlight, UInv, Types, CallTypes
  <2> QED BY <1>3, <1>4, <1>5, <2>1
<1>6. ASSUME NEW c \in Calls, CallFromCache(c) PROVE BudgetKept'
  BY <1>5, <1>6 DEF CallFromCache, Places
<1>7. ASSUME NEW c \in Calls, NEW blind \in BOOLEAN, CallAdmitted(c, blind) PROVE BudgetKept'
  <2>1. ASSUME NEW e \in Budgeted, NEW w \in Windows, Limit[e][w] > 0
        PROVE  Claimed(Claimants(e), w)' <= Limit[e][w]
    BY <1>1, <1>7, <2>1, AdmissionFits
  <2> QED BY <2>1, BudgetIsNext
<1>8. ASSUME NEW c \in Calls, NEW blind \in BOOLEAN, CallDenied(c, blind) PROVE BudgetKept'
  BY <1>5, <1>8 DEF CallDenied, Miss, Places
<1>9. ASSUME NEW c \in Calls, CallUnbudgeted(c) PROVE BudgetKept'
  <2>1. /\ now' = now /\ rows' = rows /\ missed' = missed /\ Engine[c] \notin Budgeted
        /\ pc' = [pc EXCEPT ![c] = "routing"]
    BY <1>9 DEF CallUnbudgeted, Miss
  <2>2. \A x \in Calls : x = c \/ x \in InFlight \/ x \notin InFlight'
    BY <2>1 DEF InFlight, UInv, Types, CallTypes
  <2> QED BY <1>3, <1>4, <2>1, <2>2
<1>10. ASSUME NEW c \in Calls, c \in InFlight, NEW s, Ask(c, s), UNCHANGED <<now, rows, missed>>
       PROVE  BudgetKept'
  <2>1. PICK p \in {"failed", "asking"} : pc' = [pc EXCEPT ![c] = p]
    BY <1>10, AskFacts DEF UInv, Types
  <2> QED BY <1>5, <1>10, <2>1 DEF Places
<1>11. ASSUME NEW c \in Calls, NEW available, Routed(c, available) PROVE BudgetKept'
  <2> DEFINE s == Available(Route[c], available)
  <2>1. c \in InFlight /\ UNCHANGED <<now, rows, missed>> BY <1>11 DEF Routed, InFlight
  <2>2. CASE s = <<>> BY <1>5, <1>11, <2>1, <2>2 DEF Routed, Places
  <2>3. CASE s # <<>>
    <3>1. Ask(c, s) BY <1>11, <2>3 DEF Routed
    <3> HIDE DEF s
    <3> QED BY <1>10, <2>1, <3>1
  <2> QED BY <2>2, <2>3
<1>12. ASSUME NEW c \in Calls, NEW cost \in Costs, NEW recorded \in BOOLEAN,
             ChatSucceeds(c, cost, recorded) PROVE BudgetKept'
  <2> DEFINE row == [call |-> c, tokens |-> cost, at |-> now, provider |-> Head(chain[c])]
  <2>1. rows' \in {rows, rows \cup {row}} /\ row.call = c BY <1>12 DEF ChatSucceeds
  <2> HIDE DEF row
  <2>2. /\ now' = now /\ missed \subseteq missed' /\ c \in InFlight
        /\ pc' = [pc EXCEPT ![c] = "done"]
    BY <1>12 DEF ChatSucceeds, InFlight
  <2>3. \A x \in Calls : x \in InFlight \/ x \notin InFlight'
    BY <2>2 DEF InFlight, UInv, Types, CallTypes
  <2>4. \A x \in Calls : x # c => \A r \in rows' : r.call = x => r \in rows BY <2>1
  <2> QED BY <1>3, <1>4, <2>2, <2>3, <2>4
<1>13. ASSUME NEW c \in Calls, ChatFails(c) PROVE BudgetKept'
  BY <1>10, <1>13 DEF ChatFails, InFlight
<1>14. ASSUME UNCHANGED <<pc, rows, missed>>, now <= now' PROVE BudgetKept'
  BY <1>4, <1>14 DEF InFlight
<1>15. ASSUME NEW e \in Engines, ReadUsage(e) PROVE BudgetKept'
  BY <1>3, <1>14, <1>15 DEF ReadUsage
<1>16. CASE Tick BY <1>3, <1>14, <1>16 DEF Tick
<1>17. CASE UNCHANGED vars BY <1>3, <1>14, <1>17 DEF vars
<1>18. CASE Restart
  <2>1. UNCHANGED <<now, rows, missed>> BY <1>18 DEF Restart
  <2>2. InFlight' = {} BY <1>18 DEF Restart, InFlight, UInv, Types, CallTypes
  <2> QED BY <1>3, <1>4, <2>1, <2>2
<1> QED
  BY <1>6, <1>7, <1>8, <1>9, <1>11, <1>12, <1>13, <1>15, <1>16, <1>17, <1>18
  DEF Next, CallStep

(* The calls of an engine stay within its budget, however they interleave   *)
(* and whatever fails, leaks or restarts: what the tracker does not count   *)
(* of a call, in rows or in reservations, is missed or beyond its estimate.   *)
THEOREM EngineBudgetsAreKept == Spec => []BudgetKept
<1>1. Init => BudgetKept
  <2> SUFFICES ASSUME Init PROVE BudgetKept OBVIOUS
  <2>1. Types /\ RowsOnce BY InitTypes DEF Init, RowsOnce
  <2>2. \A c \in Calls, w \in Windows : Claim(c, w) = 0
    BY <2>1, ClaimsAre DEF Claims, ClaimIs, Init, InFlight
  <2>3. ASSUME NEW e \in Budgeted, NEW w \in Windows, Limit[e][w] > 0
        PROVE  Claimed(Claimants(e), w) <= Limit[e][w]
    <3> DEFINE D == Claimants(e)
               f == [c \in D |-> Claim(c, w)]
    <3>1. D \in SUBSET Calls BY DEF Claimants
    <3>2. DOMAIN f = D /\ \A c \in D : f[c] = 0 BY <2>2, <3>1
    <3>3. Claimed(D, w) = SumFunctionOnSet(f, D) BY <3>2 DEF Claimed, SumFunction
    <3> HIDE DEF f, D
    <3>4. Claimed(D, w) = 0 BY <3>1, <3>2, <3>3, CallsAreFinite, SumZero
    <3> QED BY <2>3, <3>4, LimitsAreNaturals DEF D
  <2> QED BY <2>3, BudgetIs
<1>2. UInv /\ BudgetKept /\ [Next]_vars => BudgetKept' BY NextBudget
<1> QED BY <1>1, <1>2, UsesInvariant, PTL DEF Spec

---------------------------------------------------------------------------
(* Denials. *)

(* Only the budget denies a call. *)
LEMMA DeniedByBudget ==
  ASSUME UInv, [Next]_vars, NEW c \in Calls, pc[c] = "idle", pc'[c] = "denied"
  PROVE  \E blind \in BOOLEAN : CallDenied(c, blind)
<1> USE DEF UInv, Types, CallTypes
<1>1. ASSUME NEW d \in Calls, NEW p \in Places \ {"denied"}, pc' = [pc EXCEPT ![d] = p]
      PROVE  FALSE
  BY <1>1
<1>2. ASSUME NEW d \in Calls, CallFromCache(d) PROVE FALSE
  BY <1>1, <1>2 DEF CallFromCache, Places
<1>3. ASSUME NEW d \in Calls, NEW blind \in BOOLEAN,
             CallAdmitted(d, blind) \/ CallUnbudgeted(d) PROVE FALSE
  BY <1>1, <1>3 DEF CallAdmitted, CallUnbudgeted, Places
<1>4. ASSUME NEW d \in Calls, NEW blind \in BOOLEAN, CallDenied(d, blind)
      PROVE  \E x \in BOOLEAN : CallDenied(c, x)
  <2>1. pc' = [pc EXCEPT ![d] = "denied"] BY <1>4 DEF CallDenied
  <2>2. c = d BY <2>1
  <2> QED BY <1>4, <2>2
<1>5. ASSUME NEW d \in Calls, NEW s, Ask(d, s) PROVE FALSE
  <2>1. PICK p \in {"failed", "asking"} : pc' = [pc EXCEPT ![d] = p]
    BY <1>5, AskFacts
  <2> QED BY <1>1, <2>1 DEF Places
<1>6. ASSUME NEW d \in Calls, NEW available, Routed(d, available) PROVE FALSE
  <2> DEFINE s == Available(Route[d], available)
  <2>1. CASE s = <<>> BY <1>1, <1>6, <2>1 DEF Routed, Places
  <2>2. CASE s # <<>>
    <3>1. Ask(d, s) BY <1>6, <2>2 DEF Routed
    <3> HIDE DEF s
    <3> QED BY <1>5, <3>1
  <2> QED BY <2>1, <2>2
<1>7. ASSUME NEW d \in Calls, NEW cost, NEW recorded \in BOOLEAN,
             ChatSucceeds(d, cost, recorded) PROVE FALSE
  BY <1>1, <1>7 DEF ChatSucceeds, Places
<1>8. ASSUME NEW d \in Calls, ChatFails(d) PROVE FALSE
  BY <1>5, <1>8 DEF ChatFails
<1>9. ASSUME pc' = pc PROVE FALSE BY <1>9
<1>10. ASSUME NEW e \in Engines, ReadUsage(e) PROVE FALSE BY <1>9, <1>10 DEF ReadUsage
<1>11. CASE Tick BY <1>9, <1>11 DEF Tick
<1>12. CASE UNCHANGED vars BY <1>9, <1>12 DEF vars
<1>13. CASE Restart BY <1>13 DEF Restart
<1> QED
  BY <1>2, <1>3, <1>4, <1>6, <1>7, <1>8, <1>10, <1>11, <1>12, <1>13 DEF Next, CallStep

(* What getUsage counts counts now, or did within one life of the cache. *)
LEMMA UsageIsCounted ==
  ASSUME UInv, NEW e \in Budgeted, NEW w \in Windows
  PROVE  Usage(e).used[w] <= Counted(e, w) /\ Usage(e).used[w] \in Nat /\ Counted(e, w) \in Nat
<1> DEFINE at == Usage(e).at
           T == {r \in rows : Engine[r.call] = e /\ r.at + Span[w] > at}
           U == {r \in rows : Engine[r.call] = e /\ r.at + Span[w] + UsageTtl > now}
<1>1. /\ Usage(e).used[w] <= Tokens(T) /\ Usage(e).used[w] \in Nat
      /\ at \in Nat /\ at <= now /\ (now - at < UsageTtl \/ at = now)
  BY UsageIsFigured DEF UInv, Figured
<1>2. Counted(e, w) = Tokens(U) BY DEF Counted
<1> HIDE DEF at
<1>3. T \in SUBSET U
  <2>1. ASSUME NEW r \in T PROVE r \in U
    <3>1. r.at \in Nat /\ Span[w] \in Nat /\ now \in Nat /\ UsageTtl \in Nat
      BY LimitAssumption DEF UInv, Types, CallTypes, RowTypes, Row
    <3>2. r.at + Span[w] > at OBVIOUS
    <3>3. r.at + Span[w] + UsageTtl > now BY <1>1, <3>1, <3>2
    <3> QED BY <3>3
  <2> QED BY <2>1
<1>4. /\ U \in SUBSET Row /\ IsFiniteSet(U) /\ T \in SUBSET Row /\ IsFiniteSet(T)
  BY FS_Subset DEF UInv, Types, RowTypes
<1> HIDE DEF T, U
<1>5. Tokens(T) <= Tokens(U) /\ Tokens(U) \in Nat /\ Tokens(T) \in Nat
  BY <1>3, <1>4, TokensOf
<1> QED BY <1>1, <1>2, <1>5

(* An engine is denied a call only if the call does not fit with what its   *)
(* calls used in the window and one life of the usage cache before it, and  *)
(* with the reservations of the last two minutes: whatever has leaked and   *)
(* however old the usage figure is.                                         *)
THEOREM DenialsAreJustified == Spec => DenialsJustified
<1>1. ASSUME UInv, [Next]_vars, NEW c \in Calls, pc[c] = "idle", pc'[c] = "denied"
      PROVE  \E w \in Windows :
               /\ Limit[Engine[c]][w] > 0
               /\ Counted(Engine[c], w) + Held(Engine[c]) + Estimate[c] > Limit[Engine[c]][w]
  <2> DEFINE e == Engine[c]
  <2>1. PICK blind \in BOOLEAN : CallDenied(c, blind) BY <1>1, DeniedByBudget
  <2>2. e \in Budgeted /\ ~Fits(c, blind) BY <2>1 DEF CallDenied, Reckon
  <2> DEFINE used(w) == IF blind THEN 0 ELSE Usage(e).used[w]
  <2>3. PICK w \in Windows :
          /\ Limit[e][w] > 0
          /\ ~(used(w) + Reserved(e) + Estimate[c] <= Limit[e][w])
    BY <2>2 DEF Fits
  <2>4. Reserved(e) = Held(e)
    <3>1. {r \in Fresh : Engine[r.call] = e}
          = {r \in reservations : Engine[r.call] = e /\ r.at + StaleAfter >= now}
      BY DEF Fresh
    <3> QED BY <3>1 DEF Reserved, Held
  <2> HIDE DEF e
  <2>5. used(w) <= Counted(e, w) /\ used(w) \in Nat /\ Counted(e, w) \in Nat
    BY <1>1, <2>2, UsageIsCounted
  <2> HIDE DEF used
  <2>6. Reserved(e) \in Nat
    <3>1. PICK D \in SUBSET Calls : D = {} OBVIOUS
    <3>2. \A x \in D : /\ Engine[x] = e /\ \E r \in Fresh : r.call = x
                       /\ Estimate[x] \in Int /\ Estimate[x] <= Estimate[x]
      BY <3>1
    <3> QED BY <1>1, <2>2, <3>2, ReservedCovers
  <2>7. Estimate[c] \in Nat /\ Limit[e][w] \in Nat
    BY <2>2, EstimatesAreNaturals, LimitsAreNaturals
  <2>8. Counted(e, w) + Held(e) + Estimate[c] > Limit[e][w]
    BY <2>3, <2>4, <2>5, <2>6, <2>7
  <2> QED BY <2>3, <2>8 DEF e
<1>2. UInv /\ [Next]_vars =>
        [\A c \in Calls :
           pc[c] = "idle" /\ pc'[c] = "denied" =>
             \E w \in Windows :
               /\ Limit[Engine[c]][w] > 0
               /\ Counted(Engine[c], w) + Held(Engine[c]) + Estimate[c]
                    > Limit[Engine[c]][w]]_vars
  BY <1>1
<1> QED BY <1>2, UsesInvariant, PTL DEF Spec, DenialsJustified
===========================================================================
