-------------------------- MODULE BorgSyncProofs --------------------------
(***************************************************************************)
(* Proofs about BorgSync for any brains, items and overlapping cycles, and *)
(* for any number of timeouts and crashes.                                 *)
(***************************************************************************)
EXTENDS BorgSync, TLAPS

(* A handle is that of a ticking interval.                                 *)
HandlesTick == \A b \in handle : intervals[b] > 0

(* A brain nobody meddled with has a timer exactly when it is enabled.     *)
TimersFollow ==
  /\ meddled \subseteq up
  /\ \A b \in Brains \ meddled : b \in handle <=> b \in enabled

(* What an enabled brain has and lets out is exposed. *)
EnabledExposes == \A b \in enabled : FilterOutgoing(b) \subseteq exposed

(* The two halves of the invariant: the timers, and what is shared. *)
TimerInv ==
  /\ up \in SUBSET Brains /\ enabled \in SUBSET up /\ handle \in SUBSET up
  /\ intervals \in [Brains -> 0..MaxIntervals]
  /\ meddled \in SUBSET Brains
  /\ HandlesTick /\ TimersFollow /\ OneIntervalWhenEnabled

WireTypes ==
  /\ outgoing \in [Brains -> SUBSET Items] /\ incoming \in [Brains -> SUBSET Items]
  /\ peers \in [Brains -> SUBSET Brains] /\ \A b \in Brains : b \notin peers[b]
  /\ has \in [Brains -> SUBSET Items] /\ knows \in [Brains -> SUBSET Items]
  /\ cycle \in [Brains \X Slots -> Cycle]
  /\ \A c \in Brains \X Slots : c[1] \notin cycle[c].waiting
  /\ requests \in SUBSET Request /\ replies \in SUBSET Reply
  /\ updates \in 0..MaxUpdates /\ mishaps \in 0..MaxMishaps
  /\ exposed \in SUBSET Items

ShareInv == WireTypes /\ EnabledExposes /\ NoEcho /\ OnlyExposedIsShared

IInv == TimerInv /\ ShareInv

LEMMA IInvTypes == IInv => TypeOK
BY DEF IInv, TimerInv, ShareInv, WireTypes, TypeOK

---------------------------------------------------------------------------
(* The timers. *)

LEMMA EnableTimers ==
  ASSUME IInv, NEW b \in Brains, Enable(b)
  PROVE  TimerInv'
<1>1. /\ b \in up /\ enabled' = enabled \cup {b} /\ UNCHANGED <<up, meddled>>
  BY DEF Enable
<1>2. CASE b \in enabled
  <2>1. UNCHANGED <<handle, intervals>> /\ enabled' = enabled BY <1>1, <1>2 DEF Enable
  <2> QED BY <1>1, <2>1 DEF IInv, TimerInv, HandlesTick, TimersFollow, OneIntervalWhenEnabled
<1>3. CASE b \notin enabled
  <2>1. /\ intervals[b] < MaxIntervals /\ handle' = handle \cup {b}
        /\ intervals' = [intervals EXCEPT ![b] = @ + 1]
    BY <1>3 DEF Enable, Start
  <2>2. intervals[b] + 1 \in 0..MaxIntervals /\ intervals[b] + 1 > 0
    BY <2>1, BoundAssumption DEF IInv, TimerInv
  <2>3. b \notin meddled => intervals[b] + 1 = 1
    BY <1>3 DEF IInv, TimerInv, OneIntervalWhenEnabled
  <2> QED
    BY <1>1, <2>1, <2>2, <2>3
    DEF IInv, TimerInv, HandlesTick, TimersFollow, OneIntervalWhenEnabled
<1> QED BY <1>2, <1>3

LEMMA DisableTimers ==
  ASSUME IInv, NEW b \in Brains, Disable(b)
  PROVE  TimerInv'
<1>1. /\ b \in up /\ enabled' = enabled \ {b} /\ UNCHANGED <<up, meddled>>
  BY DEF Disable, history
<1>2. CASE b \notin enabled
  <2>1. UNCHANGED <<handle, intervals>> /\ enabled' = enabled BY <1>1, <1>2 DEF Disable
  <2> QED BY <1>1, <2>1 DEF IInv, TimerInv, HandlesTick, TimersFollow, OneIntervalWhenEnabled
<1>3. CASE b \in enabled
  <2>1. /\ handle' = handle \ {b}
        /\ intervals' = [intervals EXCEPT ![b] = IF b \in handle THEN @ - 1 ELSE @]
    BY <1>3 DEF Disable, Stop
  <2> DEFINE left == IF b \in handle THEN intervals[b] - 1 ELSE intervals[b]
  <2>2. left \in 0..MaxIntervals
    BY BoundAssumption DEF IInv, TimerInv, HandlesTick
  <2>3. b \notin meddled => left = 0
    BY <1>3 DEF IInv, TimerInv, TimersFollow, OneIntervalWhenEnabled
  <2>4. intervals' = [intervals EXCEPT ![b] = left] BY <2>1
  <2> HIDE DEF left
  <2> QED
    BY <1>1, <2>1, <2>2, <2>3, <2>4
    DEF IInv, TimerInv, HandlesTick, TimersFollow, OneIntervalWhenEnabled
<1> QED BY <1>2, <1>3

LEMMA UpdateConfigTimers ==
  ASSUME IInv, NEW b \in Brains, NEW on \in BOOLEAN, NEW out, NEW in,
         UpdateConfig(b, on, out, in)
  PROVE  TimerInv'
<1>1. /\ b \in up /\ UNCHANGED <<up, handle, intervals>>
      /\ enabled' \subseteq up /\ \A q \in Brains \ {b} : q \in enabled' <=> q \in enabled
      /\ meddled' \subseteq meddled \cup {b} /\ meddled \subseteq meddled'
      /\ b \in meddled' \/ enabled' = enabled
  BY DEF UpdateConfig, IInv, TimerInv
<1> QED BY <1>1 DEF IInv, TimerInv, HandlesTick, TimersFollow, OneIntervalWhenEnabled

LEMMA CrashTimers ==
  ASSUME IInv, NEW b \in Brains, Crash(b)
  PROVE  TimerInv'
<1>1. /\ up' = up \ {b} /\ enabled' = enabled \ {b} /\ handle' = handle \ {b}
      /\ intervals' = [intervals EXCEPT ![b] = 0] /\ meddled' = meddled \ {b}
  BY DEF Crash
<1>2. 0 \in 0..MaxIntervals BY BoundAssumption
<1> QED
  BY <1>1, <1>2 DEF IInv, TimerInv, HandlesTick, TimersFollow, OneIntervalWhenEnabled

LEMMA RestartTimers ==
  ASSUME IInv, NEW b \in Brains, Restart(b)
  PROVE  TimerInv'
<1>1. /\ b \notin up /\ up' = up \cup {b} /\ enabled' = enabled \cup {b}
      /\ handle' = handle \cup {b} /\ meddled' = meddled
      /\ intervals' = [intervals EXCEPT ![b] = @ + 1]
  BY DEF Restart, Start
<1>2. intervals[b] = 0 /\ b \notin meddled
  BY <1>1 DEF IInv, TimerInv, TimersFollow, OneIntervalWhenEnabled
<1>3. intervals' = [intervals EXCEPT ![b] = 1] BY <1>1, <1>2
<1>4. 1 \in 0..MaxIntervals BY BoundAssumption
<1> QED
  BY <1>1, <1>2, <1>3, <1>4
  DEF IInv, TimerInv, HandlesTick, TimersFollow, OneIntervalWhenEnabled

(* No other step touches a timer. *)
LEMMA NextTimers ==
  ASSUME IInv, [Next]_vars
  PROVE  TimerInv'
<1>1. ASSUME UNCHANGED <<up, timers, meddled>> PROVE TimerInv'
  BY <1>1 DEF IInv, TimerInv, HandlesTick, TimersFollow, OneIntervalWhenEnabled, timers
<1>2. ASSUME NEW b \in Brains, NEW s \in Slots,
             \/ SyncCycle(b, s) \/ PushEnds(b, s) \/ PullEnds(b, s)
             \/ \E p \in Brains :
                  Receive(b, s, p) \/ Refused(b, s, p) \/ Timeout(b, s, p)
      PROVE  TimerInv'
  BY <1>1, <1>2
  DEF SyncCycle, PushEnds, PullEnds, Receive, Refused, Timeout, config, history
<1>3. ASSUME NEW r \in requests, Serve(r) PROVE TimerInv'
  BY <1>1, <1>3 DEF Serve, config, history
<1>4. ASSUME NEW b \in Brains, NEW i \in Items, Learn(b, i) PROVE TimerInv'
  BY <1>1, <1>4 DEF Learn, config
<1>5. ASSUME NEW b \in Brains, NEW p \in Brains, PeerLost(b, p) \/ PeerFound(b, p)
      PROVE  TimerInv'
  BY <1>1, <1>5 DEF PeerLost, PeerFound, history
<1>6. CASE UNCHANGED vars BY <1>1, <1>6 DEF vars, config, history
<1> QED
  BY <1>2, <1>3, <1>4, <1>5, <1>6, EnableTimers, DisableTimers, UpdateConfigTimers,
     CrashTimers, RestartTimers
  DEF Next

---------------------------------------------------------------------------
(* What is shared. *)

LEMMA CycleType ==
  ASSUME NEW step \in {"idle", "push", "pull"}, NEW waiting \in SUBSET Brains,
         NEW pulled \in SUBSET Items
  PROVE  [step |-> step, waiting |-> waiting, pulled |-> pulled] \in Cycle
BY DEF Cycle

(* What the invariant says of the parts of the state. *)
LEMMA ShareFacts ==
  ASSUME IInv
  PROVE  /\ WireTypes /\ up \subseteq Brains /\ enabled \subseteq up
         /\ \A b \in enabled : FilterOutgoing(b) \subseteq exposed
         /\ \A b \in Brains : /\ peers[b] \subseteq Brains /\ b \notin peers[b]
                              /\ FilterOutgoing(b) \subseteq has[b]
                              /\ has[b] \subseteq Items /\ knows[b] \subseteq Items
                              /\ knows[b] \subseteq exposed
                              /\ \A i \in knows[b] : Owner[i] # b
         /\ \A r \in requests : r \in Request /\ r.items \subseteq exposed
         /\ \A a \in replies : a \in Reply /\ a.items \subseteq exposed
         /\ \A c \in Brains \X Slots : /\ cycle[c] \in Cycle
                                       /\ cycle[c].pulled \subseteq exposed
<1> SUFFICES ASSUME IInv
             PROVE  \A b \in Brains : FilterOutgoing(b) \subseteq has[b]
  BY DEF IInv, TimerInv, ShareInv, WireTypes, EnabledExposes, NoEcho, OnlyExposedIsShared
<1> QED BY DEF FilterOutgoing

(* What is handed out is exposed, what is taken in is another's. *)
LEMMA HandlerFacts ==
  ASSUME IInv, NEW b \in Brains
  PROVE  /\ Exported(b) \subseteq exposed /\ Exported(b) \subseteq Items
         /\ \A items \in SUBSET Items :
                       /\ Accepted(b, items) \subseteq items
                       /\ FilterIncoming(b, items) \subseteq items
                       /\ \A i \in Accepted(b, items) : Owner[i] # b
                       /\ \A i \in FilterIncoming(b, items) : Owner[i] # b
BY ShareFacts DEF Exported, Accepted, FilterIncoming, Lessons

(* One brain comes to know more, all of it exposed and of others. *)
LEMMA KnowsGrows ==
  ASSUME IInv, NEW b \in Brains, NEW new,
         new \subseteq exposed, \A i \in new : Owner[i] # b,
         knows' = [knows EXCEPT ![b] = @ \cup new]
  PROVE  /\ knows' \in [Brains -> SUBSET Items]
         /\ \A q \in Brains : /\ knows'[q] \subseteq exposed
                              /\ \A i \in knows'[q] : Owner[i] # q
<1>1. knows \in [Brains -> SUBSET Items] /\ exposed \in SUBSET Items
  BY ShareFacts DEF WireTypes
<1>2. knows' = [knows EXCEPT ![b] = knows[b] \cup new] OBVIOUS
<1>3. knows[b] \cup new \in SUBSET Items BY <1>1
<1> QED BY <1>1, <1>2, <1>3, ShareFacts

LEMMA KnowsStays ==
  ASSUME IInv, knows' = knows
  PROVE  /\ knows' \in [Brains -> SUBSET Items]
         /\ \A q \in Brains : /\ knows'[q] \subseteq exposed
                              /\ \A i \in knows'[q] : Owner[i] # q
BY ShareFacts DEF WireTypes

(* A cycle changes, in a way that fits. *)
LEMMA CycleMoves ==
  ASSUME IInv, NEW b \in Brains, NEW s \in Slots, NEW new \in Cycle,
         b \notin new.waiting, new.pulled \subseteq exposed,
         cycle' = [cycle EXCEPT ![<<b, s>>] = new]
  PROVE  /\ cycle' \in [Brains \X Slots -> Cycle]
         /\ \A c \in Brains \X Slots : /\ c[1] \notin cycle'[c].waiting
                                       /\ cycle'[c].pulled \subseteq exposed
<1>1. cycle \in [Brains \X Slots -> Cycle] /\ <<b, s>> \in Brains \X Slots
  BY ShareFacts DEF WireTypes
<1>2. \A c \in Brains \X Slots : /\ c[1] \notin cycle[c].waiting
                                /\ cycle[c].pulled \subseteq exposed
  BY ShareFacts DEF WireTypes
<1>3. \A c \in Brains \X Slots : cycle'[c] = IF c = <<b, s>> THEN new ELSE cycle[c]
  BY <1>1
<1>4. <<b, s>>[1] = b OBVIOUS
<1> QED BY <1>1, <1>2, <1>3, <1>4

(* The step of a cycle from which the rest of the invariant follows. *)
LEMMA ShareStep ==
  ASSUME IInv, UNCHANGED <<config, has, exposed>>, mishaps' \in 0..MaxMishaps,
         knows' \in [Brains -> SUBSET Items],
         \A q \in Brains : /\ knows'[q] \subseteq exposed
                          /\ \A i \in knows'[q] : Owner[i] # q,
         cycle' \in [Brains \X Slots -> Cycle],
         \A c \in Brains \X Slots : /\ c[1] \notin cycle'[c].waiting
                                   /\ cycle'[c].pulled \subseteq exposed,
         \A r \in requests' : r \in Request /\ r.items \subseteq exposed,
         \A a \in replies' : a \in Reply /\ a.items \subseteq exposed
  PROVE  ShareInv'
<1>0. UNCHANGED <<enabled, outgoing, incoming, peers, updates>>
  BY DEF config, timers, filters
<1>1. WireTypes' BY <1>0, ShareFacts DEF WireTypes
<1>2. EnabledExposes' BY <1>0, ShareFacts DEF EnabledExposes, FilterOutgoing
<1>3. NoEcho' BY DEF NoEcho
<1>4. OnlyExposedIsShared' BY DEF OnlyExposedIsShared
<1> QED BY <1>1, <1>2, <1>3, <1>4 DEF ShareInv

LEMMA BroadcastKeeps ==
  ASSUME IInv, NEW b \in Brains, NEW s \in Slots,
         NEW kind \in {"borgSync", "borgExport"}, NEW items, items \subseteq exposed,
         Broadcast(b, s, kind, items)
  PROVE  \A r \in requests' : r \in Request /\ r.items \subseteq exposed
<1>1. items \in SUBSET Items BY ShareFacts DEF WireTypes
<1>2. \A p \in peers[b] \cap up :
        [kind |-> kind, from |-> b, slot |-> s, to |-> p, items |-> items,
         live |-> TRUE] \in Request
  BY <1>1, ShareFacts DEF Request
<1> QED BY <1>2, ShareFacts DEF Broadcast

LEMMA PullKeeps ==
  ASSUME IInv, NEW b \in Brains, NEW s \in Slots, Pull(b, s)
  PROVE  /\ cycle' \in [Brains \X Slots -> Cycle]
         /\ \A c \in Brains \X Slots : /\ c[1] \notin cycle'[c].waiting
                                       /\ cycle'[c].pulled \subseteq exposed
         /\ \A r \in requests' : r \in Request /\ r.items \subseteq exposed
<1> DEFINE new == [step |-> "pull", waiting |-> peers[b] \cap up,
                   pulled |-> Exported(b)]
<1>1. new \in Cycle BY CycleType, HandlerFacts, ShareFacts
<1>2. b \notin new.waiting /\ new.pulled \subseteq exposed BY HandlerFacts, ShareFacts
<1>3. cycle' = [cycle EXCEPT ![<<b, s>>] = new] BY DEF Pull
<1> HIDE DEF new
<1>4. \A r \in requests' : r \in Request /\ r.items \subseteq exposed
  BY BroadcastKeeps DEF Pull
<1> QED BY <1>1, <1>2, <1>3, <1>4, CycleMoves

LEMMA SyncCycleKeeps ==
  ASSUME IInv, NEW b \in Brains, NEW s \in Slots, SyncCycle(b, s)
  PROVE  ShareInv'
<1>1. /\ b \in enabled /\ UNCHANGED <<config, has, exposed, replies, mishaps>>
  BY DEF SyncCycle, history
<1>2. mishaps' \in 0..MaxMishaps /\ \A a \in replies' : a \in Reply /\ a.items \subseteq exposed
  BY <1>1, ShareFacts DEF WireTypes
<1>3. CASE Push(b, s)
  <2> DEFINE new == [step |-> "push", waiting |-> peers[b] \cap up, pulled |-> {}]
  <2>1. new \in Cycle /\ b \notin new.waiting /\ new.pulled \subseteq exposed
    BY CycleType, ShareFacts
  <2>2. cycle' = [cycle EXCEPT ![<<b, s>>] = new] BY <1>3 DEF Push
  <2> HIDE DEF new
  <2>3. FilterOutgoing(b) \subseteq exposed /\ FilterOutgoing(b) \in SUBSET Items
    BY <1>1, ShareFacts
  <2>4. \A r \in requests' : r \in Request /\ r.items \subseteq exposed
    BY <1>3, <2>3, BroadcastKeeps DEF Push
  <2>5. /\ knows' \in [Brains -> SUBSET Items]
        /\ \A q \in Brains : /\ knows'[q] \subseteq exposed
                             /\ \A i \in knows'[q] : Owner[i] # q
    <3>1. /\ Accepted(b, FilterOutgoing(b)) \subseteq exposed
          /\ \A i \in Accepted(b, FilterOutgoing(b)) : Owner[i] # b
      BY <2>3, HandlerFacts
    <3>2. knows' = [knows EXCEPT ![b] = @ \cup Accepted(b, FilterOutgoing(b))]
      BY <1>3 DEF Push
    <3> QED BY <3>1, <3>2, KnowsGrows
  <2>6. /\ cycle' \in [Brains \X Slots -> Cycle]
        /\ \A c \in Brains \X Slots : /\ c[1] \notin cycle'[c].waiting
                                      /\ cycle'[c].pulled \subseteq exposed
    BY <2>1, <2>2, CycleMoves
  <2> QED BY <1>1, <1>2, <2>4, <2>5, <2>6, ShareStep
<1>4. CASE Pull(b, s) /\ UNCHANGED knows
  BY <1>1, <1>2, <1>4, PullKeeps, KnowsStays, ShareStep
<1> QED BY <1>3, <1>4 DEF SyncCycle

LEMMA PushEndsKeeps ==
  ASSUME IInv, NEW b \in Brains, NEW s \in Slots, PushEnds(b, s)
  PROVE  ShareInv'
<1>1. Pull(b, s) /\ UNCHANGED <<config, has, exposed, replies, mishaps, knows>>
  BY DEF PushEnds, history
<1>2. mishaps' \in 0..MaxMishaps /\ \A a \in replies' : a \in Reply /\ a.items \subseteq exposed
  BY <1>1, ShareFacts DEF WireTypes
<1> QED BY <1>1, <1>2, PullKeeps, KnowsStays, ShareStep

LEMMA PullEndsKeeps ==
  ASSUME IInv, NEW b \in Brains, NEW s \in Slots, PullEnds(b, s)
  PROVE  ShareInv'
<1> DEFINE pulled == cycle[<<b, s>>].pulled
<1>1. /\ UNCHANGED <<config, has, exposed, requests, replies, mishaps>>
      /\ knows' = [knows EXCEPT ![b] = @ \cup FilterIncoming(b, pulled)]
      /\ cycle' = [cycle EXCEPT ![<<b, s>>] = Idle]
  BY DEF PullEnds, history
<1>2. pulled \subseteq exposed /\ pulled \in SUBSET Items BY ShareFacts DEF WireTypes
<1> HIDE DEF pulled
<1>3. /\ FilterIncoming(b, pulled) \subseteq exposed
      /\ \A i \in FilterIncoming(b, pulled) : Owner[i] # b
  BY <1>2, HandlerFacts
<1>4. /\ knows' \in [Brains -> SUBSET Items]
      /\ \A q \in Brains : /\ knows'[q] \subseteq exposed
                           /\ \A i \in knows'[q] : Owner[i] # q
  BY <1>1, <1>3, KnowsGrows
<1>5. Idle \in Cycle /\ b \notin Idle.waiting /\ Idle.pulled \subseteq exposed
  BY CycleType DEF Idle
<1>6. /\ cycle' \in [Brains \X Slots -> Cycle]
      /\ \A c \in Brains \X Slots : /\ c[1] \notin cycle'[c].waiting
                                    /\ cycle'[c].pulled \subseteq exposed
  BY <1>1, <1>5, CycleMoves
<1> QED BY <1>1, <1>4, <1>6, ShareFacts, ShareStep DEF WireTypes

(* A peer has answered, or is given up: one less to wait for. *)
LEMMA PeerSettles ==
  ASSUME IInv, NEW b \in Brains, NEW s \in Slots, NEW p \in Brains,
         NEW more, more \subseteq exposed,
         \/ cycle' = [cycle EXCEPT ![<<b, s>>].waiting = @ \ {p},
                                   ![<<b, s>>].pulled = @ \cup more]
         \/ cycle' = [cycle EXCEPT ![<<b, s>>].waiting = @ \ {p}]
  PROVE  /\ cycle' \in [Brains \X Slots -> Cycle]
         /\ \A c \in Brains \X Slots : /\ c[1] \notin cycle'[c].waiting
                                       /\ cycle'[c].pulled \subseteq exposed
<1>1. /\ cycle \in [Brains \X Slots -> Cycle] /\ <<b, s>> \in Brains \X Slots
      /\ exposed \subseteq Items
  BY ShareFacts DEF WireTypes
<1>2. PICK old \in Cycle : old = cycle[<<b, s>>] BY <1>1
<1>3. old.pulled \subseteq exposed BY <1>1, <1>2, ShareFacts
<1>4. <<b, s>>[1] \notin old.waiting BY <1>1, <1>2, ShareFacts DEF WireTypes
<1>5. old.waiting \ {p} \in SUBSET Brains /\ old.pulled \cup more \in SUBSET Items
  BY <1>1, <1>3 DEF Cycle
<1>6. PICK new \in Cycle : /\ new.waiting = old.waiting \ {p}
                           /\ new.pulled \subseteq exposed
                           /\ cycle' = [cycle EXCEPT ![<<b, s>>] = new]
  <2>1. CASE cycle' = [cycle EXCEPT ![<<b, s>>].waiting = @ \ {p},
                                    ![<<b, s>>].pulled = @ \cup more]
    <3>0. PICK w \in SUBSET Brains, q \in SUBSET Items :
            w = old.waiting \ {p} /\ q = old.pulled \cup more
      BY <1>5
    <3> DEFINE new == [old EXCEPT !.waiting = w, !.pulled = q]
    <3>1. cycle' = [cycle EXCEPT ![<<b, s>>] = new] BY <1>1, <1>2, <2>1, <3>0
    <3>2. new \in Cycle /\ new.waiting = w /\ new.pulled = q BY DEF Cycle
    <3> HIDE DEF new
    <3> QED BY <1>3, <3>0, <3>1, <3>2
  <2>2. CASE cycle' = [cycle EXCEPT ![<<b, s>>].waiting = @ \ {p}]
    <3> DEFINE new == [old EXCEPT !.waiting = old.waiting \ {p}]
    <3>1. cycle' = [cycle EXCEPT ![<<b, s>>] = new] BY <1>1, <1>2, <2>2
    <3>2. /\ new \in Cycle /\ new.waiting = old.waiting \ {p}
          /\ new.pulled = old.pulled
      BY <1>5 DEF Cycle
    <3> HIDE DEF new
    <3> QED BY <1>3, <3>1, <3>2
  <2> QED BY <2>1, <2>2
<1>7. b \notin new.waiting BY <1>4, <1>6
<1> QED BY <1>6, <1>7, CycleMoves

LEMMA ReceiveKeeps ==
  ASSUME IInv, NEW b \in Brains, NEW s \in Slots, NEW p \in Brains, Receive(b, s, p)
  PROVE  ShareInv'
<1>1. UNCHANGED <<config, has, exposed, knows, requests, mishaps>>
  BY DEF Receive, history
<1>2. PICK a \in replies :
        /\ cycle' = [cycle EXCEPT ![<<b, s>>].waiting = @ \ {p},
                                  ![<<b, s>>].pulled = @ \cup a.items]
        /\ replies' = replies \ {a}
  BY DEF Receive, Answers
<1>3. a.items \subseteq exposed BY ShareFacts
<1>4. /\ cycle' \in [Brains \X Slots -> Cycle]
      /\ \A c \in Brains \X Slots : /\ c[1] \notin cycle'[c].waiting
                                    /\ cycle'[c].pulled \subseteq exposed
  BY <1>2, <1>3, PeerSettles
<1> QED BY <1>1, <1>2, <1>4, ShareFacts, KnowsStays, ShareStep DEF WireTypes

LEMMA RefusedKeeps ==
  ASSUME IInv, NEW b \in Brains, NEW s \in Slots, NEW p \in Brains, Refused(b, s, p)
  PROVE  ShareInv'
<1>1. UNCHANGED <<config, has, exposed, knows, requests, replies, mishaps>>
  BY DEF Refused, history
<1>2. cycle' = [cycle EXCEPT ![<<b, s>>].waiting = @ \ {p}] BY DEF Refused
<1>3. {} \subseteq exposed OBVIOUS
<1>4. /\ cycle' \in [Brains \X Slots -> Cycle]
      /\ \A c \in Brains \X Slots : /\ c[1] \notin cycle'[c].waiting
                                    /\ cycle'[c].pulled \subseteq exposed
  BY <1>2, <1>3, PeerSettles
<1> QED BY <1>1, <1>4, ShareFacts, KnowsStays, ShareStep DEF WireTypes

(* Giving a request up changes nothing of it but that its sender waits. *)
LEMMA GivenUp ==
  ASSUME NEW r \in Request
  PROVE  LET d == [r EXCEPT !.live = FALSE] IN d \in Request /\ d.items = r.items
BY DEF Request

LEMMA TimeoutKeeps ==
  ASSUME IInv, NEW b \in Brains, NEW s \in Slots, NEW p \in Brains, Timeout(b, s, p)
  PROVE  ShareInv'
<1>1. /\ UNCHANGED <<config, has, exposed, knows>>
      /\ mishaps < MaxMishaps /\ mishaps' = mishaps + 1
  BY DEF Timeout, history
<1>2. mishaps' \in 0..MaxMishaps
  BY <1>1, BoundAssumption, ShareFacts DEF WireTypes
<1>3. cycle' = [cycle EXCEPT ![<<b, s>>].waiting = @ \ {p}] BY DEF Timeout
<1>4. {} \subseteq exposed OBVIOUS
<1>5. /\ cycle' \in [Brains \X Slots -> Cycle]
      /\ \A c \in Brains \X Slots : /\ c[1] \notin cycle'[c].waiting
                                    /\ cycle'[c].pulled \subseteq exposed
  BY <1>3, <1>4, PeerSettles
<1>6. \A r \in requests' : r \in Request /\ r.items \subseteq exposed
  <2>1. \A r \in requests : /\ r \in Request /\ r.items \subseteq exposed
                           /\ [r EXCEPT !.live = FALSE] \in Request
                           /\ [r EXCEPT !.live = FALSE].items \subseteq exposed
    BY ShareFacts, GivenUp
  <2> QED BY <2>1 DEF Timeout, Awaited
<1>7. \A a \in replies' : a \in Reply /\ a.items \subseteq exposed
  BY ShareFacts DEF Timeout
<1> QED BY <1>1, <1>2, <1>5, <1>6, <1>7, KnowsStays, ShareStep

LEMMA ServeKeeps ==
  ASSUME IInv, NEW r \in requests, Serve(r)
  PROVE  ShareInv'
<1>1. /\ UNCHANGED <<config, has, exposed, cycle, mishaps>>
      /\ requests' \subseteq requests
  BY DEF Serve, history
<1>2. r \in Request /\ r.items \subseteq exposed BY ShareFacts
<1>3. /\ r.from \in Brains /\ r.slot \in Slots /\ r.to \in Brains BY <1>2 DEF Request
<1>4. /\ knows' \in [Brains -> SUBSET Items]
      /\ \A q \in Brains : /\ knows'[q] \subseteq exposed
                           /\ \A i \in knows'[q] : Owner[i] # q
  <2>1. CASE r.kind = "borgSync"
    <3>1. /\ Accepted(r.to, r.items) \subseteq exposed
          /\ \A i \in Accepted(r.to, r.items) : Owner[i] # r.to
      <4>1. r.items \in SUBSET Items BY <1>2 DEF Request
      <4> QED BY <1>2, <1>3, <4>1, HandlerFacts
    <3>2. knows' = [knows EXCEPT ![r.to] = @ \cup Accepted(r.to, r.items)]
      BY <2>1 DEF Serve
    <3> QED BY <1>3, <3>1, <3>2, KnowsGrows
  <2>2. CASE r.kind # "borgSync"
    BY <2>2, KnowsStays DEF Serve
  <2> QED BY <2>1, <2>2
<1>5. \A a \in replies' : a \in Reply /\ a.items \subseteq exposed
  <2> DEFINE answer == IF r.kind = "borgExport" THEN Exported(r.to) ELSE {}
             reply == [from |-> r.from, slot |-> r.slot, to |-> r.to, items |-> answer]
  <2>1. answer \subseteq exposed /\ answer \subseteq Items BY <1>3, HandlerFacts
  <2> HIDE DEF answer
  <2>2. reply \in Reply /\ reply.items \subseteq exposed
    BY <1>3, <2>1 DEF Reply
  <2>3. replies' \subseteq replies \cup {reply} BY DEF Serve, answer
  <2> HIDE DEF reply
  <2> QED BY <2>2, <2>3, ShareFacts
<1> QED BY <1>1, <1>4, <1>5, ShareFacts, ShareStep DEF WireTypes

LEMMA LearnKeeps ==
  ASSUME IInv, NEW b \in Brains, NEW i \in Items, Learn(b, i)
  PROVE  ShareInv'
<1>1. /\ UNCHANGED <<enabled, filters, peers, updates, knows, cycle, requests,
                   replies, mishaps>>
      /\ has' = [has EXCEPT ![b] = @ \cup {i}]
      /\ exposed' = exposed \cup Disclosed(b)'
  BY DEF Learn, config, timers
<1>2. /\ has \in [Brains -> SUBSET Items] /\ exposed \in SUBSET Items
  BY ShareFacts DEF WireTypes
<1>3. has' \in [Brains -> SUBSET Items] BY <1>1, <1>2
<1>4. exposed' \in SUBSET Items /\ exposed \subseteq exposed'
  BY <1>1, <1>2, <1>3 DEF Disclosed
<1>5. WireTypes' BY <1>1, <1>3, <1>4, ShareFacts DEF WireTypes, filters
<1>6. EnabledExposes'
  <2>1. \A q \in enabled : q \in Brains /\ FilterOutgoing(q) \subseteq exposed BY ShareFacts
  <2>2. \A q \in Brains \ {b} : FilterOutgoing(q)' = FilterOutgoing(q)
    BY <1>1, <1>2 DEF FilterOutgoing, filters
  <2>3. b \in enabled => FilterOutgoing(b)' \subseteq exposed'
    BY <1>1 DEF FilterOutgoing, Disclosed
  <2> QED BY <1>1, <1>4, <2>1, <2>2, <2>3 DEF EnabledExposes
<1>7. NoEcho' BY <1>1, ShareFacts DEF NoEcho
<1>8. OnlyExposedIsShared'
  BY <1>1, <1>4, ShareFacts DEF OnlyExposedIsShared
<1> QED BY <1>5, <1>6, <1>7, <1>8 DEF ShareInv

(* Steps of the configuration: what an enabled brain lets out is exposed. *)
LEMMA ConfigKeeps ==
  ASSUME IInv, UNCHANGED <<has, knows, cycle, requests, replies, mishaps>>,
         outgoing' \in [Brains -> SUBSET Items], incoming' \in [Brains -> SUBSET Items],
         peers' \in [Brains -> SUBSET Brains], \A b \in Brains : b \notin peers'[b],
         updates' \in 0..MaxUpdates,
         exposed' \in SUBSET Items, exposed \subseteq exposed',
         \A q \in enabled' : \/ q \in enabled /\ outgoing'[q] = outgoing[q]
                             \/ FilterOutgoing(q)' \subseteq exposed'
  PROVE  ShareInv'
<1>1. WireTypes' BY ShareFacts DEF WireTypes
<1>2. EnabledExposes' BY ShareFacts DEF EnabledExposes, FilterOutgoing
<1>3. NoEcho' BY ShareFacts DEF NoEcho
<1>4. OnlyExposedIsShared' BY ShareFacts DEF OnlyExposedIsShared
<1> QED BY <1>1, <1>2, <1>3, <1>4 DEF ShareInv

(* The history grows by what a brain of the step lets out. *)
LEMMA DisclosedIsExposed ==
  ASSUME IInv, NEW b \in Brains, has' = has, exposed' = exposed \cup Disclosed(b)'
  PROVE  /\ exposed' \in SUBSET Items /\ exposed \subseteq exposed'
         /\ b \in enabled' => FilterOutgoing(b)' \subseteq exposed'
<1>1. has[b] \subseteq Items /\ exposed \in SUBSET Items BY ShareFacts DEF WireTypes
<1> QED BY <1>1 DEF Disclosed, FilterOutgoing

LEMMA SwitchKeeps ==
  ASSUME IInv, NEW b \in Brains, Enable(b) \/ Disable(b) \/ Restart(b)
  PROVE  ShareInv'
<1>1. UNCHANGED <<filters, peers, updates, has, knows, cycle, requests, replies, mishaps>>
  BY DEF Enable, Disable, Restart
<1>2. /\ outgoing' = outgoing /\ outgoing' \in [Brains -> SUBSET Items]
      /\ incoming' \in [Brains -> SUBSET Items]
      /\ peers' \in [Brains -> SUBSET Brains] /\ \A q \in Brains : q \notin peers'[q]
      /\ updates' \in 0..MaxUpdates /\ exposed \in SUBSET Items
  BY <1>1, ShareFacts DEF WireTypes, filters
<1>3. /\ exposed' \in SUBSET Items /\ exposed \subseteq exposed'
      /\ \A q \in enabled' : q \in enabled \/ FilterOutgoing(q)' \subseteq exposed'
  <2>1. CASE Enable(b) \/ Restart(b)
    BY <1>1, <2>1, DisclosedIsExposed DEF Enable, Restart
  <2>2. CASE Disable(b) BY <1>2, <2>2 DEF Disable, history
  <2> QED BY <2>1, <2>2
<1> QED BY <1>1, <1>2, <1>3, ConfigKeeps

LEMMA UpdateConfigKeeps ==
  ASSUME IInv, NEW b \in Brains, NEW on \in BOOLEAN, NEW out \in SUBSET Items,
         NEW in \in SUBSET Items, UpdateConfig(b, on, out, in)
  PROVE  ShareInv'
<1>1. /\ UNCHANGED <<peers, has, knows, cycle, requests, replies, mishaps>>
      /\ outgoing' = [outgoing EXCEPT ![b] = out]
      /\ incoming' = [incoming EXCEPT ![b] = in]
      /\ updates < MaxUpdates /\ updates' = updates + 1
      /\ \A q \in enabled' : q \in enabled \/ q = b
      /\ exposed' = exposed \cup Disclosed(b)'
  BY DEF UpdateConfig
<1>2. /\ outgoing' \in [Brains -> SUBSET Items]
      /\ \A q \in Brains \ {b} : outgoing'[q] = outgoing[q]
      /\ incoming' \in [Brains -> SUBSET Items]
      /\ peers' \in [Brains -> SUBSET Brains] /\ \A q \in Brains : q \notin peers'[q]
      /\ updates' \in 0..MaxUpdates
  BY <1>1, BoundAssumption, ShareFacts DEF WireTypes
<1>3. \A q \in enabled' : \/ q \in enabled /\ outgoing'[q] = outgoing[q]
                          \/ FilterOutgoing(q)' \subseteq exposed'
  BY <1>1, <1>2, ShareFacts, DisclosedIsExposed
<1> QED BY <1>1, <1>2, <1>3, DisclosedIsExposed, ConfigKeeps

LEMMA PeersKeep ==
  ASSUME IInv, NEW b \in Brains, NEW p \in Brains, PeerLost(b, p) \/ PeerFound(b, p)
  PROVE  ShareInv'
<1>1. UNCHANGED <<enabled, filters, updates, has, knows, cycle, requests, replies,
                  mishaps, exposed>>
  BY DEF PeerLost, PeerFound, timers, history
<1>2. /\ peers' = [peers EXCEPT ![b] = peers'[b]]
      /\ peers'[b] \subseteq Brains /\ b \notin peers'[b]
  BY ShareFacts DEF PeerLost, PeerFound, WireTypes
<1>3. /\ outgoing' = outgoing /\ outgoing' \in [Brains -> SUBSET Items]
      /\ incoming' \in [Brains -> SUBSET Items]
      /\ peers' \in [Brains -> SUBSET Brains] /\ \A q \in Brains : q \notin peers'[q]
      /\ updates' \in 0..MaxUpdates /\ exposed' \in SUBSET Items
  BY <1>1, <1>2, ShareFacts DEF WireTypes, filters
<1> QED BY <1>1, <1>3, ConfigKeeps

LEMMA CrashKeeps ==
  ASSUME IInv, NEW b \in Brains, Crash(b)
  PROVE  ShareInv'
<1>1. /\ UNCHANGED <<has, knows, exposed>> /\ enabled' \subseteq enabled
      /\ mishaps < MaxMishaps /\ mishaps' = mishaps + 1
      /\ cycle' = [c \in Brains \X Slots |-> IF c[1] = b THEN Idle ELSE cycle[c]]
      /\ replies' \subseteq replies
  BY DEF Crash
<1>2. mishaps' \in 0..MaxMishaps
  BY <1>1, BoundAssumption, ShareFacts DEF WireTypes
<1>3. Idle \in Cycle /\ Idle.waiting = {} /\ Idle.pulled = {} BY CycleType DEF Idle
<1>4. /\ cycle' \in [Brains \X Slots -> Cycle]
      /\ \A c \in Brains \X Slots : /\ c[1] \notin cycle'[c].waiting
                                    /\ cycle'[c].pulled \subseteq exposed
  BY <1>1, <1>3, ShareFacts DEF WireTypes
<1>5. \A r \in requests' : r \in Request /\ r.items \subseteq exposed
  <2>1. \A r \in requests : /\ r \in Request /\ r.items \subseteq exposed
                           /\ [r EXCEPT !.live = FALSE] \in Request
                           /\ [r EXCEPT !.live = FALSE].items \subseteq exposed
    BY ShareFacts, GivenUp
  <2> QED BY <2>1 DEF Crash
<1>6. WireTypes'
  <2>1. /\ Lessons(b) \in SUBSET Items /\ DefaultPeers(b) \in SUBSET Brains
        /\ b \notin DefaultPeers(b)
    BY DEF Lessons, DefaultPeers
  <2>2. /\ outgoing' \in [Brains -> SUBSET Items] /\ incoming' \in [Brains -> SUBSET Items]
        /\ peers' \in [Brains -> SUBSET Brains] /\ \A q \in Brains : q \notin peers'[q]
        /\ updates' \in 0..MaxUpdates
    BY <2>1, ShareFacts DEF Crash, WireTypes
  <2> QED BY <1>1, <1>2, <1>4, <1>5, <2>2, ShareFacts DEF WireTypes
<1>7. EnabledExposes'
  <2>1. \A q \in enabled' : q \in Brains \ {b} /\ outgoing'[q] = outgoing[q]
    BY ShareFacts DEF Crash, WireTypes
  <2> QED BY <1>1, <2>1, ShareFacts DEF EnabledExposes, FilterOutgoing
<1>8. NoEcho' BY <1>1, ShareFacts DEF NoEcho
<1>9. OnlyExposedIsShared'
  BY <1>1, <1>4, <1>5, ShareFacts DEF OnlyExposedIsShared
<1> QED BY <1>6, <1>7, <1>8, <1>9 DEF ShareInv

LEMMA NextShares ==
  ASSUME IInv, [Next]_vars
  PROVE  ShareInv'
<1>1. CASE UNCHANGED vars
  BY <1>1 DEF IInv, ShareInv, WireTypes, EnabledExposes, NoEcho, OnlyExposedIsShared,
     vars, config, timers, filters, history, FilterOutgoing
<1>2. \A b \in Brains : Lessons(b) \subseteq Items BY DEF Lessons
<1>3. ASSUME NEW b \in Brains, NEW on \in BOOLEAN, NEW out \in SUBSET Lessons(b),
             NEW in \in SUBSET (Items \ Lessons(b)), UpdateConfig(b, on, out, in)
      PROVE  ShareInv'
  BY <1>2, <1>3, UpdateConfigKeeps
<1> QED
  BY <1>1, <1>3, PeersKeep, SyncCycleKeeps, PushEndsKeeps, PullEndsKeeps, ReceiveKeeps,
     RefusedKeeps, TimeoutKeeps, ServeKeeps, LearnKeeps, SwitchKeeps, CrashKeeps
  DEF Next

LEMMA InitHolds == Init => IInv
<1> SUFFICES ASSUME Init PROVE IInv OBVIOUS
<1>1. TimerInv
  BY BoundAssumption
  DEF Init, TimerInv, HandlesTick, TimersFollow, OneIntervalWhenEnabled
<1>2. Idle \in Cycle /\ Idle.waiting = {} /\ Idle.pulled = {} BY CycleType DEF Idle
<1>3. WireTypes
  BY <1>2, BoundAssumption DEF Init, WireTypes, Lessons, DefaultPeers
<1>4. EnabledExposes /\ NoEcho /\ OnlyExposedIsShared
  BY <1>2 DEF Init, EnabledExposes, FilterOutgoing, NoEcho, OnlyExposedIsShared
<1> QED BY <1>1, <1>3, <1>4 DEF IInv, ShareInv

LEMMA Invariant == Spec => []IInv
<1>1. Init => IInv BY InitHolds
<1>2. IInv /\ [Next]_vars => IInv' BY NextTimers, NextShares DEF IInv
<1> QED BY <1>1, <1>2, PTL DEF Spec

(* The types; a brain awaits only its peers. *)
THEOREM BorgTypes == Spec => []TypeOK
<1> QED BY IInvTypes, Invariant, PTL

(* No brain imports what it has learnt itself. *)
THEOREM NobodyHearsItself == Spec => []NoEcho
<1>1. IInv => NoEcho BY DEF IInv, ShareInv
<1> QED BY <1>1, Invariant, PTL

(* What a brain learns and has while it is disabled reaches nobody. *)
THEOREM SharingIsOptional == Spec => []OnlyExposedIsShared
<1>1. IInv => OnlyExposedIsShared BY DEF IInv, ShareInv
<1> QED BY <1>1, Invariant, PTL

(* One interval when enabled, none when not, as long as "enabled" is not    *)
(* changed through updateConfig.                                            *)
THEOREM OneTimer == Spec => []OneIntervalWhenEnabled
<1>1. IInv => OneIntervalWhenEnabled BY DEF IInv, TimerInv
<1> QED BY <1>1, Invariant, PTL

(* A disabled brain turns the pushes of its peers away. *)
THEOREM PushesAreTurnedAway == Spec => DisabledTakesNoPush
<1> DEFINE Own(b) == knows'[b] # knows[b] =>
             \E s \in Slots : cycle[<<b, s>>].step = "pull" /\ cycle'[<<b, s>>] = Idle
           A == \A b \in Brains \ enabled : Own(b)
<1>1. ASSUME IInv, [Next]_vars PROVE [A]_vars
  <2> SUFFICES ASSUME Next, NEW b \in Brains \ enabled, knows'[b] # knows[b]
               PROVE  \E s \in Slots : /\ cycle[<<b, s>>].step = "pull"
                                      /\ cycle'[<<b, s>>] = Idle
    BY <1>1
  <2>1. knows \in [Brains -> SUBSET Items] /\ cycle \in [Brains \X Slots -> Cycle]
    BY <1>1, ShareFacts DEF WireTypes
  <2>2. ASSUME NEW q \in Brains, NEW s \in Slots, SyncCycle(q, s) PROVE FALSE
    <3>1. q # b BY <2>2 DEF SyncCycle
    <3> QED BY <2>1, <2>2, <3>1 DEF SyncCycle, Push
  <2>3. ASSUME NEW q \in Brains, NEW s \in Slots, PullEnds(q, s)
        PROVE  cycle[<<b, s>>].step = "pull" /\ cycle'[<<b, s>>] = Idle
    <3>1. q = b BY <2>1, <2>3 DEF PullEnds
    <3> QED BY <2>1, <2>3, <3>1 DEF PullEnds
  <2>4. ASSUME NEW r \in requests, Serve(r) PROVE FALSE
    <3>1. r.to = b BY <2>1, <2>4 DEF Serve
    <3>2. Accepted(b, r.items) = {} BY DEF Accepted
    <3> QED BY <2>1, <2>4, <3>1, <3>2 DEF Serve
  <2>5. ASSUME NEW q \in Brains, NEW s \in Slots, NEW p \in Brains,
               \/ PushEnds(q, s) \/ Receive(q, s, p) \/ Refused(q, s, p)
               \/ Timeout(q, s, p)
        PROVE  FALSE
    BY <2>5 DEF PushEnds, Receive, Refused, Timeout
  <2>6. ASSUME NEW q \in Brains,
               \/ Enable(q) \/ Disable(q) \/ Crash(q) \/ Restart(q)
               \/ \E i \in Items : Learn(q, i)
               \/ \E p \in Brains : PeerLost(q, p) \/ PeerFound(q, p)
        PROVE  FALSE
    BY <2>6 DEF Enable, Disable, PeerLost, PeerFound, Crash, Restart,
       Learn
  <2>7. ASSUME NEW q \in Brains, NEW on \in BOOLEAN, NEW out \in SUBSET Lessons(q),
               NEW in \in SUBSET (Items \ Lessons(q)), UpdateConfig(q, on, out, in)
        PROVE  FALSE
    BY <2>7 DEF UpdateConfig
  <2>8. PICK q \in Brains : \E s \in Slots : PullEnds(q, s)
    BY <2>2, <2>4, <2>5, <2>6, <2>7 DEF Next
  <2> QED BY <2>3, <2>8
<1>2. [][A]_vars <=> DisabledTakesNoPush BY DEF DisabledTakesNoPush
<1>3. Spec => [][A]_vars BY <1>1, Invariant, PTL DEF Spec
<1> QED BY <1>2, <1>3
===========================================================================
