------------------------------ MODULE BorgSync ------------------------------
(***************************************************************************)
(* The Borg sync between the brains of the ecosystem: every brain pushes   *)
(* what it has learnt to its peers (cross-brain.borgSync) and pulls what   *)
(* they have (cross-brain.borgExport) through the request/response IPC of  *)
(* CrossBrainClient, whose requests time out after 3 s without recalling   *)
(* what the peer may still execute.                                        *)
(*                                                                         *)
(* The peers a client talks to are the default ones, less those whose      *)
(* multicast heartbeats have stopped.                                      *)
(*                                                                         *)
(* Source: packages/brain-core/src/cross-brain/borg-sync-engine.ts, with   *)
(* client.ts (broadcast, addPeer, removePeer), peer-network.ts,            *)
(* ipc/client.ts and ipc/server.ts under it and the routes borg.* and      *)
(* cross-brain.borg* of the brains' routers.                               *)
(*                                                                         *)
(* Abstractions: an item stands for a principle, rule or insight that      *)
(* passes the filters every brain boots with; minConfidence, mode,         *)
(* shareTypes and relevanceThreshold, which updateConfig may change, count *)
(* for the items they let out and in.  Importing writes a memory under the *)
(* key of peer and item, so what a brain knows is a set; the sync history  *)
(* is left out.  A brain that is up is listening.                          *)
(***************************************************************************)
EXTENDS Naturals, FiniteSets

CONSTANTS
    Brains,        \* brain, trading-brain, marketing-brain
    Slots,         \* bound: the sync cycles of one brain that may overlap
    Items,         \* what can be learnt
    Owner,         \* Owner[i]: the brain that learns item i (item.source)
    MaxIntervals,  \* bound: intervals a brain may have running
    MaxUpdates,    \* bound: calls of updateConfig
    MaxMishaps     \* bound: timeouts and crashes

ASSUME OwnerAssumption == Owner \in [Items -> Brains]
ASSUME BoundAssumption == /\ MaxIntervals \in Nat \ {0}
                          /\ MaxUpdates \in Nat /\ MaxMishaps \in Nat

VARIABLES
    up,         \* the brains whose process runs
    enabled,    \* the brains with config.enabled
    handle,     \* the brains with this.timer set
    intervals,  \* intervals[b]: the setInterval timers of b that tick
    outgoing,   \* outgoing[b]: what of its own b's config lets out
    incoming,   \* incoming[b]: what of the others b's config lets in
    peers,      \* peers[b]: the peers of b's CrossBrainClient
    has,        \* has[b]: the shareable items b has learnt itself
    knows,      \* knows[b]: the items b has imported (memories, on disk)
    cycle,      \* cycle[<<b, s>>]: the sync cycle that runs in slot s of b
    requests,   \* requests on their way to a peer or waiting in its socket
    replies,    \* answers on their way back
    updates,    \* calls of updateConfig so far
    mishaps,    \* timeouts and crashes so far
    exposed,    \* history: the items their owner had while it was enabled
    meddled     \* history: the brains whose "enabled" went through updateConfig

timers == <<enabled, handle, intervals>>
filters == <<outgoing, incoming>>
config == <<timers, filters, peers, updates>>
history == <<exposed, meddled>>
vars == <<up, config, has, knows, cycle, requests, replies, mishaps, history>>

Idle == [step |-> "idle", waiting |-> {}, pulled |-> {}]

Request == [kind: {"borgSync", "borgExport"}, from: Brains, slot: Slots,
            to: Brains, items: SUBSET Items, live: BOOLEAN]
Reply == [from: Brains, slot: Slots, to: Brains, items: SUBSET Items]
Cycle == [step: {"idle", "push", "pull"}, waiting: SUBSET Brains,
          pulled: SUBSET Items]

(***************************************************************************)
(* The filters and the two request handlers of a brain.                    *)
(***************************************************************************)
\* What b can learn itself: the items whose source it is.
Lessons(b) == {i \in Items : Owner[i] = b}

\* filterOutgoing: what of its own b shares under its config.
FilterOutgoing(b) == has[b] \cap outgoing[b]

\* Fault: a brain imports its own items when they come back to it.
FilterIncomingOwnToo(b, items) == items \cap (incoming[b] \cup Lessons(b))

\* filterIncoming: a brain does not import its own items back, and of the
\* others what its config lets in.
FilterIncoming(b, items) == (items \cap incoming[b]) \ Lessons(b)

\* Fault: a disabled brain answers an export request as if it were enabled.
ExportedAlways(b) == FilterOutgoing(b)

\* handleExportRequest: what b answers to cross-brain.borgExport.
Exported(b) == IF b \in enabled THEN FilterOutgoing(b) ELSE {}

\* Fault: a disabled brain imports what it is sent.
AcceptedAlways(b, items) == FilterIncoming(b, items)

\* handleIncomingSync: what b imports of a cross-brain.borgSync packet.
Accepted(b, items) == IF b \in enabled THEN FilterIncoming(b, items) ELSE {}

(***************************************************************************)
(* A sync cycle.  broadcast handles the request of the brain itself with   *)
(* the local handler and sends one to every peer; a peer that is down      *)
(* refuses the connection at once.                                         *)
(***************************************************************************)
\* Fault: a client keeps itself among its peers.
DefaultPeersAndSelf(b) == Brains

\* The constructor of CrossBrainClient leaves its own name out.
DefaultPeers(b) == Brains \ {b}

Broadcast(b, s, kind, items) ==
    requests' = requests \cup
        {[kind |-> kind, from |-> b, slot |-> s, to |-> p, items |-> items,
          live |-> TRUE] : p \in peers[b] \cap up}

\* The pull: its own answer comes from the local handler, and is filtered
\* with those of the peers when the cycle ends.
Pull(b, s) ==
    /\ cycle' = [cycle EXCEPT ![<<b, s>>] =
                   [step |-> "pull", waiting |-> peers[b] \cap up,
                    pulled |-> Exported(b)]]
    /\ Broadcast(b, s, "borgExport", {})

\* The push: the local handler imports before the requests leave.
Push(b, s) ==
    /\ knows' = [knows EXCEPT ![b] = @ \cup Accepted(b, FilterOutgoing(b))]
    /\ cycle' = [cycle EXCEPT ![<<b, s>>] =
                   [step |-> "push", waiting |-> peers[b] \cap up,
                    pulled |-> {}]]
    /\ Broadcast(b, s, "borgSync", FilterOutgoing(b))

\* Fault: a cycle with nothing to push does not pull either.
SyncCycleUnlessEmpty(b, s) ==
    /\ b \in up \cap enabled
    /\ cycle[<<b, s>>] = Idle
    /\ FilterOutgoing(b) # {}
    /\ Push(b, s)
    /\ UNCHANGED <<up, config, has, replies, mishaps, history>>

\* syncCycle, from the interval, the shot 5 s after start or borg.sync.
SyncCycle(b, s) ==
    /\ b \in up \cap enabled
    /\ cycle[<<b, s>>] = Idle
    /\ IF FilterOutgoing(b) # {} THEN Push(b, s)
                                 ELSE Pull(b, s) /\ UNCHANGED knows
    /\ UNCHANGED <<up, config, has, replies, mishaps, history>>

\* The requests and replies of the cycle in slot s of b with peer p that are
\* still awaited.
Awaited(b, s, p) ==
    {r \in requests : r.from = b /\ r.slot = s /\ r.to = p /\ r.live}
Answers(b, s, p) ==
    {a \in replies : a.from = b /\ a.slot = s /\ a.to = p}

\* The server of a peer handles a request, also when its sender has given it
\* up; only a sender that is still connected gets the answer.
Serve(r) ==
    /\ r.to \in up
    /\ knows' = IF r.kind = "borgSync"
                THEN [knows EXCEPT ![r.to] = @ \cup Accepted(r.to, r.items)]
                ELSE knows
    /\ requests' = requests \ {r}
    /\ replies' = IF r.live
                  THEN replies \cup
                         {[from |-> r.from, slot |-> r.slot, to |-> r.to,
                           items |-> IF r.kind = "borgExport"
                                     THEN Exported(r.to) ELSE {}]}
                  ELSE replies
    /\ UNCHANGED <<up, config, has, cycle, mishaps, history>>

\* The answer of a peer reaches the cycle.
Receive(b, s, p) ==
    /\ p \in cycle[<<b, s>>].waiting
    /\ \E a \in Answers(b, s, p) :
          /\ cycle' = [cycle EXCEPT ![<<b, s>>].waiting = @ \ {p},
                                    ![<<b, s>>].pulled = @ \cup a.items]
          /\ replies' = replies \ {a}
    /\ UNCHANGED <<up, config, has, knows, requests, mishaps, history>>

\* The connection to a peer that has died closes: the request is rejected.
Refused(b, s, p) ==
    /\ p \in cycle[<<b, s>>].waiting
    /\ Awaited(b, s, p) = {} /\ Answers(b, s, p) = {}
    /\ cycle' = [cycle EXCEPT ![<<b, s>>].waiting = @ \ {p}]
    /\ UNCHANGED <<up, config, has, knows, requests, replies, mishaps, history>>

\* A request is not answered within 3 s.  The client forgets it and destroys
\* its socket; what the peer has already read it still executes.
Timeout(b, s, p) ==
    /\ mishaps < MaxMishaps
    /\ p \in cycle[<<b, s>>].waiting
    /\ mishaps' = mishaps + 1
    /\ cycle' = [cycle EXCEPT ![<<b, s>>].waiting = @ \ {p}]
    /\ requests' = (requests \ Awaited(b, s, p)) \cup
                     {[r EXCEPT !.live = FALSE] : r \in Awaited(b, s, p)}
    /\ replies' = replies \ Answers(b, s, p)
    /\ UNCHANGED <<up, config, has, knows, history>>

\* Every peer has answered the push or failed: the pull starts, whether or
\* not the brain is still enabled.
PushEnds(b, s) ==
    /\ cycle[<<b, s>>].step = "push" /\ cycle[<<b, s>>].waiting = {}
    /\ Pull(b, s)
    /\ UNCHANGED <<up, config, has, knows, replies, mishaps, history>>

\* Every peer has answered the pull or failed: what came back is imported.
PullEnds(b, s) ==
    /\ cycle[<<b, s>>].step = "pull" /\ cycle[<<b, s>>].waiting = {}
    /\ knows' = [knows EXCEPT ![b] = @ \cup FilterIncoming(b, cycle[<<b, s>>].pulled)]
    /\ cycle' = [cycle EXCEPT ![<<b, s>>] = Idle]
    /\ UNCHANGED <<up, config, has, requests, replies, mishaps, history>>

(***************************************************************************)
(* What a brain learns, and how it is configured, loses and finds its      *)
(* peers, dies and comes back.                                             *)
(***************************************************************************)
\* What b would let out now.
Disclosed(b) == {i \in has[b] : b \in enabled /\ i \in outgoing[b]}

\* Another engine of the brain finds something worth sharing.
Learn(b, i) ==
    /\ b \in up /\ Owner[i] = b /\ i \notin has[b]
    /\ has' = [has EXCEPT ![b] = @ \cup {i}]
    /\ UNCHANGED <<up, config, knows, cycle, requests, replies, mishaps, meddled>>
    /\ exposed' = exposed \cup Disclosed(b)'

\* start: a new interval whose handle replaces the one this.timer held.
Start(b) ==
    /\ intervals[b] < MaxIntervals
    /\ intervals' = [intervals EXCEPT ![b] = @ + 1]
    /\ handle' = handle \cup {b}

\* stop: clears the interval this.timer holds, if any.
Stop(b) ==
    /\ intervals' = [intervals EXCEPT ![b] = IF b \in handle THEN @ - 1 ELSE @]
    /\ handle' = handle \ {b}

\* Fault: enabling starts a timer without asking whether it was enabled.
EnableAgain(b) ==
    /\ b \in up
    /\ enabled' = enabled \cup {b}
    /\ Start(b)
    /\ UNCHANGED <<up, filters, peers, updates, has, knows, cycle, requests,
                   replies, mishaps, meddled>>
    /\ exposed' = exposed \cup Disclosed(b)'

\* setEnabled(true).
Enable(b) ==
    /\ b \in up
    /\ enabled' = enabled \cup {b}
    /\ IF b \in enabled THEN UNCHANGED <<handle, intervals>> ELSE Start(b)
    /\ UNCHANGED <<up, filters, peers, updates, has, knows, cycle, requests,
                   replies, mishaps, meddled>>
    /\ exposed' = exposed \cup Disclosed(b)'

\* setEnabled(false): a cycle that is under way is not cancelled.
Disable(b) ==
    /\ b \in up
    /\ enabled' = enabled \ {b}
    /\ IF b \in enabled THEN Stop(b) ELSE UNCHANGED <<handle, intervals>>
    /\ UNCHANGED <<up, filters, peers, updates, has, knows, cycle, requests,
                   replies, mishaps, history>>

\* updateConfig: the flag and the filters change at once, also under a cycle
\* or a request on its way.  The timer does not follow the flag: one that runs
\* while the brain was and stays enabled is stopped and started, which leaves
\* one interval less and one more.
UpdateConfig(b, on, out, in) ==
    /\ updates < MaxUpdates
    /\ b \in up
    /\ updates' = updates + 1
    /\ enabled' = IF on THEN enabled \cup {b} ELSE enabled \ {b}
    /\ outgoing' = [outgoing EXCEPT ![b] = out]
    /\ incoming' = [incoming EXCEPT ![b] = in]
    /\ meddled' = IF enabled' = enabled THEN meddled ELSE meddled \cup {b}
    /\ UNCHANGED <<up, handle, intervals, peers, has, knows, cycle, requests,
                   replies, mishaps>>
    /\ exposed' = exposed \cup Disclosed(b)'

\* PeerNetwork has had no heartbeat of p for 90 s, whether p is down or only
\* its datagrams are lost: p, a default peer or not, is no peer any more.
PeerLost(b, p) ==
    /\ b \in up /\ p \in peers[b]
    /\ peers' = [peers EXCEPT ![b] = @ \ {p}]
    /\ UNCHANGED <<up, timers, filters, updates, has, knows, cycle, requests,
                   replies, mishaps, history>>

\* A heartbeat of another brain comes through (again).
PeerFound(b, p) ==
    /\ b \in up /\ p # b /\ p \notin peers[b]
    /\ peers' = [peers EXCEPT ![b] = @ \cup {p}]
    /\ UNCHANGED <<up, timers, filters, updates, has, knows, cycle, requests,
                   replies, mishaps, history>>

\* The process dies: what it awaited and what waits in its sockets is gone;
\* its items and its memories are rows of its database.  What it was set to
\* and the peers it had lost or found are forgotten: the next process begins
\* with the defaults.
Crash(b) ==
    /\ mishaps < MaxMishaps
    /\ b \in up
    /\ mishaps' = mishaps + 1
    /\ up' = up \ {b}
    /\ enabled' = enabled \ {b}
    /\ handle' = handle \ {b}
    /\ intervals' = [intervals EXCEPT ![b] = 0]
    /\ outgoing' = [outgoing EXCEPT ![b] = Lessons(b)]
    /\ incoming' = [incoming EXCEPT ![b] = Items \ Lessons(b)]
    /\ peers' = [peers EXCEPT ![b] = DefaultPeers(b)]
    /\ cycle' = [c \in Brains \X Slots |-> IF c[1] = b THEN Idle ELSE cycle[c]]
    /\ requests' = {IF r.from = b THEN [r EXCEPT !.live = FALSE] ELSE r :
                      r \in {q \in requests : q.to # b}}
    /\ replies' = {a \in replies : a.from # b /\ a.to # b}
    /\ meddled' = meddled \ {b}
    /\ UNCHANGED <<updates, has, knows, exposed>>

\* The brain boots: every brain constructs its engine enabled and starts it
\* when its IPC server listens, whatever it was set to before.
Restart(b) ==
    /\ b \notin up
    /\ up' = up \cup {b}
    /\ enabled' = enabled \cup {b}
    /\ Start(b)
    /\ UNCHANGED <<filters, peers, updates, has, knows, cycle, requests,
                   replies, mishaps, meddled>>
    /\ exposed' = exposed \cup Disclosed(b)'

(***************************************************************************)
(* The specification.                                                      *)
(***************************************************************************)
Init ==
    /\ up = Brains /\ enabled = Brains /\ handle = Brains
    /\ intervals = [b \in Brains |-> 1]
    /\ outgoing = [b \in Brains |-> Lessons(b)]
    /\ incoming = [b \in Brains |-> Items \ Lessons(b)]
    /\ peers = [b \in Brains |-> DefaultPeers(b)]
    /\ has = [b \in Brains |-> {}]
    /\ knows = [b \in Brains |-> {}]
    /\ cycle = [c \in Brains \X Slots |-> Idle]
    /\ requests = {} /\ replies = {}
    /\ updates = 0 /\ mishaps = 0
    /\ exposed = {} /\ meddled = {}

Next ==
    \/ \E b \in Brains, s \in Slots :
          \/ SyncCycle(b, s) \/ PushEnds(b, s) \/ PullEnds(b, s)
          \/ \E p \in Brains :
                Receive(b, s, p) \/ Refused(b, s, p) \/ Timeout(b, s, p)
    \/ \E r \in requests : Serve(r)
    \/ \E b \in Brains :
          \/ Enable(b) \/ Disable(b)
          \/ \E on \in BOOLEAN, out \in SUBSET Lessons(b),
                in \in SUBSET (Items \ Lessons(b)) : UpdateConfig(b, on, out, in)
          \/ \E p \in Brains : PeerLost(b, p) \/ PeerFound(b, p)
          \/ Crash(b) \/ Restart(b)
          \/ \E i \in Items : Learn(b, i)

\* An interval of b ticks.
Tick(b, s) == intervals[b] > 0 /\ SyncCycle(b, s)

\* A request of b to p is handled.
Handled(b, s, p) ==
    \E r \in requests : r.from = b /\ r.slot = s /\ r.to = p /\ Serve(r)

\* The timers tick, the servers answer and the promises settle; users,
\* heartbeats, timeouts, crashes and restarts owe nothing.
Fairness ==
    \A b \in Brains, s \in Slots :
       /\ WF_vars(Tick(b, s))
       /\ WF_vars(PushEnds(b, s) \/ PullEnds(b, s))
       /\ \A p \in Brains \ {b} :
             /\ WF_vars(Handled(b, s, p))
             /\ WF_vars(Receive(b, s, p) \/ Refused(b, s, p))

Spec == Init /\ [][Next]_vars /\ Fairness

(***************************************************************************)
(* Properties.                                                             *)
(***************************************************************************)
\* The types of the state; no brain is its own peer or awaits itself.
TypeOK ==
    /\ up \in SUBSET Brains /\ enabled \in SUBSET up /\ handle \in SUBSET up
    /\ intervals \in [Brains -> 0..MaxIntervals]
    /\ outgoing \in [Brains -> SUBSET Items] /\ incoming \in [Brains -> SUBSET Items]
    /\ peers \in [Brains -> SUBSET Brains] /\ \A b \in Brains : b \notin peers[b]
    /\ has \in [Brains -> SUBSET Items] /\ knows \in [Brains -> SUBSET Items]
    /\ cycle \in [Brains \X Slots -> Cycle]
    /\ \A c \in Brains \X Slots : c[1] \notin cycle[c].waiting
    /\ requests \in SUBSET Request /\ replies \in SUBSET Reply
    /\ updates \in 0..MaxUpdates /\ mishaps \in 0..MaxMishaps
    /\ exposed \in SUBSET Items /\ meddled \in SUBSET Brains

\* No brain imports what it has learnt itself, though every push and every
\* pull also goes to its own local handler.
NoEcho == \A b \in Brains : \A i \in knows[b] : Owner[i] # b

\* A brain that is disabled, or whose filters hold an item back, keeps it to
\* itself: what a brain knows, what is on the wire and what a cycle has pulled
\* was all with an owner that was enabled and let it out, however late a
\* request is served.
OnlyExposedIsShared ==
    /\ \A b \in Brains : knows[b] \subseteq exposed
    /\ \A r \in requests : r.items \subseteq exposed
    /\ \A a \in replies : a.items \subseteq exposed
    /\ \A c \in Brains \X Slots : cycle[c].pulled \subseteq exposed

\* As long as nobody changes "enabled" through updateConfig, a brain has one
\* interval when it is enabled and none otherwise, across disabling,
\* enabling, crashing and booting in any order.
OneIntervalWhenEnabled ==
    \A b \in Brains \ meddled : intervals[b] = IF b \in enabled THEN 1 ELSE 0

\* A disabled brain imports nothing but the result of a pull of its own that
\* was under way when it was disabled: a push of a peer, however late it
\* arrives, is turned away.
DisabledTakesNoPush ==
    [][\A b \in Brains \ enabled :
          knows'[b] # knows[b] => \E s \in Slots : cycle[<<b, s>>].step = "pull"
                                                   /\ cycle'[<<b, s>>] = Idle]_vars

\* Two brains that stay up and enabled, one of which has a ticking interval
\* and keeps the other among its peers, end up sharing what either of them has
\* learnt and both their filters let pass, after any number of lost heartbeats,
\* lost connections and restarts before that.
Linked(b, c) == /\ {b, c} \subseteq up \cap enabled
                /\ intervals[b] > 0 /\ c \in peers[b]
Shareable(i, c) == i \in FilterOutgoing(Owner[i]) /\ i \in incoming[c]
KnowledgeSpreads ==
    \A i \in Items : \A c \in Brains \ {Owner[i]} :
       \A link \in {<<Owner[i], c>>, <<c, Owner[i]>>} :
          <>[](Linked(link[1], link[2]) /\ Shareable(i, c)) => <>(i \in knows[c])

=============================================================================
