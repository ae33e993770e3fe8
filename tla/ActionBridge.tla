--------------------------- MODULE ActionBridge ---------------------------
(***************************************************************************)
(* ActionBridgeEngine (brain-core/src/action/action-bridge.ts): the queue  *)
(* of proposed actions, in a table, and their execution by handlers.       *)
(*                                                                         *)
(* Actions are executed by walks of processQueue, one per feedback cycle   *)
(* under way, and by the route action.execute.  Both wait for a handler;   *)
(* the code between two awaits runs alone.  A walk goes through the list   *)
(* it read before its first await.                                         *)
(***************************************************************************)
EXTENDS Integers, Sequences, FiniteSets

CONSTANTS
  Types,       \* types of actions that are proposed
  Handled,     \* types with a registered handler
  Kinds,       \* what is proposed: a type, and whether the confidence
               \* reaches the threshold of the type (canAutoExecute)
  Walks,       \* feedback cycles that may be under way at a time
  Route,       \* the route action.execute
  MaxPending,  \* maxPendingActions (code: 100)
  MaxActions   \* bound: actions proposed

ASSUME BridgeAssumption ==
  /\ Handled \subseteq Types /\ Kinds \subseteq Types \X BOOLEAN
  /\ Route \notin Walks
  /\ {MaxPending, MaxActions} \subseteq Nat

Ids == 1 .. MaxActions

VARIABLES
  queue,    \* action_queue, in the order of the ids
  todo,     \* of each walk: the actions of its list it has not come to
  calls,    \* calls of handlers not yet settled: the action and the caller
  invoked   \* history: how often the handler was called for each action

bridge == <<queue, todo, calls, invoked>>

Callers == Walks \cup {Route}

Queued == DOMAIN queue

Pending == {a \in Queued : queue[a].status = "pending"}

Executable(a) == a \in Queued /\ queue[a].status \in {"pending", "approved"}

Waiting(w) == \E c \in calls : c.by = w

Settle(a, status) == queue' = [queue EXCEPT ![a].status = status]

---------------------------------------------------------------------------
(* propose, unless the queue is full. *)
Propose(kind) ==
  /\ Cardinality(Pending) < MaxPending
  /\ Len(queue) < MaxActions
  /\ queue' = Append(queue, [type |-> kind[1], sure |-> kind[2],
                             status |-> "pending"])
  /\ UNCHANGED <<todo, calls, invoked>>

(* executeAction without a handler for the type. *)
Unhandled(a) ==
  /\ Executable(a) /\ queue[a].type \notin Handled
  /\ Settle(a, "failed")

(* Fault: the row is marked when the handler is through, not before. *)
InvokeUnmarked(a, by) ==
  /\ Executable(a) /\ queue[a].type \in Handled
  /\ calls' = calls \cup {[action |-> a, by |-> by]}
  /\ invoked' = [invoked EXCEPT ![a] = @ + 1]
  /\ UNCHANGED queue

(* executeAction as far as the await: the row says so before the handler *)
(* is called.                                                            *)
Invoke(a, by) ==
  /\ Executable(a) /\ queue[a].type \in Handled
  /\ Settle(a, "executing")
  /\ calls' = calls \cup {[action |-> a, by |-> by]}
  /\ invoked' = [invoked EXCEPT ![a] = @ + 1]

(* The handler has settled: the row is written, whatever it says by now. *)
HandlerSettles(c, ok) ==
  /\ c \in calls
  /\ Settle(c.action, IF ok THEN "completed" ELSE "failed")
  /\ calls' = calls \ {c}
  /\ UNCHANGED <<todo, invoked>>

---------------------------------------------------------------------------
(* processQueue: only actions that canAutoExecute. *)

(* Fault: the list is cut one short. *)
AutoExecutableButLast == {a \in Pending : queue[a].sure /\ a < Len(queue)}

AutoExecutable == {a \in Pending : queue[a].sure}

StartWalk(w) ==
  /\ ~Waiting(w) /\ todo[w] = {} /\ AutoExecutable # {}
  /\ todo' = [todo EXCEPT ![w] = AutoExecutable]
  /\ UNCHANGED <<queue, calls, invoked>>

Comes(w, a) ==
  /\ ~Waiting(w) /\ a \in todo[w]
  /\ todo' = [todo EXCEPT ![w] = @ \ {a}]

WalkInvokes(w, a) ==
  /\ Comes(w, a) /\ Invoke(a, w)

WalkFindsNoHandler(w, a) ==
  /\ Comes(w, a) /\ Unhandled(a)
  /\ UNCHANGED <<calls, invoked>>

(* executeAction throws, as the action is not pending any more: the walk *)
(* goes on.                                                              *)
WalkSkips(w, a) ==
  /\ Comes(w, a) /\ ~Executable(a)
  /\ UNCHANGED <<queue, calls, invoked>>

---------------------------------------------------------------------------
(* The routes action.execute, action.outcome and action.rollback. *)

RouteInvokes(a) ==
  /\ Invoke(a, Route)
  /\ UNCHANGED todo

RouteFindsNoHandler(a) ==
  /\ Unhandled(a)
  /\ UNCHANGED <<todo, calls, invoked>>

(* recordOutcome asks for no status. *)
RecordOutcome(a, ok) ==
  /\ a \in Queued
  /\ Settle(a, IF ok THEN "completed" ELSE "failed")
  /\ UNCHANGED <<todo, calls, invoked>>

Rollback(a) ==
  /\ a \in Queued /\ queue[a].status \in {"completed", "failed"}
  /\ Settle(a, "rolled_back")
  /\ UNCHANGED <<todo, calls, invoked>>

(* The process ends; a row that says "executing" says so for ever. *)
BridgeCrash ==
  /\ calls' = {}
  /\ todo' = [w \in Walks |-> {}]
  /\ UNCHANGED <<queue, invoked>>

---------------------------------------------------------------------------
BridgeInit ==
  /\ queue = <<>>
  /\ todo = [w \in Walks |-> {}]
  /\ calls = {}
  /\ invoked = [a \in Ids |-> 0]

BridgeNext ==
  \/ \E kind \in Kinds : Propose(kind)
  \/ \E c \in calls, ok \in BOOLEAN : HandlerSettles(c, ok)
  \/ \E w \in Walks : \/ StartWalk(w)
                      \/ \E a \in Ids : \/ WalkInvokes(w, a)
                                        \/ WalkFindsNoHandler(w, a)
                                        \/ WalkSkips(w, a)
  \/ \E a \in Ids : \/ RouteInvokes(a) \/ RouteFindsNoHandler(a)
                    \/ \E ok \in BOOLEAN : RecordOutcome(a, ok)
                    \/ Rollback(a)
  \/ BridgeCrash

BridgeSpec == BridgeInit /\ [][BridgeNext]_bridge

---------------------------------------------------------------------------
(* Properties *)

(* The state is well typed. *)
BridgeTypeOK ==
  /\ queue \in Seq([type: Types, sure: BOOLEAN,
                    status: {"pending", "executing", "completed", "failed",
                             "rolled_back"}])
  /\ Len(queue) <= MaxActions
  /\ todo \in [Walks -> SUBSET Queued]
  /\ calls \subseteq [action: Queued, by: Callers]
  /\ invoked \in [Ids -> Nat]

(* No action's handler is called twice, whatever walks and operators race  *)
(* for it, whatever outcome is recorded meanwhile, and across a crash: an  *)
(* action may have been carried out when its process dies (what is lost is *)
(* its outcome).                                                           *)
AtMostOnce == \A a \in Ids : invoked[a] <= 1
===========================================================================
