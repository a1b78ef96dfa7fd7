------------------------------- MODULE WorkerPool -------------------------------
(***************************************************************************)
(* The threads that the paying handlers of OutboundPayments share with     *)
(* each other and with the event pump: main runs the service on a runtime  *)
(* with a fixed number of worker threads (#[tokio::main], src/src/main.rs),*)
(* service::run spawns the pump on it (src/src/service.rs), and            *)
(* wait_for_outbound_payment sleeps on the worker that runs its handler    *)
(* (src/src/lightning/ldk_service.rs).                                     *)
(*                                                                         *)
(* A task that awaits gives its worker back; a wait does not.  Requests    *)
(* and events keep coming.  What an event holds is left to EventPump; that *)
(* every request is a task of its own is assumed of nostr-ln (external).   *)
(***************************************************************************)
EXTENDS OutboundPayments, FiniteSets

CONSTANTS
  Workers,   \* worker threads of the runtime
  MaxEvents  \* bound: events in one behaviour

ASSUME PoolAssumption ==
  /\ IsFiniteSet(Calls)
  /\ Workers \in Nat \ {0}
  /\ MaxEvents \in Nat

VARIABLES
  queued,   \* the requests whose task is ready to start
  emitted,  \* how many events ldk-node has queued
  handled,  \* how many of them the pump has marked handled
  pump      \* "waiting" for an event, or "announcing" one

tasks == <<queued, emitted, handled, pump>>
poolVars == <<vars, tasks>>

(* Waits hold a worker each; every other task gives its worker back at     *)
(* once, or at its next await.                                             *)
FreeWorker == Cardinality({ c \in Calls : Waiting(c) }) < Workers

-------------------------------------------------------------------------------
(* Requests.                                                               *)
Arrive(c) ==
  /\ pc[c] = "idle" /\ c \notin queued
  /\ queued' = queued \cup {c}
  /\ UNCHANGED <<vars, emitted, handled, pump>>

(* A worker takes up the request, and keeps it if it has to wait.          *)
Serve(c) ==
  /\ c \in queued
  /\ FreeWorker
  /\ Start(c)
  /\ queued' = queued \ {c}
  /\ UNCHANGED <<emitted, handled, pump>>

(* The wait goes on, on its worker.                                        *)
Occupy(c) == Wait(c) /\ UNCHANGED tasks

(* Another request takes the place of one that has been answered.          *)
Renew(c) ==
  /\ pc[c] = "done"
  /\ pc' = [pc EXCEPT ![c] = "idle"]
  /\ pid' = [pid EXCEPT ![c] = None]
  /\ req' = [req EXCEPT ![c] = None]
  /\ polls' = [polls EXCEPT ![c] = 0]
  /\ answer' = [answer EXCEPT ![c] = NoAnswer]
  /\ begun' = [begun EXCEPT ![c] = {}]
  /\ UNCHANGED <<store, tasks>>

-------------------------------------------------------------------------------
(* Events.                                                                 *)
Emit ==
  /\ emitted < MaxEvents
  /\ emitted' = emitted + 1
  /\ UNCHANGED <<vars, queued, handled, pump>>

(* The pump goes from one await to the next: from next_event_async to the  *)
(* announcement, which only some events have, and from there around the    *)
(* loop.                                                                   *)
Announce ==
  /\ pump = "waiting" /\ handled < emitted
  /\ pump' = "announcing"
  /\ UNCHANGED handled

MarkHandled ==
  /\ handled < emitted
  /\ pump' = "waiting"
  /\ handled' = handled + 1

PumpRuns ==
  /\ FreeWorker
  /\ Announce \/ MarkHandled
  /\ UNCHANGED <<vars, queued, emitted>>

-------------------------------------------------------------------------------
PoolInit ==
  /\ Init
  /\ queued = {}
  /\ emitted = 0 /\ handled = 0
  /\ pump = "waiting"

PoolNext ==
  \/ \E c \in Calls : Arrive(c) \/ Serve(c) \/ Occupy(c) \/ Renew(c)
  \/ \E p \in Payments : Resolve(p) /\ UNCHANGED tasks
  \/ Emit \/ PumpRuns

(* A thread that waits runs on.  A task that is ready again and again when *)
(* a worker is free gets it in the end: the runtime starves no task.       *)
(* Nothing makes a payment resolve: whether ldk-node runs on workers of    *)
(* its own or on these ones is not known.                                  *)
Fairness ==
  /\ \A c \in Calls : WF_poolVars(Occupy(c)) /\ SF_poolVars(Serve(c))
  /\ SF_poolVars(PumpRuns)

PoolSpec == PoolInit /\ [][PoolNext]_poolVars /\ Fairness

-------------------------------------------------------------------------------
(* Every variable keeps its type; no more calls wait than there are        *)
(* workers, and a call whose task is yet to start has done nothing.        *)
PoolTypeOK ==
  /\ TypeOK
  /\ queued \subseteq { c \in Calls : pc[c] = "idle" }
  /\ emitted \in 0 .. MaxEvents
  /\ handled \in 0 .. emitted
  /\ pump \in {"waiting", "announcing"}
  /\ pump = "announcing" => handled < emitted
  /\ Cardinality({ c \in Calls : Waiting(c) }) <= Workers

(* However many payments hold a worker, and although requests keep coming  *)
(* and no payment need ever resolve, every request gets its answer: the    *)
(* timeout of each wait frees a worker in the end.                         *)
RequestsAnswered ==
  \A c \in Calls : (c \in queued \/ Waiting(c)) ~> pc[c] = "done"

(* Nor do waits keep the event pump from its events for good.              *)
EventsHandled ==
  \A n \in 1 .. MaxEvents : emitted >= n ~> handled >= n

===============================================================================
