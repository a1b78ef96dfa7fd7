---------------------------- MODULE WorkerPool_proofs ----------------------------
(* Theorems about WorkerPool, for any number of workers, calls and events: *)
(* the payments keep what OutboundPayments_proofs shows of them when they  *)
(* are served by the pool, its renewed calls included.                     *)
EXTENDS WorkerPool, OutboundPayments_proofs, FiniteSetTheorems

WaitingCalls == { c \in Calls : Waiting(c) }

TasksOK ==
  /\ queued \subseteq { c \in Calls : pc[c] = "idle" }
  /\ emitted \in 0 .. MaxEvents
  /\ handled \in 0 .. emitted
  /\ pump \in {"waiting", "announcing"}
  /\ pump = "announcing" => handled < emitted

PoolInv ==
  /\ IInv
  /\ TasksOK
  /\ Cardinality(WaitingCalls) <= Workers

LEMMA WaitingIsFinite ==
  /\ IsFiniteSet(WaitingCalls)
  /\ Cardinality(WaitingCalls) \in Nat
<1>1. WaitingCalls \subseteq Calls
  BY DEF WaitingCalls
<1> QED
  BY <1>1, PoolAssumption, FS_Subset, FS_CardinalityType

LEMMA InitPoolInv == PoolInit => PoolInv
<1> SUFFICES ASSUME PoolInit PROVE PoolInv
  OBVIOUS
<1>1. IInv
  BY InitIInv DEF PoolInit
<1>2. TasksOK
  BY PoolAssumption DEF PoolInit, TasksOK
<1>3. WaitingCalls = {}
  BY DEF PoolInit, Init, WaitingCalls, Waiting
<1>4. Cardinality(WaitingCalls) <= Workers
  BY <1>3, FS_EmptySet, PoolAssumption
<1> QED
  BY <1>1, <1>2, <1>4 DEF PoolInv

(* Only a request that is taken up may come to hold a worker.              *)
LEMMA FewerWait ==
  ASSUME PoolInv, WaitingCalls' \subseteq WaitingCalls
  PROVE  Cardinality(WaitingCalls)' <= Workers
<1>1. IsFiniteSet(WaitingCalls) /\ Cardinality(WaitingCalls) \in Nat
  BY WaitingIsFinite
<1>2. Cardinality(WaitingCalls') <= Cardinality(WaitingCalls)
      /\ Cardinality(WaitingCalls') \in Nat
  BY <1>1, FS_Subset, FS_CardinalityType
<1> QED
  BY <1>1, <1>2, PoolAssumption DEF PoolInv

LEMMA ServePoolInv ==
  ASSUME PoolInv, NEW c \in Calls, Serve(c)
  PROVE  PoolInv'
<1>1. IInv'
  BY StepIInv DEF Serve, Next, PoolInv
<1>2. \A d \in Calls \ {c} : pc'[d] = pc[d]
  BY DEF Serve, Start, Refuse, FailParse, FailSend, PayOnchain, Send, Answer,
         PoolInv, IInv, TypesOK
<1>3. TasksOK'
  BY <1>2 DEF Serve, PoolInv, TasksOK
<1>4. WaitingCalls' \subseteq WaitingCalls \cup {c}
  BY <1>2 DEF WaitingCalls, Waiting
<1>5. Cardinality(WaitingCalls) < Workers
  BY DEF Serve, FreeWorker, WaitingCalls
<1>6. /\ IsFiniteSet(WaitingCalls \cup {c})
      /\ Cardinality(WaitingCalls \cup {c}) <= Cardinality(WaitingCalls) + 1
      /\ Cardinality(WaitingCalls \cup {c}) \in Nat
  <2>1. /\ IsFiniteSet(WaitingCalls \cup {c})
        /\ Cardinality(WaitingCalls \cup {c}) =
             IF c \in WaitingCalls THEN Cardinality(WaitingCalls)
             ELSE Cardinality(WaitingCalls) + 1
    BY WaitingIsFinite, FS_AddElement
  <2> QED
    BY <2>1, WaitingIsFinite
<1>7. Cardinality(WaitingCalls') <= Cardinality(WaitingCalls \cup {c})
      /\ Cardinality(WaitingCalls') \in Nat
  BY <1>4, <1>6, FS_Subset, FS_CardinalityType
<1>8. Cardinality(WaitingCalls)' <= Workers
  BY <1>5, <1>6, <1>7, WaitingIsFinite, PoolAssumption
<1> QED
  BY <1>1, <1>3, <1>8 DEF PoolInv

LEMMA OccupyPoolInv ==
  ASSUME PoolInv, NEW c \in Calls, Occupy(c)
  PROVE  PoolInv'
<1>1. IInv'
  BY StepIInv DEF Occupy, Next, PoolInv
<1>2. /\ Waiting(c) /\ pc[c] # "idle"
      /\ \A d \in Calls \ {c} : pc'[d] = pc[d]
  BY DEF Occupy, Wait, Poll, TimeOut, Sleep, Wake, Answer, Waiting,
         PoolInv, IInv, TypesOK
<1>3. TasksOK'
  BY <1>2 DEF Occupy, tasks, PoolInv, TasksOK
<1>4. WaitingCalls' \subseteq WaitingCalls
  BY <1>2 DEF WaitingCalls, Waiting
<1> QED
  BY <1>1, <1>3, <1>4, FewerWait DEF PoolInv

LEMMA RenewPoolInv ==
  ASSUME PoolInv, NEW c \in Calls, Renew(c)
  PROVE  PoolInv'
<1>1. /\ pc[c] = "done" /\ pc'[c] = "idle" /\ pid'[c] = None /\ req'[c] = None
      /\ answer'[c] = NoAnswer /\ begun'[c] = {} /\ store' = store
      /\ \A d \in Calls \ {c} :
           /\ pc'[d] = pc[d] /\ pid'[d] = pid[d] /\ req'[d] = req[d]
           /\ polls'[d] = polls[d] /\ answer'[d] = answer[d] /\ begun'[d] = begun[d]
  BY DEF Renew, PoolInv, IInv, TypesOK
<1>2. TypesOK'
  <2>1. NoAnswer \in Answers
    BY DEF NoAnswer, Answers, Codes, Reasons
  <2>2. 0 \in 0 .. MaxPolls
    BY PaymentsAssumption
  <2> QED
    BY <2>1, <2>2 DEF Renew, PoolInv, IInv, TypesOK
<1>3. IdleHoldsNothing' /\ WaitHoldsItsPayment' /\ DoneIsAnswered'
  BY <1>1 DEF PoolInv, IInv, IdleHoldsNothing, WaitHoldsItsPayment, DoneIsAnswered,
              TurnedDown, Waiting, NoAnswer
<1>4. SuccessAnswerSound' /\ OnePaymentPerCall'
  BY <1>1 DEF PoolInv, IInv, SuccessAnswerSound, OnePaymentPerCall, NoAnswer
<1>5. TasksOK'
  BY <1>1 DEF Renew, tasks, PoolInv, TasksOK
<1>6. WaitingCalls' \subseteq WaitingCalls
  BY <1>1 DEF WaitingCalls, Waiting
<1> QED
  BY <1>2, <1>3, <1>4, <1>5, <1>6, FewerWait DEF PoolInv, IInv

(* The steps that no call takes.                                           *)
LEMMA OthersPoolInv ==
  ASSUME PoolInv,
         \/ \E c \in Calls : Arrive(c)
         \/ \E p \in Payments : Resolve(p) /\ UNCHANGED tasks
         \/ Emit \/ PumpRuns \/ UNCHANGED poolVars
  PROVE  PoolInv'
<1>1. IInv' /\ pc' = pc
  <2>1. CASE \E p \in Payments : Resolve(p) /\ UNCHANGED tasks
    BY <2>1, StepIInv DEF Next, PoolInv, Resolve
  <2>2. CASE ~\E p \in Payments : Resolve(p) /\ UNCHANGED tasks
    <3>1. UNCHANGED vars
      BY <2>2 DEF Arrive, Emit, PumpRuns, poolVars
    <3> QED
      BY <3>1, StepIInv DEF PoolInv, vars
  <2> QED
    BY <2>1, <2>2
<1>2. TasksOK'
  <2>1. CASE (\E p \in Payments : Resolve(p) /\ UNCHANGED tasks) \/ UNCHANGED poolVars
    BY <1>1, <2>1 DEF tasks, poolVars, PoolInv, TasksOK
  <2>2. CASE \E c \in Calls : Arrive(c)
    BY <1>1, <2>2 DEF Arrive, PoolInv, TasksOK
  <2>3. CASE Emit
    BY <1>1, <2>3, PoolAssumption DEF Emit, PoolInv, TasksOK
  <2>4. CASE PumpRuns
    BY <1>1, <2>4, PoolAssumption
       DEF PumpRuns, Announce, MarkHandled, PoolInv, TasksOK
  <2> QED
    BY <2>1, <2>2, <2>3, <2>4
<1>3. WaitingCalls' = WaitingCalls
  BY <1>1 DEF WaitingCalls, Waiting
<1> QED
  BY <1>1, <1>2, <1>3, FewerWait DEF PoolInv

(* No step on the pool breaks its invariant.                               *)
THEOREM StepPoolInv == PoolInv /\ [PoolNext]_poolVars => PoolInv'
BY ServePoolInv, OccupyPoolInv, RenewPoolInv, OthersPoolInv DEF PoolNext

(* What the handlers keep true they keep on the pool, and no more calls    *)
(* wait than there are workers, for a pool of any size.                    *)
THEOREM PoolInvariance == PoolSpec => []PoolInv
BY InitPoolInv, StepPoolInv, PTL DEF PoolSpec

(* No more calls wait than there are workers to wait on, and a request     *)
(* that waits for a worker has done nothing yet.                           *)
THEOREM PoolTypeCorrect == PoolSpec => []PoolTypeOK
<1>1. PoolInv => PoolTypeOK
  BY PidFits DEF PoolInv, TasksOK, WaitingCalls, PoolTypeOK
<1> QED
  BY <1>1, PoolInvariance, PTL

(* What a success answer says, and that a request pays once at most, does  *)
(* not depend on how many workers there are to serve the requests.         *)
THEOREM PaymentsStaySound == PoolSpec => [](SuccessAnswerSound /\ OnePaymentPerCall)
<1>1. PoolInv => SuccessAnswerSound /\ OnePaymentPerCall
  BY DEF PoolInv, IInv
<1> QED
  BY <1>1, PoolInvariance, PTL

-------------------------------------------------------------------------------
(* The steps of the pool, seen by OutboundPayments.                        *)
LEMMA PoolStepOfPayments ==
  PoolInv /\ [PoolNext]_poolVars => [Next]_vars \/ \E c \in Calls : Renew(c)
<1> SUFFICES ASSUME PoolInv, [PoolNext]_poolVars, ~\E c \in Calls : Renew(c)
             PROVE  [Next]_vars
  OBVIOUS
<1>1. CASE \E c \in Calls : Arrive(c) \/ Serve(c) \/ Occupy(c)
  BY <1>1 DEF Arrive, Serve, Occupy, Next
<1>2. CASE \E p \in Payments : Resolve(p)
  BY <1>2 DEF Next
<1>3. CASE Emit \/ PumpRuns \/ UNCHANGED poolVars
  BY <1>3 DEF Emit, PumpRuns, poolVars
<1> QED
  BY <1>1, <1>2, <1>3 DEF PoolNext

(* An answered request makes room for a new one, and takes nothing back:   *)
(* what has settled stays settled.                                         *)
Renewed(c) ==
  /\ Reply(c) \in {"paid", "error"}
  /\ Replies' = [Replies EXCEPT ![c] = "unsent"]
  /\ pid' = [pid EXCEPT ![c] = None]
  /\ SettledPayments' = SettledPayments

LEMMA RenewRenews ==
  ASSUME PoolInv, NEW c \in Calls, Renew(c)
  PROVE  Renewed(c)
<1>1. /\ pc[c] = "done" /\ pc'[c] = "idle" /\ store' = store
      /\ pid' = [pid EXCEPT ![c] = None]
      /\ \A d \in Calls \ {c} : pc'[d] = pc[d] /\ answer'[d] = answer[d]
  BY DEF Renew, PoolInv, IInv, TypesOK
<1>2. Reply(c) \in {"paid", "error"} /\ Reply(c)' = "unsent"
  BY <1>1 DEF Reply
<1>3. Replies' = [Replies EXCEPT ![c] = "unsent"]
  BY <1>1, <1>2, OneCallMoves DEF PoolInv
<1>4. SettledPayments' = SettledPayments
  BY <1>1 DEF SettledPayments, Settled
<1> QED
  BY <1>1, <1>2, <1>3, <1>4 DEF Renewed

(* A pool of any size gives every request what PaymentPromise says: the    *)
(* steps of the handlers on it are steps of the promise, one request after *)
(* another.                                                                *)
THEOREM PoolImplementsPromise ==
  PoolSpec =>
    /\ Promise!Init
    /\ [][Promise!Next \/ \E c \in Calls : Renewed(c)]_(Promise!vars)
<1>1. PoolInit => Promise!Init
  BY InitPromise DEF PoolInit
<1>2. PoolInv /\ [PoolNext]_poolVars
        => [Promise!Next \/ \E c \in Calls : Renewed(c)]_(Promise!vars)
  BY PoolStepOfPayments, RenewRenews, StepPromise DEF PoolInv
<1> QED
  BY <1>1, <1>2, PoolInvariance, PTL DEF PoolSpec

(* Waits do not keep the workers: when none is free, some call waits on    *)
(* one; every step of a wait brings it nearer to its end, and nothing that *)
(* other tasks do takes it farther away.                                   *)
WorkersComeBack ==
  /\ FreeWorker \/ \E c \in Calls : Waiting(c)
  /\ WaitIsBounded

(* Some worker is free, or one is in a wait that ends: requests are never  *)
(* stuck behind each other.                                                *)
THEOREM FullPoolIsInWaits == PoolSpec => []WorkersComeBack
<1>1. PoolInv => WorkersComeBack
  <2> SUFFICES ASSUME PoolInv PROVE WorkersComeBack
    OBVIOUS
  <2>1. FreeWorker \/ \E c \in Calls : Waiting(c)
    <3> SUFFICES ASSUME ~\E c \in Calls : Waiting(c) PROVE FreeWorker
      OBVIOUS
    <3>1. { c \in Calls : Waiting(c) } = {}
      OBVIOUS
    <3> QED
      BY <3>1, FS_EmptySet, PoolAssumption DEF FreeWorker
  <2>2. WaitIsBounded
    BY BoundedWait DEF PoolInv
  <2> QED
    BY <2>1, <2>2 DEF WorkersComeBack
<1> QED
  BY <1>1, PoolInvariance, PTL

(* On the pool, too, every step of a wait brings it nearer to its answer.  *)
THEOREM PoolWaitsRunOut == PoolSpec => [][WaitRunsOut]_poolVars
<1>1. ASSUME PoolInv, PoolInv', NEW c \in Calls, Renew(c)
      PROVE  WaitRunsOut
  <2> SUFFICES ASSUME NEW d \in Calls, Waiting(d)
               PROVE  /\ Wait(d) => StepsLeft(d)' < StepsLeft(d)
                      /\ StepsLeft(d)' <= StepsLeft(d)
    BY DEF WaitRunsOut
  <2>1. d # c /\ TypesOK /\ TypesOK'
    BY <1>1 DEF Renew, Waiting, PoolInv, IInv
  <2>2. pc'[d] = pc[d] /\ polls'[d] = polls[d]
    BY <1>1, <2>1 DEF Renew, TypesOK
  <2>3. StepsLeft(d)' = StepsLeft(d) /\ StepsLeft(d) \in Nat
    BY <2>1, <2>2, StepsLeftLemma DEF StepsLeft, Waiting
  <2> QED
    BY <2>1, <2>3, WaitStep
<1>2. PoolInv /\ PoolInv' /\ [PoolNext]_poolVars => [WaitRunsOut]_poolVars
  BY <1>1, PoolStepOfPayments, RunsOutStep DEF PoolInv, IInv
<1> QED
  BY <1>2, PoolInvariance, PTL DEF PoolSpec

===============================================================================
