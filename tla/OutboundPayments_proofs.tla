------------------------ MODULE OutboundPayments_proofs ------------------------
(* Theorems about OutboundPayments, for every set of requests, payments    *)
(* and concurrent calls.                                                   *)
EXTENDS OutboundPayments, TLAPS

(* What a call that has not started, one that waits and one that has been  *)
(* answered each hold.  SuccessAnswerSound is not inductive alone: that a  *)
(* waiting call's payment is no on-chain one, and has been begun, comes    *)
(* from the step that started it.                                          *)
IdleHoldsNothing ==
  \A c \in Calls : pc[c] = "idle" =>
    pid[c] = None /\ begun[c] = {} /\ answer[c] = NoAnswer

WaitHoldsItsPayment ==
  \A c \in Calls : Waiting(c) =>
    /\ pid[c] \in Payments \ Txids
    /\ begun[c] = {pid[c]}
    /\ req[c] \in Requests
    /\ answer[c] = NoAnswer

DoneIsAnswered ==
  \A c \in Calls : pc[c] = "done" =>
    /\ answer[c].code # "none"
    /\ answer[c].code = "ok" => pid[c] \in Payments
    /\ pid[c] = None <=> TurnedDown(c)

IInv ==
  /\ TypesOK
  /\ IdleHoldsNothing
  /\ WaitHoldsItsPayment
  /\ DoneIsAnswered
  /\ SuccessAnswerSound
  /\ OnePaymentPerCall

-------------------------------------------------------------------------------
(* A send starts a payment that is not pending and has not succeeded, and  *)
(* only an on-chain send starts a transaction.                             *)
LEMMA StartableLemma ==
  ASSUME NEW r \in Requests, NEW l \in Chosen(r), NEW p \in Startable(l)
  PROVE  /\ p \in Payments
         /\ store[p] \in {"absent", "failed"}
         /\ l.kind # "onchain" => p \notin Txids
         /\ l.kind = "onchain" => p \in Txids
<1>1. l \in r.legs
  BY DEF Chosen, Of
<1>2. l.kind \in {"bolt11", "bolt12", "keysend", "onchain"}
  BY <1>1, PaymentsAssumption DEF RequestType, Legs
<1>3. Txids \cap (Invoices \cup Keysends \cup OfferPays) = {}
  BY PaymentsAssumption
<1> QED
  BY <1>2, <1>3 DEF Startable, Payments

LEMMA TransactionIdLemma ==
  ASSUME NEW r, NEW p \in Payments
  PROVE  /\ TransactionId(r, p) \in Identifiers \cup {None}
         /\ TransactionId(r, p) # None => TransactionId(r, p)[2] = p
  BY DEF TransactionId, Identifiers, Preimage, Hash

LEMMA OutcomeLemma ==
  ASSUME NEW c \in Calls, TypesOK, pid[c] \in Payments, Outcome(c) # NoAnswer
  PROVE  /\ Outcome(c) \in Answers
         /\ Outcome(c).code \in {"ok", "PaymentFailed"}
         /\ Outcome(c).why \in {"none", "no_preimage", "failed"}
         /\ Outcome(c).code = "ok" =>
              /\ store[pid[c]] = "succeeded"
              /\ Outcome(c).tid = TransactionId(req[c], pid[c])
         /\ store[pid[c]] = "succeeded" => Outcome(c).code = "ok"
<1>1. TransactionId(req[c], pid[c]) \in Identifiers \cup {None}
  BY TransactionIdLemma
<1> QED
  BY <1>1 DEF Outcome, Ok, Failure, NoAnswer, Answers, Codes, Reasons,
              TypesOK, Statuses

-------------------------------------------------------------------------------
(* No call has a payment yet.                                              *)
THEOREM InitIInv == Init => IInv
<1> SUFFICES ASSUME Init PROVE IInv
  OBVIOUS
<1>1. NoAnswer \in Answers
  BY DEF NoAnswer, Answers, Codes, Reasons
<1>2. 0 \in 0 .. MaxPolls
  BY PaymentsAssumption
<1>3. TypesOK
  BY <1>1, <1>2 DEF Init, TypesOK, Statuses
<1> QED
  BY <1>3 DEF Init, IInv, IdleHoldsNothing, WaitHoldsItsPayment, Waiting,
              DoneIsAnswered, TurnedDown, SuccessAnswerSound, OnePaymentPerCall, NoAnswer

(* A call answered at once, with nothing begun: Refuse, FailParse and, as  *)
(* far as the call itself goes, FailSend.                                  *)
LEMMA AnsweredAtOnce ==
  ASSUME IInv, NEW c \in Calls, NEW r \in Requests, NEW a \in Answers,
         pc[c] = "idle", Answer(c, a), a.code \notin {"none", "ok"},
         \/ a.code \in {"BadRequest", "UnsupportedPaymentInstruction"}
         \/ a.why \in {"parse", "send"},
         req' = [req EXCEPT ![c] = r],
         store' \in [Payments -> Statuses],
         \A p \in Payments : store[p] = "succeeded" => store'[p] = "succeeded",
         UNCHANGED <<pid, polls, begun>>
  PROVE  IInv'
<1>1. TypesOK'
  BY DEF IInv, TypesOK, Answer
<1>2. /\ IdleHoldsNothing'
      /\ WaitHoldsItsPayment'
      /\ DoneIsAnswered'
  BY DEF IInv, IdleHoldsNothing, WaitHoldsItsPayment, DoneIsAnswered, TurnedDown,
         Waiting, Answer, TypesOK
<1>3. SuccessAnswerSound'
  <2>1. \A d \in Calls : answer[d].code = "ok" => pid[d] \in Payments
    BY DEF IInv, DoneIsAnswered, TurnedDown, IdleHoldsNothing,
           WaitHoldsItsPayment, Waiting, NoAnswer, TypesOK
  <2> QED
    BY <2>1 DEF IInv, SuccessAnswerSound, Answer, TypesOK
<1>4. OnePaymentPerCall'
  BY DEF IInv, OnePaymentPerCall, IdleHoldsNothing, Answer, TypesOK
<1> QED
  BY <1>1, <1>2, <1>3, <1>4 DEF IInv

(* A waiting call answered with what its payment's record says, or timed   *)
(* out.                                                                    *)
LEMMA AnsweredAfterWait ==
  ASSUME IInv, NEW c \in Calls, NEW a \in Answers, Waiting(c), Answer(c, a),
         a.code \in {"ok", "PaymentFailed"},
         a.why \notin {"parse", "send"},
         a.code = "ok" => /\ store[pid[c]] = "succeeded"
                          /\ a.tid = TransactionId(req[c], pid[c]),
         UNCHANGED <<store, pid, req, polls, begun>>
  PROVE  IInv'
<1>1. TypesOK'
  BY DEF IInv, TypesOK, Answer
<1>2. /\ IdleHoldsNothing'
      /\ WaitHoldsItsPayment'
      /\ DoneIsAnswered'
  BY PaymentsAssumption
     DEF IInv, IdleHoldsNothing, WaitHoldsItsPayment, DoneIsAnswered, TurnedDown,
         Waiting, Answer, TypesOK
<1>3. SuccessAnswerSound'
  <2>1. pid[c] \in Payments /\ begun[c] = {pid[c]}
    BY DEF IInv, WaitHoldsItsPayment
  <2>2. a.code = "ok" /\ a.tid # None => a.tid[2] = pid[c]
    BY <2>1, TransactionIdLemma
  <2>3. \A d \in Calls : answer'[d] = IF d = c THEN a ELSE answer[d]
    BY DEF IInv, TypesOK, Answer
  <2> QED
    BY <2>1, <2>2, <2>3 DEF IInv, SuccessAnswerSound
<1>4. OnePaymentPerCall'
  BY DEF IInv, OnePaymentPerCall, WaitHoldsItsPayment, Answer, TypesOK
<1> QED
  BY <1>1, <1>2, <1>3, <1>4 DEF IInv

-------------------------------------------------------------------------------
(* No step forgets a success.                                              *)
LEMMA SuccessIsFinal ==
  ASSUME IInv, [Next]_vars, NEW p \in Payments, store[p] = "succeeded"
  PROVE  store'[p] = "succeeded"
<1>1. ASSUME NEW c \in Calls, NEW r \in Requests, FailSend(c, r)
      PROVE  store'[p] = "succeeded"
  BY <1>1, StartableLemma DEF FailSend, IInv, TypesOK
<1>2. ASSUME NEW c \in Calls, NEW r \in Requests, Send(c, r) \/ PayOnchain(c, r)
      PROVE  store'[p] = "succeeded"
  BY <1>2, StartableLemma DEF Send, PayOnchain, IInv, TypesOK
<1>3. ASSUME NEW q \in Payments, Resolve(q)
      PROVE  store'[p] = "succeeded"
  BY <1>3 DEF Resolve, IInv, TypesOK
<1> QED
  BY <1>1, <1>2, <1>3 DEF Next, Start, Wait, Refuse, FailParse, Poll, TimeOut,
                          Sleep, Wake, vars

(* No step of a call or of ldk-node breaks the invariant.                  *)
THEOREM StepIInv == IInv /\ [Next]_vars => IInv'
<1> SUFFICES ASSUME IInv, [Next]_vars PROVE IInv'
  OBVIOUS
<1> USE DEF Statuses
<1>1. ASSUME NEW c \in Calls, NEW r \in Requests, Refuse(c, r) PROVE IInv'
  <2>1. PICK code \in Codes : Refuses(r, code) /\ Answer(c, Refused(code))
    BY <1>1 DEF Refuse
  <2>2. code \in {"BadRequest", "UnsupportedPaymentInstruction"}
    BY <2>1 DEF Refuses
  <2>3. Refused(code) \in Answers /\ Refused(code).code = code
    BY DEF Refused, Answers, Reasons
  <2>4. store' \in [Payments -> Statuses]
    BY <1>1 DEF Refuse, IInv, TypesOK
  <2> QED
    BY <1>1, <2>1, <2>2, <2>3, <2>4, AnsweredAtOnce DEF Refuse
<1>2. ASSUME NEW c \in Calls, NEW r \in Requests, FailParse(c, r) PROVE IInv'
  <2>1. /\ Failure("parse") \in Answers
        /\ Failure("parse").code = "PaymentFailed"
        /\ Failure("parse").why = "parse"
    BY DEF Failure, Answers, Reasons, Codes
  <2>2. store' \in [Payments -> Statuses]
    BY <1>2 DEF FailParse, IInv, TypesOK
  <2> QED
    BY <1>2, <2>1, <2>2, AnsweredAtOnce DEF FailParse
<1>3. ASSUME NEW c \in Calls, NEW r \in Requests, FailSend(c, r) PROVE IInv'
  <2>1. /\ Failure("send") \in Answers
        /\ Failure("send").code = "PaymentFailed"
        /\ Failure("send").why = "send"
    BY DEF Failure, Answers, Reasons, Codes
  <2>2. store' \in [Payments -> Statuses]
    BY <1>3, StartableLemma DEF FailSend, IInv, TypesOK
  <2>3. \A p \in Payments : store[p] = "succeeded" => store'[p] = "succeeded"
    BY SuccessIsFinal
  <2> QED
    BY <1>3, <2>1, <2>2, <2>3, AnsweredAtOnce DEF FailSend
<1>4. ASSUME NEW c \in Calls, NEW r \in Requests, PayOnchain(c, r) PROVE IInv'
  <2>1. PICK l \in Chosen(r) : /\ l.kind = "onchain"
                               /\ \E p \in Startable(l) :
                                    /\ store' = [store EXCEPT ![p] = "pending"]
                                    /\ pid' = [pid EXCEPT ![c] = p]
                                    /\ begun' = [begun EXCEPT ![c] = @ \cup {p}]
                                    /\ Answer(c, Ok(TransactionId(r, p)))
    BY <1>4 DEF PayOnchain
  <2>2. PICK p \in Startable(l) :
          /\ store' = [store EXCEPT ![p] = "pending"]
          /\ pid' = [pid EXCEPT ![c] = p]
          /\ begun' = [begun EXCEPT ![c] = @ \cup {p}]
          /\ Answer(c, Ok(TransactionId(r, p)))
    BY <2>1
  <2>3. p \in Payments /\ p \in Txids
    BY <2>1, StartableLemma
  <2> DEFINE tid == TransactionId(r, p)
  <2>4. tid \in Identifiers \cup {None} /\ (tid # None => tid[2] = p)
    BY <2>3, TransactionIdLemma
  <2>5. /\ Ok(tid) \in Answers
        /\ Ok(tid).code = "ok"
        /\ Ok(tid).why = "none"
        /\ Ok(tid).tid = tid
    BY <2>4 DEF Ok, Answers, Codes, Reasons
  <2> HIDE DEF tid
  <2>6. TypesOK'
    BY <1>4, <2>2, <2>3, <2>5 DEF PayOnchain, Answer, IInv, TypesOK, tid
  <2>7. /\ pc' = [pc EXCEPT ![c] = "done"]
        /\ answer' = [answer EXCEPT ![c] = Ok(tid)]
        /\ pc[c] = "idle"
        /\ req' = [req EXCEPT ![c] = r]
    BY <1>4, <2>2 DEF PayOnchain, Answer, tid
  <2>8. /\ IdleHoldsNothing'
        /\ WaitHoldsItsPayment'
        /\ DoneIsAnswered'
    BY <2>2, <2>3, <2>5, <2>7, PaymentsAssumption
       DEF IInv, IdleHoldsNothing, WaitHoldsItsPayment, DoneIsAnswered, TurnedDown,
           Waiting, TypesOK
  <2>9. SuccessAnswerSound'
    <3>1. \A d \in Calls \ {c} : answer'[d] = answer[d] /\ pid'[d] = pid[d]
                               /\ begun'[d] = begun[d]
      BY <2>2, <2>7 DEF IInv, TypesOK
    <3>2. answer'[c] = Ok(tid) /\ pid'[c] = p /\ p \in begun'[c]
      BY <2>2, <2>7 DEF IInv, TypesOK
    <3>3. \A d \in Calls : answer[d].code = "ok" => pid[d] \in Payments
      BY DEF IInv, DoneIsAnswered, TurnedDown, IdleHoldsNothing,
             WaitHoldsItsPayment, Waiting, NoAnswer, TypesOK
    <3>4. \A q \in Payments : store[q] = "succeeded" => store'[q] = "succeeded"
      BY SuccessIsFinal
    <3> QED
      BY <2>3, <2>4, <2>5, <3>1, <3>2, <3>3, <3>4 DEF SuccessAnswerSound, IInv
  <2>10. OnePaymentPerCall'
    BY <2>2, <2>5, <2>7 DEF OnePaymentPerCall, IdleHoldsNothing, IInv, TypesOK
  <2> QED
    BY <2>6, <2>8, <2>9, <2>10 DEF IInv
<1>5. ASSUME NEW c \in Calls, NEW r \in Requests, Send(c, r) PROVE IInv'
  <2>1. PICK l \in Chosen(r) : /\ l.kind # "onchain"
                               /\ \E p \in Startable(l) :
                                    /\ store' = [store EXCEPT ![p] = "pending"]
                                    /\ pid' = [pid EXCEPT ![c] = p]
                                    /\ begun' = [begun EXCEPT ![c] = @ \cup {p}]
    BY <1>5 DEF Send
  <2>2. PICK p \in Startable(l) :
          /\ store' = [store EXCEPT ![p] = "pending"]
          /\ pid' = [pid EXCEPT ![c] = p]
          /\ begun' = [begun EXCEPT ![c] = @ \cup {p}]
    BY <2>1
  <2>3. p \in Payments /\ p \notin Txids
    BY <2>1, StartableLemma
  <2>4. TypesOK'
    BY <1>5, <2>2, <2>3 DEF Send, IInv, TypesOK
  <2>5. answer[c] = NoAnswer /\ begun[c] = {}
    BY <1>5 DEF Send, IInv, IdleHoldsNothing
  <2>6. /\ IdleHoldsNothing'
        /\ WaitHoldsItsPayment'
        /\ DoneIsAnswered'
    BY <1>5, <2>2, <2>3, <2>5
       DEF Send, IInv, IdleHoldsNothing, WaitHoldsItsPayment, DoneIsAnswered, TurnedDown,
           Waiting, TypesOK
  <2>7. SuccessAnswerSound'
    <3>1. \A d \in Calls : answer[d].code = "ok" => d # c /\ pid[d] \in Payments
      BY <2>5 DEF IInv, DoneIsAnswered, TurnedDown, IdleHoldsNothing, WaitHoldsItsPayment,
                  Waiting, NoAnswer, TypesOK
    <3>2. \A q \in Payments : store[q] = "succeeded" => store'[q] = "succeeded"
      BY SuccessIsFinal
    <3> QED
      BY <1>5, <2>2, <3>1, <3>2 DEF Send, SuccessAnswerSound, IInv, TypesOK
  <2>8. OnePaymentPerCall'
    BY <1>5, <2>2, <2>5
       DEF Send, OnePaymentPerCall, IInv, TypesOK, NoAnswer
  <2> QED
    BY <2>4, <2>6, <2>7, <2>8 DEF IInv
<1>6. ASSUME NEW c \in Calls, Poll(c) PROVE IInv'
  <2>1. CASE Outcome(c) # NoAnswer /\ Answer(c, Outcome(c))
    <3>1. pid[c] \in Payments /\ Waiting(c)
      BY <1>6 DEF Poll, IInv, WaitHoldsItsPayment, Waiting
    <3> QED
      BY <1>6, <2>1, <3>1, OutcomeLemma, AnsweredAfterWait DEF Poll, IInv
  <2>2. CASE pc' = [pc EXCEPT ![c] = "checking"] /\ UNCHANGED answer
    BY <1>6, <2>2
       DEF Poll, IInv, TypesOK, IdleHoldsNothing, WaitHoldsItsPayment, Waiting,
           DoneIsAnswered, TurnedDown, SuccessAnswerSound, OnePaymentPerCall
  <2> QED
    BY <1>6, <2>1, <2>2 DEF Poll
<1>7. ASSUME NEW c \in Calls, TimeOut(c) PROVE IInv'
  <2>1. /\ Failure("timeout") \in Answers
        /\ Failure("timeout").code = "PaymentFailed"
        /\ Failure("timeout").why = "timeout"
    BY DEF Failure, Answers, Codes, Reasons
  <2> QED
    BY <1>7, <2>1, AnsweredAfterWait DEF TimeOut, Waiting
<1>8. ASSUME NEW c \in Calls, Sleep(c) PROVE IInv'
  <2>1. polls[c] + 1 \in 0 .. MaxPolls
    BY <1>8, PaymentsAssumption DEF Sleep, IInv, TypesOK
  <2> QED
    BY <1>8, <2>1
       DEF Sleep, IInv, TypesOK, IdleHoldsNothing, WaitHoldsItsPayment, Waiting,
           DoneIsAnswered, TurnedDown, SuccessAnswerSound, OnePaymentPerCall
<1>9. ASSUME NEW c \in Calls, Wake(c) PROVE IInv'
  BY <1>9
     DEF Wake, IInv, TypesOK, IdleHoldsNothing, WaitHoldsItsPayment, Waiting,
         DoneIsAnswered, TurnedDown, SuccessAnswerSound, OnePaymentPerCall
<1>10. ASSUME NEW p \in Payments, Resolve(p) PROVE IInv'
  BY <1>10
     DEF Resolve, IInv, TypesOK, IdleHoldsNothing, WaitHoldsItsPayment, Waiting,
         DoneIsAnswered, TurnedDown, SuccessAnswerSound, OnePaymentPerCall
<1>11. CASE UNCHANGED vars
  BY <1>11
     DEF vars, IInv, TypesOK, IdleHoldsNothing, WaitHoldsItsPayment, Waiting,
         DoneIsAnswered, TurnedDown, SuccessAnswerSound, OnePaymentPerCall
<1> QED
  BY <1>1, <1>2, <1>3, <1>4, <1>5, <1>6, <1>7, <1>8, <1>9, <1>10, <1>11
     DEF Next, Start, Wait

(* A waiting call holds its own payment and a success was earned, for any  *)
(* number of calls and polls.                                              *)
THEOREM Invariance == Spec => []IInv
<1> QED
  BY InitIInv, StepIInv, PTL DEF Spec

(* What the three kinds of calls hold is the relation TypeOK states.       *)
LEMMA PidFits == IInv => TypeOK
<1> SUFFICES ASSUME IInv, NEW c \in Calls
             PROVE  /\ pid[c] = None <=> pc[c] = "idle" \/ TurnedDown(c)
                    /\ Waiting(c) => pid[c] \in begun[c] \ Txids
  BY DEF IInv, TypeOK
<1>1. CASE pc[c] = "idle"
  BY <1>1 DEF IInv, IdleHoldsNothing, Waiting
<1>2. CASE Waiting(c)
  <2>1. pid[c] \in Payments \ Txids /\ begun[c] = {pid[c]} /\ answer[c] = NoAnswer
    BY <1>2 DEF IInv, WaitHoldsItsPayment
  <2>2. ~TurnedDown(c) /\ pc[c] # "idle" /\ pid[c] # None
    BY <1>2, <2>1, PaymentsAssumption DEF TurnedDown, NoAnswer, Waiting
  <2> QED
    BY <2>1, <2>2
<1>3. CASE pc[c] = "done"
  BY <1>3 DEF IInv, DoneIsAnswered, TurnedDown, Waiting
<1> QED
  BY <1>1, <1>2, <1>3 DEF IInv, TypesOK, Waiting

(* The type invariant, with what a call's payment has to do with where the *)
(* call is: whatever other calls start, a wait is for a payment of its own *)
(* and a call that was turned down has none.                               *)
THEOREM TypeCorrect == Spec => []TypeOK
BY PidFits, Invariance, PTL

(* A controller told "paid" has paid, and paid what it asked for.          *)
THEOREM SuccessIsSound == Spec => []SuccessAnswerSound
<1>1. IInv => SuccessAnswerSound
  BY DEF IInv
<1> QED
  BY <1>1, Invariance, PTL

(* No handler starts a second payment for the request it serves.           *)
THEOREM AtMostOnePayment == Spec => []OnePaymentPerCall
<1>1. IInv => OnePaymentPerCall
  BY DEF IInv
<1> QED
  BY <1>1, Invariance, PTL

-------------------------------------------------------------------------------
(* Once a success has been slept through, the call reads the store before  *)
(* it can look at the clock, and is answered from what it reads.           *)
Safe(c) ==
  \/ pc[c] \in {"asleep", "polling"} /\ store[pid[c]] = "succeeded"
  \/ pc[c] = "done" /\ answer[c].why # "timeout"

LEMMA SafeStep ==
  ASSUME NEW c \in Calls, IInv, [Next]_vars, Safe(c)
  PROVE  Safe(c)'
<1>1. CASE pc[c] = "done" /\ answer[c].why # "timeout"
  <2>1. \A d \in Calls \ {c} : \A a : Answer(d, a) => pc'[c] = "done" /\ answer'[c] = answer[c]
    BY <1>1 DEF Answer, IInv, TypesOK
  <2>2. pc'[c] = "done" /\ answer'[c] = answer[c]
    BY <1>1, <2>1
       DEF Next, Start, Wait, Refuse, FailParse, FailSend, PayOnchain, Send, Poll,
           TimeOut, Sleep, Wake, Resolve, vars, IInv, TypesOK
  <2> QED
    BY <1>1, <2>2 DEF Safe
<1>2. CASE pc[c] \in {"asleep", "polling"} /\ store[pid[c]] = "succeeded"
  <2>1. pid[c] \in Payments /\ Waiting(c)
    BY <1>2 DEF IInv, WaitHoldsItsPayment, Waiting
  <2>2. store'[pid[c]] = "succeeded"
    BY <1>2, <2>1, SuccessIsFinal
  <2>3. CASE Poll(c)
    <3>1. Outcome(c) = Ok(TransactionId(req[c], pid[c]))
      BY <1>2 DEF Outcome
    <3>2. Outcome(c) # NoAnswer /\ Outcome(c).why = "none"
      BY <3>1 DEF Ok, NoAnswer
    <3> QED
      BY <2>3, <3>2 DEF Poll, Answer, Safe, IInv, TypesOK
  <2>4. CASE Wake(c)
    BY <2>2, <2>4 DEF Wake, Safe, IInv, TypesOK
  <2>5. CASE ~Poll(c) /\ ~Wake(c)
    <3>1. pc'[c] = pc[c] /\ pid'[c] = pid[c]
      BY <1>2, <2>5
         DEF Next, Start, Wait, Refuse, FailParse, FailSend, PayOnchain, Send, Poll,
             TimeOut, Sleep, Wake, Resolve, vars, Answer, IInv, TypesOK
    <3> QED
      BY <1>2, <2>2, <3>1 DEF Safe
  <2> QED
    BY <2>3, <2>4, <2>5
<1> QED
  BY <1>1, <1>2 DEF Safe

(* A payment that succeeded while its waiter slept is never answered with  *)
(* "timeout waiting for payment outcome".                                  *)
THEOREM NoTimeoutOverASuccess == Spec => NoTimeoutOverSuccess
<1>1. ASSUME NEW c \in Calls
      PROVE  Spec => [](SleptThrough(c) => [](answer[c].why # "timeout"))
  <2>1. IInv /\ [Next]_vars /\ Safe(c) => Safe(c)'
    BY SafeStep
  <2>2. SleptThrough(c) => Safe(c)
    BY DEF SleptThrough, Safe
  <2>3. IInv /\ Safe(c) => answer[c].why # "timeout"
    BY DEF Safe, IInv, WaitHoldsItsPayment, Waiting, NoAnswer
  <2> QED
    BY <2>1, <2>2, <2>3, Invariance, PTL DEF Spec
<1> QED
  BY <1>1 DEF NoTimeoutOverSuccess

-------------------------------------------------------------------------------
(* FailureIsFinal, with what it needs: a call answered "failed" has a      *)
(* payment.                                                                *)
FailedInv ==
  /\ FailureIsFinal
  /\ \A c \in Calls : answer[c].why = "failed" =>
       pc[c] = "done" /\ pid[c] \in Payments

LEMMA FailedStep == IInv /\ FailedInv /\ [Next]_vars => FailedInv'
<1> SUFFICES ASSUME IInv, FailedInv, [Next]_vars PROVE FailedInv'
  OBVIOUS
<1> USE DEF FailedInv, FailureIsFinal, IInv, TypesOK
<1>1. ASSUME NEW c \in Calls, NEW r \in Requests,
             Refuse(c, r) \/ FailParse(c, r) \/ FailSend(c, r)
      PROVE  FailedInv'
  <2>1. PICK a : /\ Answer(c, a) /\ a.why # "failed" /\ UNCHANGED pid
    BY <1>1 DEF Refuse, FailParse, FailSend, Refused, Failure
  <2>2. \A p \in Payments : store[p] = "failed" => store'[p] = "failed"
    BY <1>1, StartableLemma DEF Refuse, FailParse, FailSend
  <2> QED
    BY <2>1, <2>2 DEF Answer
<1>2. ASSUME NEW c \in Calls, NEW r \in Requests, NEW l \in Chosen(r),
             NEW p \in Startable(l), pc[c] = "idle",
             store' = [store EXCEPT ![p] = "pending"],
             pid' = [pid EXCEPT ![c] = p],
             \A d \in Calls \ {c} : pc'[d] = pc[d] /\ answer'[d] = answer[d],
             answer'[c].why # "failed"
      PROVE  FailedInv'
  <2>1. pid[c] = None /\ p \in Payments
    BY <1>2, StartableLemma DEF IdleHoldsNothing
  <2>2. \A d \in Calls : answer'[d].why = "failed" =>
          d # c /\ answer[d].why = "failed" /\ pid[d] # pid[c]
    BY <1>2, <2>1, PaymentsAssumption
  <2>3. \A d \in Calls \ {c} : pid'[d] = pid[d]
    BY <1>2
  <2>4. pid'[c] = p
    BY <1>2
  <2>5. ASSUME NEW d \in Calls, answer'[d].why = "failed"
        PROVE  \/ store'[pid'[d]] = "failed"
               \/ \E e \in Calls \ {d} : pid'[e] = pid'[d]
    <3>1. d # c /\ answer[d].why = "failed" /\ pid'[d] = pid[d] /\ pid[d] # pid[c]
      BY <2>2, <2>3, <2>5
    <3>2. CASE pid[d] = p
      BY <2>4, <3>1, <3>2
    <3>3. CASE pid[d] # p /\ store[pid[d]] = "failed"
      BY <1>2, <3>1, <3>3
    <3>4. CASE \E e \in Calls \ {d} : pid[e] = pid[d]
      BY <2>3, <3>1, <3>4
    <3> QED
      BY <3>1, <3>2, <3>3, <3>4
  <2>6. \A d \in Calls : answer'[d].why = "failed" =>
          pc'[d] = "done" /\ pid'[d] \in Payments
    BY <1>2, <2>2, <2>3
  <2> QED
    BY <2>5, <2>6
<1>3. ASSUME NEW c \in Calls, NEW r \in Requests, PayOnchain(c, r) \/ Send(c, r)
      PROVE  FailedInv'
  <2>1. CASE PayOnchain(c, r)
    <3>1. PICK l \in Chosen(r) : \E p \in Startable(l) :
           /\ store' = [store EXCEPT ![p] = "pending"]
           /\ pid' = [pid EXCEPT ![c] = p]
           /\ Answer(c, Ok(TransactionId(r, p)))
      BY <2>1 DEF PayOnchain
    <3>2. pc[c] = "idle"
      BY <2>1 DEF PayOnchain
    <3>3. /\ \A d \in Calls \ {c} : pc'[d] = pc[d] /\ answer'[d] = answer[d]
          /\ answer'[c].why # "failed"
      BY <3>1 DEF Answer, Ok
    <3>4. PICK m \in Chosen(r), p \in Payments : p \in Startable(m)
           /\ store' = [store EXCEPT ![p] = "pending"]
           /\ pid' = [pid EXCEPT ![c] = p]
      BY <3>1, StartableLemma
    <3> QED
      BY <1>2, <3>2, <3>3, <3>4
  <2>2. CASE Send(c, r)
    BY <1>2, <2>2 DEF Send, IdleHoldsNothing, NoAnswer
  <2> QED
    BY <1>3, <2>1, <2>2
<1>4. ASSUME NEW c \in Calls, Poll(c) PROVE FailedInv'
  <2>1. Outcome(c).why = "failed" => store[pid[c]] = "failed" /\ pid[c] \in Payments
    BY <1>4 DEF Poll, Outcome, Ok, Failure, NoAnswer, WaitHoldsItsPayment, Waiting
  <2> QED
    BY <1>4, <2>1 DEF Poll, Answer
<1>5. ASSUME NEW c \in Calls, TimeOut(c) \/ Sleep(c) \/ Wake(c) PROVE FailedInv'
  BY <1>5 DEF TimeOut, Sleep, Wake, Answer, Failure
<1>6. ASSUME NEW p \in Payments, Resolve(p) PROVE FailedInv'
  BY <1>6 DEF Resolve
<1>7. CASE UNCHANGED vars
  BY <1>7 DEF vars
<1> QED
  BY <1>1, <1>3, <1>4, <1>5, <1>6, <1>7 DEF Next, Start, Wait

(* A caller told that its payment failed may retry it without paying       *)
(* twice.                                                                  *)
THEOREM FailureIsTheLastWord == Spec => []FailureIsFinal
<1>1. Init => FailedInv
  BY DEF Init, FailedInv, FailureIsFinal, NoAnswer
<1>2. FailedInv => FailureIsFinal
  BY DEF FailedInv
<1> QED
  BY <1>1, <1>2, FailedStep, Invariance, PTL DEF Spec

-------------------------------------------------------------------------------
(* The handlers implement PaymentPromise, step by step.  (That they also   *)
(* keep its fairness is left to TLC.)                                      *)
LEMMA ReplyLemma ==
  ASSUME NEW c \in Calls
  PROVE  /\ pc[c] = "idle" => Reply(c) = "unsent"
         /\ Waiting(c) => Reply(c) = "open"
         /\ pc[c] = "done" /\ answer[c].code = "ok" => Reply(c) = "paid"
         /\ pc[c] = "done" /\ answer[c].code # "ok" => Reply(c) = "error"
BY DEF Reply, Waiting

LEMMA ReplyLemmaPrime ==
  ASSUME NEW c \in Calls
  PROVE  /\ pc'[c] = "idle" => Reply(c)' = "unsent"
         /\ Waiting(c)' => Reply(c)' = "open"
         /\ pc'[c] = "done" /\ answer'[c].code = "ok" => Reply(c)' = "paid"
         /\ pc'[c] = "done" /\ answer'[c].code # "ok" => Reply(c)' = "error"
         /\ pc'[c] = pc[c] /\ answer'[c] = answer[c] => Reply(c)' = Reply(c)
BY DEF Reply, Waiting

Replies == [c \in Calls |-> Reply(c)]
SettledPayments == {p \in Payments : Settled(p)}

(* A step of one call leaves what the promise says of the others alone.    *)
LEMMA OneCallMoves ==
  ASSUME IInv, NEW c \in Calls, NEW v,
         \A d \in Calls \ {c} : pc'[d] = pc[d] /\ answer'[d] = answer[d],
         Reply(c)' = v
  PROVE  Replies' = [Replies EXCEPT ![c] = v]
<1>1. \A d \in Calls \ {c} : Reply(d)' = Reply(d)
  BY ReplyLemmaPrime
<1> QED
  BY <1>1 DEF Replies

(* The handlers start where PaymentPromise does.                           *)
THEOREM InitPromise == Init => Promise!Init
<1> SUFFICES ASSUME Init PROVE Promise!Init
  OBVIOUS
<1>1. \A c \in Calls : Reply(c) = "unsent"
  BY ReplyLemma DEF Init
<1>2. \A p \in Payments : ~Settled(p)
  BY DEF Init, Settled
<1> QED
  BY <1>1, <1>2 DEF Init, Promise!Init

(* Every step of a handler or of ldk-node is a step of PaymentPromise or   *)
(* leaves it alone.                                                        *)
THEOREM StepPromise == IInv /\ [Next]_vars => [Promise!Next]_(Promise!vars)
<1> SUFFICES ASSUME IInv, [Next]_vars PROVE [Promise!Next]_(Promise!vars)
  OBVIOUS
<1> USE DEF Replies, SettledPayments
<1>1. ASSUME NEW c \in Calls, NEW r \in Requests,
             Refuse(c, r) \/ FailParse(c, r) \/ FailSend(c, r)
      PROVE  Promise!Reject(c)
  <2>1. PICK a : /\ Answer(c, a) /\ a.code \notin {"none", "ok"}
                 /\ pc[c] = "idle" /\ UNCHANGED pid
    BY <1>1 DEF Refuse, Refuses, FailParse, FailSend, Refused, Failure
  <2>2. \A p \in Payments : Settled(p)' <=> Settled(p)
    BY <1>1, StartableLemma
       DEF Refuse, FailParse, FailSend, Settled, IInv, TypesOK
  <2>3. /\ \A d \in Calls \ {c} : pc'[d] = pc[d] /\ answer'[d] = answer[d]
        /\ pc'[c] = "done" /\ answer'[c] = a
    BY <2>1 DEF Answer, IInv, TypesOK
  <2>4. Reply(c)' = "error" /\ Reply(c) = "unsent"
    BY <2>1, <2>3, ReplyLemma, ReplyLemmaPrime
  <2>5. Replies' = [Replies EXCEPT ![c] = "error"]
    BY <2>3, <2>4, OneCallMoves
  <2>6. SettledPayments' = SettledPayments
    BY <2>2
  <2> QED
    BY <2>1, <2>4, <2>5, <2>6 DEF Promise!Reject
<1>2. ASSUME NEW c \in Calls, NEW r \in Requests, PayOnchain(c, r)
      PROVE  Promise!Broadcast(c)
  <2>1. PICK l \in Chosen(r) : \E p \in Startable(l) :
          /\ l.kind = "onchain"
          /\ store' = [store EXCEPT ![p] = "pending"]
          /\ pid' = [pid EXCEPT ![c] = p]
          /\ Answer(c, Ok(TransactionId(r, p)))
    BY <1>2 DEF PayOnchain
  <2>a. PICK p \in Startable(l) :
          /\ l.kind = "onchain"
          /\ store' = [store EXCEPT ![p] = "pending"]
          /\ pid' = [pid EXCEPT ![c] = p]
          /\ Answer(c, Ok(TransactionId(r, p)))
    BY <2>1
  <2>2. p \in Txids /\ p \in Payments /\ ~Settled(p)
    BY <2>a, StartableLemma DEF Settled
  <2>3. \A q \in Payments : Settled(q)' <=> Settled(q)
    BY <2>a, <2>2 DEF Settled, IInv, TypesOK
  <2>4. /\ \A d \in Calls \ {c} : pc'[d] = pc[d] /\ answer'[d] = answer[d]
        /\ pc[c] = "idle" /\ pc'[c] = "done" /\ answer'[c].code = "ok"
    BY <1>2, <2>1 DEF PayOnchain, Answer, Ok, IInv, TypesOK
  <2>5. Reply(c)' = "paid" /\ Reply(c) = "unsent"
    BY <2>4, ReplyLemma, ReplyLemmaPrime
  <2>6. Replies' = [Replies EXCEPT ![c] = "paid"]
    BY <2>4, <2>5, OneCallMoves
  <2>7. SettledPayments' = SettledPayments
    BY <2>3
  <2> QED
    BY <2>a, <2>2, <2>5, <2>6, <2>7 DEF Promise!Broadcast
<1>3. ASSUME NEW c \in Calls, NEW r \in Requests, Send(c, r)
      PROVE  Promise!Accept(c)
  <2>1. PICK l \in Chosen(r) : \E p \in Startable(l) :
          /\ l.kind # "onchain"
          /\ store' = [store EXCEPT ![p] = "pending"]
          /\ pid' = [pid EXCEPT ![c] = p]
    BY <1>3 DEF Send
  <2>a. PICK p \in Startable(l) :
          /\ l.kind # "onchain"
          /\ store' = [store EXCEPT ![p] = "pending"]
          /\ pid' = [pid EXCEPT ![c] = p]
    BY <2>1
  <2>2. p \notin Txids /\ p \in Payments /\ ~Settled(p)
    BY <2>a, StartableLemma DEF Settled
  <2>3. \A q \in Payments : Settled(q)' <=> Settled(q)
    BY <2>a, <2>2 DEF Settled, IInv, TypesOK
  <2>4. /\ \A d \in Calls \ {c} : pc'[d] = pc[d] /\ answer'[d] = answer[d]
        /\ pc[c] = "idle" /\ pc'[c] = "polling"
    BY <1>3 DEF Send, IInv, TypesOK
  <2>5. Reply(c)' = "open" /\ Reply(c) = "unsent"
    BY <2>4, ReplyLemma, ReplyLemmaPrime DEF Waiting
  <2>6. Replies' = [Replies EXCEPT ![c] = "open"]
    BY <2>4, <2>5, OneCallMoves
  <2>7. SettledPayments' = SettledPayments
    BY <2>3
  <2> QED
    BY <2>a, <2>2, <2>5, <2>6, <2>7 DEF Promise!Accept
<1>4. ASSUME NEW c \in Calls, NEW a, Waiting(c), Answer(c, a),
             a.code = "ok" => store[pid[c]] = "succeeded",
             UNCHANGED <<store, pid>>
      PROVE  Promise!AnswerCall(c)
  <2>1. SettledPayments' = SettledPayments /\ pid' = pid
    BY <1>4 DEF Settled
  <2>2. /\ \A d \in Calls \ {c} : pc'[d] = pc[d] /\ answer'[d] = answer[d]
        /\ pc'[c] = "done" /\ answer'[c] = a
    BY <1>4 DEF Answer, IInv, TypesOK
  <2>3. Reply(c) = "open"
    BY <1>4, ReplyLemma
  <2>4. CASE a.code = "ok"
    <3>1. Replies' = [Replies EXCEPT ![c] = "paid"]
      BY <2>2, <2>4, ReplyLemmaPrime, OneCallMoves
    <3>2. pid[c] \in SettledPayments
      BY <1>4, <2>4 DEF IInv, WaitHoldsItsPayment, Settled
    <3> QED
      BY <2>1, <2>3, <3>1, <3>2 DEF Promise!AnswerCall, Promise!AnswerPaid
  <2>5. CASE a.code # "ok"
    <3>1. Replies' = [Replies EXCEPT ![c] = "error"]
      BY <2>2, <2>5, ReplyLemmaPrime, OneCallMoves
    <3> QED
      BY <2>1, <2>3, <3>1 DEF Promise!AnswerCall, Promise!AnswerError
  <2> QED
    BY <2>4, <2>5
<1>5. ASSUME NEW c \in Calls, Waiting(c), Waiting(c)',
             \A d \in Calls \ {c} : pc'[d] = pc[d], answer' = answer,
             UNCHANGED <<store, pid>>
      PROVE  UNCHANGED Promise!vars
  <2>1. \A d \in Calls : Reply(d)' = Reply(d)
    BY <1>5, ReplyLemma, ReplyLemmaPrime
  <2> QED
    BY <1>5, <2>1 DEF Promise!vars, Settled
<1>6. ASSUME NEW c \in Calls, Wait(c)
      PROVE  Promise!AnswerCall(c) \/ UNCHANGED Promise!vars
  <2>1. CASE Poll(c)
    <3>1. Waiting(c)
      BY <2>1 DEF Poll, Waiting
    <3>2. CASE Outcome(c) # NoAnswer /\ Answer(c, Outcome(c))
      <4>1. pid[c] \in Payments
        BY <3>1 DEF IInv, WaitHoldsItsPayment
      <4>2. Outcome(c).code = "ok" => store[pid[c]] = "succeeded"
        BY <3>2, <4>1, OutcomeLemma DEF IInv
      <4> QED
        BY <1>4, <2>1, <3>1, <3>2, <4>2 DEF Poll
    <3>3. CASE pc' = [pc EXCEPT ![c] = "checking"] /\ UNCHANGED answer
      BY <1>5, <2>1, <3>1, <3>3 DEF Poll, Waiting, IInv, TypesOK
    <3> QED
      BY <2>1, <3>2, <3>3 DEF Poll
  <2>2. CASE TimeOut(c)
    BY <1>4, <2>2 DEF TimeOut, Failure, Waiting
  <2>3. CASE Sleep(c) \/ Wake(c)
    BY <1>5, <2>3 DEF Sleep, Wake, Waiting, IInv, TypesOK
  <2> QED
    BY <1>6, <2>1, <2>2, <2>3 DEF Wait
<1>7. ASSUME NEW p \in Payments, Resolve(p)
      PROVE  Promise!Settle(p) \/ UNCHANGED Promise!vars
  <2>1. \A d \in Calls : Reply(d)' = Reply(d)
    BY <1>7, ReplyLemmaPrime DEF Resolve
  <2>2. Replies' = Replies /\ pid' = pid
    BY <1>7, <2>1 DEF Resolve
  <2>3. /\ \A q \in Payments \ {p} : Settled(q)' <=> Settled(q)
        /\ ~Settled(p)
    BY <1>7 DEF Resolve, Settled, IInv, TypesOK
  <2>4. CASE Settled(p)'
    <3>1. SettledPayments' = SettledPayments \cup {p} /\ p \notin SettledPayments
      BY <2>3, <2>4
    <3> QED
      BY <2>2, <3>1 DEF Promise!Settle
  <2>5. CASE ~Settled(p)'
    <3>1. SettledPayments' = SettledPayments
      BY <2>3, <2>5
    <3> QED
      BY <2>2, <3>1 DEF Promise!vars
  <2> QED
    BY <2>4, <2>5
<1>8. CASE UNCHANGED vars
  <2>1. \A d \in Calls : Reply(d)' = Reply(d)
    BY <1>8, ReplyLemmaPrime DEF vars
  <2> QED
    BY <1>8, <2>1 DEF Promise!vars, vars, Settled
<1> QED
  BY <1>1, <1>2, <1>3, <1>6, <1>7, <1>8
     DEF Next, Start, Promise!Next

(* Every behaviour of the handlers is one the promise allows.              *)
THEOREM HandlersImplementPromise ==
  Spec => Promise!Init /\ [][Promise!Next]_(Promise!vars)
<1> QED
  BY InitPromise, StepPromise, Invariance, PTL DEF Spec

-------------------------------------------------------------------------------
(* Why every wait ends: the steps a waiting call has left.  Fairness, that *)
(* its thread runs, is all that Answered adds to these facts.              *)
StepsLeft(c) ==
  IF ~Waiting(c) THEN 0
  ELSE 3 * (MaxPolls - polls[c]) +
       CASE pc[c] = "asleep" -> 3 [] pc[c] = "polling" -> 2 [] OTHER -> 1

WaitIsBounded ==
  \A c \in Calls :
    /\ StepsLeft(c) \in 0 .. 3 * MaxPolls + 3
    /\ Waiting(c) <=> StepsLeft(c) > 0

LEMMA StepsLeftLemma ==
  ASSUME TypesOK, NEW c \in Calls
  PROVE  /\ polls[c] \in 0 .. MaxPolls /\ MaxPolls \in Nat
         /\ ~Waiting(c) => StepsLeft(c) = 0
         /\ pc[c] = "asleep" => StepsLeft(c) = 3 * (MaxPolls - polls[c]) + 3
         /\ pc[c] = "polling" => StepsLeft(c) = 3 * (MaxPolls - polls[c]) + 2
         /\ pc[c] = "checking" => StepsLeft(c) = 3 * (MaxPolls - polls[c]) + 1
BY PaymentsAssumption DEF TypesOK, StepsLeft, Waiting

LEMMA BoundedWait == IInv => WaitIsBounded
<1> SUFFICES ASSUME IInv, NEW c \in Calls
             PROVE  /\ StepsLeft(c) \in 0 .. 3 * MaxPolls + 3
                    /\ Waiting(c) <=> StepsLeft(c) > 0
  BY DEF WaitIsBounded
<1>1. TypesOK
  BY DEF IInv
<1> QED
  BY <1>1, StepsLeftLemma DEF Waiting

(* A wait takes a bounded number of steps.                                 *)
THEOREM WaitsAreBounded == Spec => []WaitIsBounded
BY BoundedWait, Invariance, PTL

(* Every step of its own brings a waiting call nearer to its answer,       *)
(* whatever payments do meanwhile, and no step of another call or of       *)
(* ldk-node takes it farther away.                                         *)
WaitRunsOut ==
  \A c \in Calls : Waiting(c) =>
    /\ Wait(c) => StepsLeft(c)' < StepsLeft(c)
    /\ StepsLeft(c)' <= StepsLeft(c)

LEMMA WaitStep ==
  ASSUME TypesOK, TypesOK', NEW c \in Calls, Wait(c)
  PROVE  StepsLeft(c)' \in Nat /\ StepsLeft(c)' < StepsLeft(c)
<1> DEFINE n == polls[c]
           m == polls'[c]
<1>1. n \in 0 .. MaxPolls /\ m \in 0 .. MaxPolls /\ MaxPolls \in Nat
  BY StepsLeftLemma DEF TypesOK
<1>2. /\ pc'[c] = "asleep" => StepsLeft(c)' = 3 * (MaxPolls - m) + 3
      /\ pc'[c] = "polling" => StepsLeft(c)' = 3 * (MaxPolls - m) + 2
      /\ pc'[c] = "checking" => StepsLeft(c)' = 3 * (MaxPolls - m) + 1
      /\ pc'[c] = "done" => StepsLeft(c)' = 0
  BY DEF StepsLeft, Waiting
<1>3. CASE Poll(c)
  <2>1. m = n /\ pc[c] = "polling" /\ pc'[c] \in {"done", "checking"}
    BY <1>3 DEF Poll, Answer, TypesOK
  <2> QED
    BY <1>1, <1>2, <2>1, StepsLeftLemma
<1>4. CASE TimeOut(c)
  <2>1. m = n /\ pc[c] = "checking" /\ pc'[c] = "done"
    BY <1>4 DEF TimeOut, Answer, TypesOK
  <2> QED
    BY <1>1, <1>2, <2>1, StepsLeftLemma
<1>5. CASE Sleep(c)
  <2>1. m = n + 1 /\ pc[c] = "checking" /\ pc'[c] = "asleep"
    BY <1>5 DEF Sleep, TypesOK
  <2> QED
    BY <1>1, <1>2, <2>1, StepsLeftLemma
<1>6. CASE Wake(c)
  <2>1. m = n /\ pc[c] = "asleep" /\ pc'[c] = "polling"
    BY <1>6 DEF Wake, TypesOK
  <2> QED
    BY <1>1, <1>2, <2>1, StepsLeftLemma
<1> QED
  BY <1>3, <1>4, <1>5, <1>6 DEF Wait

LEMMA RunsOutStep ==
  ASSUME TypesOK, TypesOK', [Next]_vars
  PROVE  WaitRunsOut
<1> SUFFICES ASSUME NEW c \in Calls, Waiting(c)
             PROVE  /\ Wait(c) => StepsLeft(c)' < StepsLeft(c)
                    /\ StepsLeft(c)' <= StepsLeft(c)
  BY DEF WaitRunsOut
<1>1. StepsLeft(c) \in Nat
  BY StepsLeftLemma DEF Waiting
<1>2. CASE Wait(c)
  <2>1. StepsLeft(c)' \in Nat /\ StepsLeft(c)' < StepsLeft(c)
    BY <1>2, WaitStep
  <2> QED
    BY <1>1, <2>1
<1>3. CASE ~Wait(c)
  <2>1. pc'[c] = pc[c] /\ polls'[c] = polls[c]
    <3>1. CASE (\E p \in Payments : Resolve(p)) \/ UNCHANGED vars
      BY <3>1 DEF Resolve, vars
    <3>2. ASSUME NEW d \in Calls, Start(d) PROVE pc'[c] = pc[c] /\ polls'[c] = polls[c]
      BY <3>2 DEF Start, Refuse, FailParse, FailSend, PayOnchain, Send, Answer,
                  Waiting, TypesOK
    <3>3. ASSUME NEW d \in Calls, Wait(d) PROVE pc'[c] = pc[c] /\ polls'[c] = polls[c]
      BY <1>3, <3>3 DEF Wait, Poll, TimeOut, Sleep, Wake, Answer, TypesOK
    <3> QED
      BY <3>1, <3>2, <3>3 DEF Next
  <2>2. StepsLeft(c)' = StepsLeft(c)
    BY <2>1 DEF StepsLeft, Waiting
  <2> QED
    BY <1>1, <1>3, <2>2
<1> QED
  BY <1>2, <1>3

(* No wait goes on for ever while its thread runs.                         *)
THEOREM WaitsRunOut == Spec => [][WaitRunsOut]_vars
<1>1. IInv /\ IInv' /\ [Next]_vars => [WaitRunsOut]_vars
  BY RunsOutStep DEF IInv
<1> QED
  BY <1>1, Invariance, PTL DEF Spec

-------------------------------------------------------------------------------
(* Where the comments of TransactionIdResolves are right: the id that a    *)
(* response names is the one that ldk-node files the payment under exactly *)
(* when `pay` paid an invoice.                                             *)
InvoiceIdsResolve ==
  \A c \in Calls : (answer[c].tid # None /\ pid[c] \notin Txids) =>
    (answer[c].tid = LdkId(pid[c]) <=> req[c].method = "pay" /\ pid[c] \in Invoices)

(* A call's payment is one that its request can choose, and the id it      *)
(* answers is that payment's.                                              *)
IdOf(c) ==
  /\ pid[c] # None => /\ req[c] \in Requests
                      /\ req[c].method = "pay" => pid[c] \notin Keysends
  /\ answer[c].tid # None => /\ pid[c] \in Payments
                             /\ answer[c].tid = TransactionId(req[c], pid[c])

(* `pay` never chooses a keysend.                                          *)
LEMMA PayChoosesNoKeysend ==
  ASSUME NEW r \in Requests, r.method = "pay", NEW l \in Chosen(r),
         NEW p \in Startable(l)
  PROVE  p \notin Keysends
<1>1. l.kind \in {"bolt11", "bolt12", "onchain"}
  BY DEF Chosen, Of
<1>2. p \in Invoices \cup OfferPays \cup Txids
  BY <1>1 DEF Startable
<1> QED
  BY <1>2, PaymentsAssumption

LEMMA StartIdOf ==
  ASSUME IInv, NEW c \in Calls, Start(c)
  PROVE  IdOf(c)'
<1>1. PICK r \in Requests :
        Refuse(c, r) \/ FailParse(c, r) \/ FailSend(c, r) \/ PayOnchain(c, r) \/ Send(c, r)
  BY DEF Start
<1>2. pid[c] = None /\ answer[c] = NoAnswer /\ NoAnswer.tid = None
  BY <1>1 DEF Refuse, FailParse, FailSend, PayOnchain, Send, IInv, IdleHoldsNothing,
              NoAnswer
<1>3. CASE Refuse(c, r) \/ FailParse(c, r) \/ FailSend(c, r)
  <2>1. pid'[c] = None
    BY <1>2, <1>3 DEF Refuse, FailParse, FailSend
  <2>2. answer'[c].tid = None
    BY <1>3 DEF Refuse, FailParse, FailSend, Answer, Refused, Failure, IInv, TypesOK
  <2> QED
    BY <2>1, <2>2 DEF IdOf
<1>4. CASE PayOnchain(c, r)
  <2>1. PICK l \in Chosen(r) : l.kind = "onchain" /\ \E p \in Startable(l) :
          pid' = [pid EXCEPT ![c] = p] /\ Answer(c, Ok(TransactionId(r, p)))
    BY <1>4 DEF PayOnchain
  <2>2. PICK p \in Startable(l) :
          pid' = [pid EXCEPT ![c] = p] /\ Answer(c, Ok(TransactionId(r, p)))
    BY <2>1
  <2>3. p \in Payments
    BY StartableLemma
  <2>4. r.method = "pay" => p \notin Keysends
    BY PayChoosesNoKeysend
  <2>5. pid'[c] = p /\ req'[c] = r /\ answer'[c] = Ok(TransactionId(r, p))
    BY <1>4, <2>2 DEF PayOnchain, Answer, IInv, TypesOK
  <2>6. Ok(TransactionId(r, p)).tid = TransactionId(r, p)
    BY DEF Ok
  <2> QED
    BY <2>3, <2>4, <2>5, <2>6 DEF IdOf, TransactionId
<1>5. CASE Send(c, r)
  <2>1. PICK l \in Chosen(r) : \E p \in Startable(l) : pid' = [pid EXCEPT ![c] = p]
    BY <1>5 DEF Send
  <2>2. PICK p \in Startable(l) : pid' = [pid EXCEPT ![c] = p]
    BY <2>1
  <2>3. r.method = "pay" => p \notin Keysends
    BY PayChoosesNoKeysend
  <2>4. pid'[c] = p /\ req'[c] = r /\ answer'[c].tid = None
    BY <1>2, <1>5, <2>2 DEF Send, IInv, TypesOK
  <2> QED
    BY <2>3, <2>4 DEF IdOf
<1> QED
  BY <1>1, <1>3, <1>4, <1>5

LEMMA WaitIdOf ==
  ASSUME IInv, NEW c \in Calls, IdOf(c), Wait(c)
  PROVE  IdOf(c)'
<1>1. pid[c] \in Payments
  BY DEF Wait, Poll, TimeOut, Sleep, Wake, IInv, WaitHoldsItsPayment, Waiting
<1>2. pid' = pid /\ req' = req
  BY DEF Wait, Poll, TimeOut, Sleep, Wake
<1>3. \/ answer'[c] = answer[c]
      \/ answer'[c].tid = None
      \/ answer'[c].tid = TransactionId(req[c], pid[c])
  <2>1. CASE Poll(c)
    <3>1. Outcome(c).tid \in {None, TransactionId(req[c], pid[c])}
      BY DEF Outcome, Ok, Failure, NoAnswer
    <3>2. answer'[c] \in {answer[c], Outcome(c)}
      BY <2>1 DEF Poll, Answer, IInv, TypesOK
    <3> QED
      BY <3>1, <3>2
  <2>2. CASE TimeOut(c) \/ Sleep(c) \/ Wake(c)
    BY <2>2 DEF TimeOut, Sleep, Wake, Answer, Failure, IInv, TypesOK
  <2> QED
    BY <2>1, <2>2 DEF Wait
<1> QED
  BY <1>1, <1>2, <1>3 DEF IdOf

LEMMA StepIdOf ==
  ASSUME IInv, \A c \in Calls : IdOf(c), [Next]_vars, NEW c \in Calls
  PROVE  IdOf(c)'
<1>1. CASE Start(c) \/ Wait(c)
  BY <1>1, StartIdOf, WaitIdOf
<1>2. ASSUME NEW d \in Calls \ {c}, Start(d) \/ Wait(d)
      PROVE  pid'[c] = pid[c] /\ req'[c] = req[c] /\ answer'[c] = answer[c]
  <2>1. CASE Start(d)
    BY <2>1 DEF Start, Refuse, FailParse, FailSend, PayOnchain, Send, Answer,
                IInv, TypesOK
  <2>2. CASE Wait(d)
    BY <2>2 DEF Wait, Poll, TimeOut, Sleep, Wake, Answer, IInv, TypesOK
  <2> QED
    BY <1>2, <2>1, <2>2
<1>3. CASE (\E p \in Payments : Resolve(p)) \/ UNCHANGED vars
  BY <1>3 DEF Resolve, vars, IdOf
<1>4. CASE \E d \in Calls \ {c} : Start(d) \/ Wait(d)
  BY <1>2, <1>4 DEF IdOf
<1> QED
  BY <1>1, <1>3, <1>4 DEF Next

(* An invoice's id resolves, an offer's never does, whoever asks and       *)
(* whatever runs beside.                                                   *)
THEOREM InvoiceIdsAlwaysResolve == Spec => []InvoiceIdsResolve
<1> DEFINE Ids == \A c \in Calls : IdOf(c)
<1>1. Init => Ids
  <2>1. NoAnswer.tid = None
    BY DEF NoAnswer
  <2> QED
    BY <2>1 DEF Init, IdOf
<1>2. IInv /\ Ids /\ [Next]_vars => Ids'
  BY StepIdOf
<1>3. Ids => InvoiceIdsResolve
  <2> SUFFICES ASSUME NEW c \in Calls, IdOf(c), answer[c].tid # None,
                      pid[c] \notin Txids
               PROVE  answer[c].tid = LdkId(pid[c])
                        <=> req[c].method = "pay" /\ pid[c] \in Invoices
    BY DEF InvoiceIdsResolve
  <2>1. /\ pid[c] \in Payments /\ pid[c] # None
        /\ req[c].method = "pay" => pid[c] \notin Keysends
        /\ answer[c].tid = TransactionId(req[c], pid[c])
    BY PaymentsAssumption DEF IdOf
  <2>2. pid[c] \in Invoices => pid[c] \notin OfferPays
    BY PaymentsAssumption
  <2>3. CASE req[c].method = "pay"
    BY <2>1, <2>2, <2>3 DEF TransactionId, LdkId, Hash, Payments
  <2>4. CASE req[c].method # "pay"
    BY <2>1, <2>4 DEF TransactionId, LdkId, Hash, Preimage
  <2> QED
    BY <2>3, <2>4
<1> QED
  BY <1>1, <1>2, <1>3, Invariance, PTL DEF Spec

===============================================================================
