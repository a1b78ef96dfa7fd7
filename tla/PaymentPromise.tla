---------------------------- MODULE PaymentPromise ----------------------------
(***************************************************************************)
(* What a controller may rely on when it asks this node to pay, whichever  *)
(* method it uses: one request is bound to at most one payment, it is      *)
(* answered "paid" only after that payment has settled (or, for an         *)
(* on-chain payment, been broadcast), settlement is never undone, and a    *)
(* request that has been taken on is answered.                             *)
(***************************************************************************)
CONSTANTS
  Calls,     \* the requests
  Works,     \* the payments that requests may turn into
  Instant,   \* the payments answered without waiting for settlement
  None       \* no payment

VARIABLES
  reply,     \* "unsent", "open", "paid" or "error", of each request
  work,      \* the payment each request is bound to, or None
  settled    \* the payments that have settled

vars == <<reply, work, settled>>

Init ==
  /\ reply = [c \in Calls |-> "unsent"]
  /\ work = [c \in Calls |-> None]
  /\ settled = {}

Reject(c) ==
  /\ reply[c] = "unsent"
  /\ reply' = [reply EXCEPT ![c] = "error"]
  /\ UNCHANGED <<work, settled>>

(* Only a payment that has not settled can be taken on.                    *)
Accept(c) ==
  /\ reply[c] = "unsent"
  /\ \E p \in Works \ (Instant \cup settled) : work' = [work EXCEPT ![c] = p]
  /\ reply' = [reply EXCEPT ![c] = "open"]
  /\ UNCHANGED settled

Broadcast(c) ==
  /\ reply[c] = "unsent"
  /\ \E p \in Instant \ settled : work' = [work EXCEPT ![c] = p]
  /\ reply' = [reply EXCEPT ![c] = "paid"]
  /\ UNCHANGED settled

Settle(p) ==
  /\ p \notin settled
  /\ settled' = settled \cup {p}
  /\ UNCHANGED <<reply, work>>

AnswerPaid(c) ==
  /\ reply[c] = "open"
  /\ work[c] \in settled
  /\ reply' = [reply EXCEPT ![c] = "paid"]
  /\ UNCHANGED <<work, settled>>

AnswerError(c) ==
  /\ reply[c] = "open"
  /\ reply' = [reply EXCEPT ![c] = "error"]
  /\ UNCHANGED <<work, settled>>

AnswerCall(c) == AnswerPaid(c) \/ AnswerError(c)

Next ==
  \/ \E c \in Calls : Reject(c) \/ Accept(c) \/ Broadcast(c) \/ AnswerCall(c)
  \/ \E p \in Works : Settle(p)

(* A request that is open is answered.                                     *)
Spec == Init /\ [][Next]_vars /\ \A c \in Calls : WF_vars(AnswerCall(c))

===============================================================================
