--------------------------- MODULE OutboundPayments ---------------------------
(***************************************************************************)
(* The paying half of the wallet: pay_invoice, pay_keysend, pay_offer,     *)
(* pay_onchain and pay (src/src/wallet.rs) over LdkService                 *)
(* (src/src/lightning/ldk_service.rs).                                     *)
(*                                                                         *)
(* A Lightning handler validates, starts a payment in ldk-node, and then   *)
(* polls ldk-node's payment store until the payment resolves or the wait   *)
(* times out.  ldk-node itself is external: what it does to its payment    *)
(* store is the action Resolve and the outcomes of a send.                 *)
(***************************************************************************)
EXTENDS Naturals

CONSTANTS
  Calls,       \* the requests of one run, one handler activation each
  Invoices,    \* BOLT-11 invoices; an invoice stands for its payment hash
  Keysends,    \* the payments ldk-node can start for a keysend
  OfferPays,   \* the payments ldk-node can start for an offer
  Txids,       \* the transactions the on-chain wallet can make
  Requests,    \* the requests a controller may send
  MaxPolls,    \* poll rounds after which the wait has certainly timed out
  None         \* an absent value

Payments == Invoices \cup Keysends \cup OfferPays \cup Txids

(* One payment instruction: `to` is an invoice, or None for text that does *)
(* not parse, or "ok" for a usable pubkey, offer or address.               *)
Legs == [kind : {"bolt11", "bolt12", "keysend", "onchain"},
         to : Invoices \cup {"ok", None}]

Methods == {"pay_invoice", "pay_keysend", "pay_offer", "pay_onchain", "pay"}

(* `legs` holds what the request names, at most one leg of a kind (the     *)
(* handlers take .first() of each list); an empty invoice is no leg.       *)
(* `amount` of `pay` is the request's amount, or else the URI's.           *)
RequestType == [method : Methods,
                amount : {"none", "zero", "some"},
                uri : {"parsed", "unparsable"},
                legs : SUBSET Legs]

ASSUME PaymentsAssumption ==
  /\ MaxPolls \in Nat
  /\ Requests \subseteq RequestType
  /\ None \notin Payments \cup {"ok"}
  /\ "ok" \notin Payments
  /\ \A r \in Requests :
       /\ r.method # "pay_invoice" \/ \A l \in r.legs : l.kind = "bolt11"
       /\ r.method \in {"pay_invoice", "pay"} \/ r.legs # {}
       /\ \A l \in r.legs : l.to \in Invoices => l.kind = "bolt11"
       /\ \A l \in r.legs : l.kind = "bolt11" => l.to # "ok"
  /\ Txids \cap (Invoices \cup Keysends \cup OfferPays) = {}
  /\ OfferPays \cap (Invoices \cup Keysends) = {}
  /\ Invoices \cap Keysends = {}

-------------------------------------------------------------------------------
VARIABLES
  store,    \* ldk-node's payment store: the status of every payment
  pc,       \* where each call's handler is
  pid,      \* the payment a call waits for
  req,      \* the request a call serves
  polls,    \* poll rounds a call has slept through
  answer,   \* what the handler returned
  begun     \* history: the payments started on behalf of a call

vars == <<store, pc, pid, req, polls, answer, begun>>

Statuses == {"absent", "pending", "succeeded", "unproven", "failed"}

(* A status that ldk-node reports as PaymentStatus::Succeeded; "unproven"  *)
(* is one whose record carries no preimage.                                *)
Settled(p) == store[p] \in {"succeeded", "unproven"}

(* Three different values of one payment, and the id ldk-node files it     *)
(* under: its hash, except that an offer is paid under a fresh PaymentId   *)
(* because its hash is unknown until the payee answers.                    *)
Hash(p) == <<"hash", p>>
Preimage(p) == <<"preimage", p>>
LdkId(p) == IF p \in OfferPays THEN <<"id", p>> ELSE Hash(p)
Identifiers == {"hash", "preimage", "id", "txid"} \X Payments

Codes == {"none", "ok", "BadRequest", "UnsupportedPaymentInstruction",
          "PaymentFailed"}
Reasons == {"none", "parse", "send", "failed", "no_preimage", "timeout"}
Answers == [code : Codes, why : Reasons, tid : Identifiers \cup {None}]

NoAnswer == [code |-> "none", why |-> "none", tid |-> None]
Ok(tid) == [code |-> "ok", why |-> "none", tid |-> tid]
Refused(code) == [code |-> code, why |-> "none", tid |-> None]
Failure(why) == [code |-> "PaymentFailed", why |-> why, tid |-> None]

-------------------------------------------------------------------------------
(* The front half of the handlers: validation and choice of an instruction *)

Of(r, kind) == {l \in r.legs : l.kind = kind}

(* `pay` takes the invoice first, then the offer, then the address; the    *)
(* other methods carry one leg.                                            *)
Chosen(r) ==
  IF r.method # "pay" THEN r.legs
  ELSE IF Of(r, "bolt11") # {} THEN Of(r, "bolt11")
  ELSE IF Of(r, "bolt12") # {} THEN Of(r, "bolt12")
  ELSE Of(r, "onchain")

(* The requests a handler turns down before it calls LdkService, and the   *)
(* code it answers.                                                        *)
RefusesInvoice(r) == r.method = "pay_invoice" /\ (r.amount = "zero" \/ r.legs = {})

RefusesKeysend(r) == r.method = "pay_keysend" /\ r.amount = "zero"

RefusesUri(r) ==
  /\ r.method = "pay"
  /\ \/ r.uri = "unparsable"
     \/ r.amount = "none" /\ \E l \in Chosen(r) : l.kind = "onchain"

NothingPayable(r) == r.method = "pay" /\ r.uri = "parsed" /\ Chosen(r) = {}

Refuses(r, code) ==
  \/ code = "BadRequest" /\ (RefusesInvoice(r) \/ RefusesKeysend(r) \/ RefusesUri(r))
  \/ code = "UnsupportedPaymentInstruction" /\ NothingPayable(r)

Accepts(r) == \A code \in Codes : ~Refuses(r, code)

(* The transaction_id of a response; pay_invoice, pay_keysend and          *)
(* pay_onchain carry none.                                                 *)
TransactionId(r, p) ==
  IF r.method = "pay_offer" THEN Preimage(p)
  ELSE IF r.method = "pay" THEN
    IF p \in Txids THEN <<"txid", p>> ELSE Hash(p)
  ELSE None

-------------------------------------------------------------------------------
(* ldk-node: the payments a send may start, and their resolution.  A send  *)
(* of an invoice is refused while its hash is pending or succeeded; a      *)
(* keysend and an offer get a fresh id.  An attempt that cannot be sent    *)
(* leaves a failed record or none.                                         *)
Startable(l) ==
  CASE l.kind = "bolt11"  -> {p \in {l.to} \cap Invoices :
                                store[p] \in {"absent", "failed"}}
    [] l.kind = "keysend" -> {p \in Keysends : store[p] = "absent"}
    [] l.kind = "bolt12"  -> {p \in OfferPays : store[p] = "absent"}
    [] OTHER              -> {p \in Txids : store[p] = "absent"}

Resolve(p) ==
  /\ store[p] = "pending"
  /\ \E s \in {"succeeded", "unproven", "failed"} :
       /\ s = "unproven" => p \notin Txids
       /\ store' = [store EXCEPT ![p] = s]
  /\ UNCHANGED <<pc, pid, req, polls, answer, begun>>

-------------------------------------------------------------------------------
Answer(c, a) ==
  /\ pc' = [pc EXCEPT ![c] = "done"]
  /\ answer' = [answer EXCEPT ![c] = a]

(* The request is turned down by the handler's own checks.                 *)
Refuse(c, r) ==
  /\ pc[c] = "idle"
  /\ req' = [req EXCEPT ![c] = r]
  /\ \E code \in Codes : Refuses(r, code) /\ Answer(c, Refused(code))
  /\ UNCHANGED <<store, pid, polls, begun>>

(* LdkService cannot parse the invoice, pubkey, offer or address.          *)
FailParse(c, r) ==
  /\ pc[c] = "idle"
  /\ Accepts(r)
  /\ \E l \in Chosen(r) : l.to = None
  /\ req' = [req EXCEPT ![c] = r]
  /\ Answer(c, Failure("parse"))
  /\ UNCHANGED <<store, pid, polls, begun>>

(* Seeded defect: an invoice that is being paid already is waited for, as  *)
(* if this call had started it.                                            *)
FailSendJoins(c, r) ==
  /\ pc[c] = "idle"
  /\ Accepts(r)
  /\ \E l \in Chosen(r) :
       \/ /\ l.to \in Invoices /\ store[l.to] = "pending"
          /\ pid' = [pid EXCEPT ![c] = l.to]
          /\ pc' = [pc EXCEPT ![c] = "polling"]
          /\ UNCHANGED <<store, answer>>
       \/ /\ l.to # None
          /\ Answer(c, Failure("send"))
          /\ UNCHANGED <<store, pid>>
  /\ req' = [req EXCEPT ![c] = r]
  /\ UNCHANGED <<polls, begun>>

(* ldk-node refuses the send: a duplicate, no route, no funds.             *)
FailSend(c, r) ==
  /\ pc[c] = "idle"
  /\ Accepts(r)
  /\ \E l \in Chosen(r) :
       /\ l.to # None
       /\ \/ UNCHANGED store
          \/ \E p \in Startable(l) \ Txids :
               store' = [store EXCEPT ![p] = "failed"]
  /\ req' = [req EXCEPT ![c] = r]
  /\ Answer(c, Failure("send"))
  /\ UNCHANGED <<pid, polls, begun>>

(* An on-chain send returns its txid once the transaction is broadcast;    *)
(* nothing is waited for, and ldk-node resolves it when it confirms.       *)
PayOnchain(c, r) ==
  /\ pc[c] = "idle"
  /\ Accepts(r)
  /\ \E l \in Chosen(r) :
       /\ l.kind = "onchain" /\ l.to # None
       /\ \E p \in Startable(l) :
            /\ store' = [store EXCEPT ![p] = "pending"]
            /\ pid' = [pid EXCEPT ![c] = p]
            /\ begun' = [begun EXCEPT ![c] = @ \cup {p}]
            /\ Answer(c, Ok(TransactionId(r, p)))
  /\ req' = [req EXCEPT ![c] = r]
  /\ UNCHANGED polls

(* ldk-node accepts the send; the handler enters the wait.                 *)
Send(c, r) ==
  /\ pc[c] = "idle"
  /\ Accepts(r)
  /\ \E l \in Chosen(r) :
       /\ l.kind # "onchain" /\ l.to # None
       /\ \E p \in Startable(l) :
            /\ store' = [store EXCEPT ![p] = "pending"]
            /\ pid' = [pid EXCEPT ![c] = p]
            /\ begun' = [begun EXCEPT ![c] = @ \cup {p}]
  /\ req' = [req EXCEPT ![c] = r]
  /\ pc' = [pc EXCEPT ![c] = "polling"]
  /\ UNCHANGED <<polls, answer>>

-------------------------------------------------------------------------------
(* wait_for_outbound_payment: read the store, then look at the clock, then *)
(* sleep.  The three are separate steps, so the payment may resolve        *)
(* between any two of them.                                                *)

(* Seeded defect: the search forgets to compare the payment's id.          *)
OutcomeOfAnyPayment(c) ==
  IF \E p \in Payments \ Txids : store[p] = "succeeded"
  THEN Ok(TransactionId(req[c], pid[c])) ELSE NoAnswer

(* Seeded defect: a pending payment is reported as failed.                 *)
OutcomeOfPending(c) ==
  IF store[pid[c]] = "succeeded" THEN Ok(TransactionId(req[c], pid[c]))
  ELSE Failure("failed")

(* The outcomes the wait returns when the store shows the payment resolved *)
Outcome(c) ==
  CASE store[pid[c]] = "succeeded" -> Ok(TransactionId(req[c], pid[c]))
    [] store[pid[c]] = "unproven"  -> Failure("no_preimage")
    [] store[pid[c]] = "failed"    -> Failure("failed")
    [] OTHER                       -> NoAnswer

(* Seeded defect: a failed attempt makes `pay` try its next instruction.   *)
PollFallingBack(c) ==
  /\ pc[c] = "polling"
  /\ IF store[pid[c]] = "failed" /\ Of(req[c], "bolt12") # {}
     THEN /\ \E l \in Of(req[c], "bolt12") : \E p \in Startable(l) :
               /\ store' = [store EXCEPT ![p] = "pending"]
               /\ pid' = [pid EXCEPT ![c] = p]
               /\ begun' = [begun EXCEPT ![c] = @ \cup {p}]
          /\ UNCHANGED <<pc, answer>>
     ELSE /\ \/ Outcome(c) # NoAnswer /\ Answer(c, Outcome(c))
             \/ /\ Outcome(c) = NoAnswer
                /\ pc' = [pc EXCEPT ![c] = "checking"]
                /\ UNCHANGED answer
          /\ UNCHANGED <<store, pid, begun>>
  /\ UNCHANGED <<req, polls>>

Poll(c) ==
  /\ pc[c] = "polling"
  /\ \/ Outcome(c) # NoAnswer /\ Answer(c, Outcome(c))
     \/ /\ Outcome(c) = NoAnswer
        /\ pc' = [pc EXCEPT ![c] = "checking"]
        /\ UNCHANGED answer
  /\ UNCHANGED <<store, pid, req, polls, begun>>

(* start.elapsed() > timeout.  It may hold after any read (the timeout is  *)
(* configurable, a thread may be descheduled) and holds for certain after  *)
(* MaxPolls sleeps, when Sleep is no longer possible.                      *)

(* Seeded defect: the clock is looked at before the store.                 *)
TimeOutFirst(c) ==
  /\ pc[c] \in {"polling", "checking"}
  /\ Answer(c, Failure("timeout"))
  /\ UNCHANGED <<store, pid, req, polls, begun>>

TimeOut(c) ==
  /\ pc[c] = "checking"
  /\ Answer(c, Failure("timeout"))
  /\ UNCHANGED <<store, pid, req, polls, begun>>

(* Seeded defect: the clock is started again on every round.               *)
SleepForever(c) ==
  /\ pc[c] = "checking"
  /\ pc' = [pc EXCEPT ![c] = "asleep"]
  /\ UNCHANGED <<store, pid, req, polls, answer, begun>>

Sleep(c) ==
  /\ pc[c] = "checking"
  /\ polls[c] < MaxPolls
  /\ polls' = [polls EXCEPT ![c] = @ + 1]
  /\ pc' = [pc EXCEPT ![c] = "asleep"]
  /\ UNCHANGED <<store, pid, req, answer, begun>>

Wake(c) ==
  /\ pc[c] = "asleep"
  /\ pc' = [pc EXCEPT ![c] = "polling"]
  /\ UNCHANGED <<store, pid, req, polls, answer, begun>>

-------------------------------------------------------------------------------
Init ==
  /\ store = [p \in Payments |-> "absent"]
  /\ pc = [c \in Calls |-> "idle"]
  /\ pid = [c \in Calls |-> None]
  /\ req = [c \in Calls |-> None]
  /\ polls = [c \in Calls |-> 0]
  /\ answer = [c \in Calls |-> NoAnswer]
  /\ begun = [c \in Calls |-> {}]

Start(c) ==
  \E r \in Requests :
    Refuse(c, r) \/ FailParse(c, r) \/ FailSend(c, r) \/ PayOnchain(c, r)
      \/ Send(c, r)

Wait(c) == Poll(c) \/ TimeOut(c) \/ Sleep(c) \/ Wake(c)

Next ==
  \/ \E c \in Calls : Start(c) \/ Wait(c)
  \/ \E p \in Payments : Resolve(p)

(* Only the waiting thread is fair: it is an OS thread in a loop.  Nothing *)
(* makes a payee settle, so Resolve is not.                                *)
Spec == Init /\ [][Next]_vars /\ \A c \in Calls : WF_vars(Wait(c))

-------------------------------------------------------------------------------
TypesOK ==
  /\ store \in [Payments -> Statuses]
  /\ pc \in [Calls -> {"idle", "polling", "checking", "asleep", "done"}]
  /\ pid \in [Calls -> Payments \cup {None}]
  /\ req \in [Calls -> Requests \cup {None}]
  /\ polls \in [Calls -> 0 .. MaxPolls]
  /\ answer \in [Calls -> Answers]
  /\ begun \in [Calls -> SUBSET Payments]

Waiting(c) == pc[c] \in {"polling", "checking", "asleep"}

(* An answer given before any payment was started.                         *)
TurnedDown(c) ==
  \/ answer[c].code \in {"BadRequest", "UnsupportedPaymentInstruction"}
  \/ answer[c].why \in {"parse", "send"}

(* Every variable keeps its type.  A call has a payment from the moment    *)
(* ldk-node accepts its send, and none before, nor when it is turned down  *)
(* or the send is refused; and what it waits for is a Lightning payment    *)
(* that was started on its own behalf, never one that was under way.       *)
TypeOK ==
  /\ TypesOK
  /\ \A c \in Calls :
       /\ pid[c] = None <=> pc[c] = "idle" \/ TurnedDown(c)
       /\ Waiting(c) => pid[c] \in begun[c] \ Txids

(* A Lightning payment is answered with success only when ldk-node has     *)
(* settled that very payment, however many others settle meanwhile, and    *)
(* the answer names no other payment (wait_for_outbound_payment's find by  *)
(* id and its match on the status).                                        *)
SuccessAnswerSound ==
  \A c \in Calls : answer[c].code = "ok" =>
    /\ pid[c] \in begun[c]
    /\ pid[c] \notin Txids => store[pid[c]] = "succeeded"
    /\ answer[c].tid # None => answer[c].tid[2] = pid[c]

(* One request moves money at most once: whatever an attempt ends in, no   *)
(* handler, `pay` with its several instructions included, starts another   *)
(* payment; and a refusal or a failed send has started none.               *)
OnePaymentPerCall ==
  \A c \in Calls :
    /\ begun[c] \subseteq {pid[c]}
    /\ answer[c].code \in {"BadRequest", "UnsupportedPaymentInstruction"}
         => begun[c] = {}
    /\ answer[c].why \in {"parse", "send"} => begun[c] = {}

(* "Payment marked failed" is the last word on the payment, unless another *)
(* request has started it again: a caller told so may retry without paying *)
(* twice.                                                                  *)
FailureIsFinal ==
  \A c \in Calls : answer[c].why = "failed" =>
    \/ store[pid[c]] = "failed"
    \/ \E d \in Calls \ {c} : pid[d] = pid[c]

(* A wait never times out over a success that it slept through: the loop   *)
(* reads the store again after every sleep before it looks at the clock.   *)
SleptThrough(c) == pc[c] = "asleep" /\ store[pid[c]] = "succeeded"
NoTimeoutOverSuccess ==
  \A c \in Calls : [](SleptThrough(c) => [](answer[c].why # "timeout"))

(* Every request that waits is answered, though no payee ever acts.        *)
Answered == \A c \in Calls : Waiting(c) ~> pc[c] = "done"

-------------------------------------------------------------------------------
(* What the paying half promises: PaymentPromise.                          *)
Reply(c) ==
  IF pc[c] = "idle" THEN "unsent"
  ELSE IF pc[c] # "done" THEN "open"
  ELSE IF answer[c].code = "ok" THEN "paid"
  ELSE "error"

Promise == INSTANCE PaymentPromise WITH
  Works <- Payments,
  Instant <- Txids,
  reply <- [c \in Calls |-> Reply(c)],
  work <- pid,
  settled <- {p \in Payments : Settled(p)}

(* The handlers implement the promise, its fairness included.              *)
KeepsThePromise == Promise!Spec

-------------------------------------------------------------------------------
(* A claim of the source's comments: wallet.rs:563, "The hash is this      *)
(* node's stable payment id, as in lookup_payment", :832, "The hash, never *)
(* the preimage", and :841, "This node keys payments by hash, as           *)
(* `lookup_payment` does".  lookup_payment finds the Lightning payment     *)
(* that a response identifies.                                             *)
TransactionIdResolves ==
  \A c \in Calls :
    (answer[c].tid # None /\ pid[c] \notin Txids)
      => answer[c].tid = LdkId(pid[c])

===============================================================================
