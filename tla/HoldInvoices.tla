------------------------------ MODULE HoldInvoices ------------------------------
(***************************************************************************)
(* make_hold_invoice, settle_hold_invoice and cancel_hold_invoice          *)
(* (src/src/wallet.rs over src/src/lightning/ldk_service.rs), beside a     *)
(* client that walks through a listing of the records they change.         *)
(*                                                                         *)
(* A payment of a hold invoice is held by ldk-node until it is claimed     *)
(* with the preimage of its hash, failed back, or past its deadline; the   *)
(* payer, the deadline and the records are ldk-node's (external).  The     *)
(* handler that settles reads the record in one call and claims in a       *)
(* second, and anything may come between.  A hash and its preimage stand   *)
(* for the payment, descriptions and expiry are left out.                  *)
(***************************************************************************)
EXTENDS Listings

CONSTANTS
  Holds,  \* the payments whose invoice is a hold invoice
  Calls   \* the settle and cancel requests of one run

ASSUME HoldAssumption ==
  /\ Holds \subseteq Incoming
  /\ None \notin Calls

VARIABLES
  held,      \* ldk-node: the payments held and not yet claimed or failed
  pc,        \* of each call: "idle", "claiming", "ok" or "error"
  op,        \* what a call does: "none", "settle" or "cancel"
  about,     \* the payment a call is about, or None
  endedBy    \* history: the call that last claimed or failed back each
             \* payment, or None

calls == <<pc, op, about>>
vars == <<listing, held, calls, endedBy>>

Return(c, code) == pc' = [pc EXCEPT ![c] = code]

-------------------------------------------------------------------------------
(* ldk-node and the payer (external).                                      *)

Claimed(p) == \E c \in Calls : endedBy[p] = c /\ op[c] = "settle"

(* receive_for_hash writes a pending record, over any before it.           *)
Make(p) ==
  /\ Change(p, "pending")
  /\ UNCHANGED <<held, calls, endedBy>>

(* A payment of the invoice arrives, before or after a cancel; what was    *)
(* claimed is not paid again.                                              *)
Arrive(p) ==
  /\ p \notin held /\ status[p] \in {"pending", "failed"}
  /\ ~Claimed(p)
  /\ held' = held \cup {p}
  /\ UNCHANGED <<listing, calls, endedBy>>

(* The deadline passes, and the payment goes back to the payer.            *)
Expire(p) ==
  /\ p \in held
  /\ held' = held \ {p}
  /\ Change(p, "failed")
  /\ UNCHANGED <<calls, endedBy>>

(* The claim has gone through.                                             *)
Record(p) ==
  /\ Claimed(p)
  /\ Change(p, "succeeded")
  /\ UNCHANGED <<held, calls, endedBy>>

-------------------------------------------------------------------------------
(* The handlers.                                                           *)
Take(c, o, p) ==
  /\ pc[c] = "idle"
  /\ op' = [op EXCEPT ![c] = o]
  /\ about' = [about EXCEPT ![c] = p]

(* settle_hold_invoice derives the hash from the preimage, and reads the   *)
(* record for the amount; the record's state is not looked at.             *)
SettleRead(c, p) ==
  /\ Take(c, "settle", p)
  /\ status[p] # "none"
  /\ Return(c, "claiming")
  /\ UNCHANGED <<listing, held, endedBy>>

(* A malformed preimage, or one of no record.                              *)
SettleRefuse(c, p) ==
  /\ Take(c, "settle", p)
  /\ status[p] = "none"
  /\ Return(c, "error")
  /\ UNCHANGED <<listing, held, endedBy>>

(* Seeded defect: the record is read again after the claim, which is an    *)
(* error when it does not say yet that it was paid.                        *)
ClaimRechecks(c) ==
  /\ pc[c] = "claiming"
  /\ held' = held \ {about[c]}
  /\ endedBy' = IF about[c] \in held THEN [endedBy EXCEPT ![about[c]] = c] ELSE endedBy
  /\ Return(c, IF status[about[c]] = "succeeded" THEN "ok" ELSE "error")
  /\ UNCHANGED <<listing, op, about>>

(* claim_for_hash: what is held is claimed, and "ok" is also the answer    *)
(* when nothing is.                                                        *)
Claim(c) ==
  /\ pc[c] = "claiming"
  /\ held' = held \ {about[c]}
  /\ endedBy' = IF about[c] \in held THEN [endedBy EXCEPT ![about[c]] = c] ELSE endedBy
  /\ Return(c, "ok")
  /\ UNCHANGED <<listing, op, about>>

(* Seeded defect: an error of claim_for_hash is logged and no more.        *)
ClaimErrorIgnored(c) ==
  /\ pc[c] = "claiming"
  /\ Return(c, "ok")
  /\ UNCHANGED <<listing, held, op, about, endedBy>>

ClaimFails(c) ==
  /\ pc[c] = "claiming"
  /\ Return(c, "error")
  /\ UNCHANGED <<listing, held, op, about, endedBy>>

(* fail_for_hash: what is held goes back, and the record says so; a record *)
(* that is pending no more may be left as it is.                           *)
Cancel(c, p) ==
  /\ Take(c, "cancel", p)
  /\ status[p] # "none"
  /\ held' = held \ {p}
  /\ endedBy' = IF p \in held THEN [endedBy EXCEPT ![p] = c] ELSE endedBy
  /\ Return(c, "ok")
  /\ \/ Change(p, "failed")
     \/ status[p] \in {"succeeded", "failed"} /\ UNCHANGED listing

CancelFails(c, p) ==
  /\ Take(c, "cancel", p)
  /\ Return(c, "error")
  /\ UNCHANGED <<listing, held, endedBy>>

-------------------------------------------------------------------------------
Init ==
  /\ ListingsInit
  /\ held = {}
  /\ pc = [c \in Calls |-> "idle"]
  /\ op = [c \in Calls |-> "none"]
  /\ about = [c \in Calls |-> None]
  /\ endedBy = [p \in Holds |-> None]

Handle(c) ==
  \/ \E p \in Holds : SettleRead(c, p) \/ SettleRefuse(c, p)
                        \/ Cancel(c, p) \/ CancelFails(c, p)
  \/ Claim(c) \/ ClaimFails(c)

Node(p) == Make(p) \/ Arrive(p) \/ Expire(p) \/ Record(p)

(* The other payments, the clock and the walk.                             *)
Others ==
  /\ \/ \E p \in Payments \ Holds, s \in {"pending", "succeeded", "failed"} : Change(p, s)
     \/ \E r \in Requests : Begin(r)
     \/ Tick \/ Read \/ Leave
  /\ UNCHANGED <<held, calls, endedBy>>

Next ==
  \/ \E c \in Calls : Handle(c)
  \/ \E p \in Holds : Node(p)
  \/ Others

Spec == Init /\ [][Next]_vars

-------------------------------------------------------------------------------
(* Every variable keeps its type, those of the listing included; what is   *)
(* held is on record, and a call that claims has read a record.            *)
TypeOK ==
  /\ ListingsTypeOK
  /\ held \subseteq Holds
  /\ pc \in [Calls -> {"idle", "claiming", "ok", "error"}]
  /\ op \in [Calls -> {"none", "settle", "cancel"}]
  /\ about \in [Calls -> Holds \cup {None}]
  /\ endedBy \in [Holds -> Calls \cup {None}]
  /\ \A p \in held : status[p] # "none"
  /\ \A c \in Calls : pc[c] = "claiming" =>
       op[c] = "settle" /\ about[c] \in Holds /\ status[about[c]] # "none"

(* A request claims, or fails back, a payment only if it named it by its   *)
(* own preimage or hash, and was answered "ok": whatever came between      *)
(* reading and claiming, an error has done nothing, and no invoice is      *)
(* settled with the secret of another (ldk_service.rs:532).  A hold that   *)
(* no request ends goes back to the payer at its deadline (Expire).        *)
OutcomeWasAskedFor ==
  \A p \in Holds, c \in Calls :
    endedBy[p] = c => about[c] = p /\ pc[c] = "ok"

(* A request that is answered "ok" leaves nothing held of the invoice it   *)
(* named, although the payment may come, go and come again at any time     *)
(* before; a payment that arrives afterwards is held all the same.         *)
OkEndsHold ==
  [][\A c \in Calls : pc[c] # "ok" /\ pc'[c] = "ok" => about'[c] \notin held']_vars

===============================================================================
