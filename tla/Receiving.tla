------------------------------- MODULE Receiving -------------------------------
(***************************************************************************)
(* The receiving half of the wallet: make_invoice, make_offer,             *)
(* make_new_address and receive, which hand out payment instructions, and  *)
(* disable_offer, list_offers, lookup_address and list_addresses, which    *)
(* answer for them (src/src/wallet.rs over src/src/state/offer_store.rs    *)
(* and address_store.rs).                                                  *)
(*                                                                         *)
(* ldk-node issues an instruction and remembers it for good (external);    *)
(* the handler then enters it in a store in the memory of this process.    *)
(* Between the two, as between any two steps, other requests may act and   *)
(* the process may crash.  Expiry, labels and descriptions are left out.   *)
(***************************************************************************)
EXTENDS Naturals, Sequences

CONSTANTS
  Calls,      \* the requests of one run, one handler activation each
  Invoices, Offers, Addresses,  \* what ldk-node can issue
  Requests,   \* the requests a controller may send
  MaxCrashes, \* bound: crashes in one behaviour
  None        \* an absent value

Instructions == Invoices \cup Offers \cup Addresses

(* An entry of `receive`; "foreign" is an on-chain entry for a type of     *)
(* address other than p2tr, "unknown" any other method.                    *)
Entries == {"bolt11", "bolt12", "onchain", "foreign", "unknown"}
Amounts == {"none", "zero", "some"}

(* What make_invoice, make_offer and make_new_address refuse outright      *)
(* (a description hash, an amount without description, a foreign address   *)
(* type) is `refused`; disable_offer's offer is None for a malformed id.   *)
IssuingRequests ==
  [method : {"make_invoice", "make_offer", "make_new_address"},
   amount : Amounts, refused : BOOLEAN]
    \cup [method : {"receive"}, amount : Amounts, entries : Seq(Entries)]
QueryingRequests ==
  [method : {"disable_offer"}, offer : Offers \cup {None}]
    \cup [method : {"lookup_address"}, address : Addresses]
    \cup [method : {"list_offers"}, activeOnly : BOOLEAN]
    \cup [method : {"list_addresses"}]

ASSUME ReceivingAssumption ==
  /\ MaxCrashes \in Nat
  /\ Requests \subseteq IssuingRequests \cup QueryingRequests
  /\ None \notin Calls \cup Instructions
  /\ Invoices \cap Offers = {} /\ Invoices \cap Addresses = {}
  /\ Offers \cap Addresses = {}

VARIABLES
  owner,    \* ldk-node: the call each instruction was issued for, or None
  offers,   \* offer_store: "absent", "active" or "disabled"
  watched,  \* address_store: the addresses it has
  pc,       \* where each call's handler is
  req,      \* the request a call serves
  todo,     \* the entries a call has yet to go through
  issuing,  \* the instruction a call has from ldk-node and has yet to store
  uri,      \* the instructions of the response so far
  answer,   \* what the handler returned
  crashes,
  fresh     \* history: the calls answered in this life of the process

calls == <<pc, req, todo, issuing, uri, answer>>
stores == <<offers, watched>>
vars == <<owner, stores, calls, crashes, fresh>>

NoAnswer == [code |-> "none", given |-> {}]
Err(code) == [code |-> code, given |-> {}]
Ok(given) == [code |-> "ok", given |-> given]

Answer(c, a) ==
  /\ pc' = [pc EXCEPT ![c] = "done"]
  /\ answer' = [answer EXCEPT ![c] = a]
  /\ fresh' = fresh \cup {c}

-------------------------------------------------------------------------------
(* Issuing instructions.                                                   *)
Issues(r) == r.method \in {"make_invoice", "make_offer", "make_new_address", "receive"}

Wanted(r) ==
  CASE r.method = "make_invoice"     -> <<"bolt11">>
    [] r.method = "make_offer"       -> <<"bolt12">>
    [] r.method = "make_new_address" -> <<"onchain">>
    [] OTHER                         -> r.entries

Refuses(r) ==
  \/ r.method \in {"make_invoice", "make_offer", "make_new_address"} /\ r.refused
  \/ r.method = "disable_offer" /\ r.offer = None

Refuse(c, r) ==
  /\ pc[c] = "idle"
  /\ Refuses(r)
  /\ req' = [req EXCEPT ![c] = r]
  /\ Answer(c, Err("BadRequest"))
  /\ UNCHANGED <<owner, stores, todo, issuing, uri, crashes>>

Begin(c, r) ==
  /\ pc[c] = "idle"
  /\ Issues(r) /\ ~Refuses(r)
  /\ req' = [req EXCEPT ![c] = r]
  /\ todo' = [todo EXCEPT ![c] = Wanted(r)]
  /\ pc' = [pc EXCEPT ![c] = "making"]
  /\ UNCHANGED <<owner, stores, issuing, uri, answer, crashes, fresh>>

(* An invoice needs an amount; addresses are p2tr.                         *)
Makeable(r, entry) ==
  \/ entry = "bolt11" /\ r.amount = "some"
  \/ entry \in {"bolt12", "onchain"}

Kind(entry) ==
  CASE entry = "bolt11" -> Invoices [] entry = "bolt12" -> Offers [] OTHER -> Addresses

(* ldk-node issues the instruction.  An invoice needs no store.            *)
Issue(c) ==
  /\ pc[c] = "making" /\ todo[c] # <<>>
  /\ Makeable(req[c], Head(todo[c]))
  /\ \E i \in Kind(Head(todo[c])) :
       /\ owner[i] = None
       /\ owner' = [owner EXCEPT ![i] = c]
       /\ IF i \in Invoices
          THEN /\ uri' = [uri EXCEPT ![c] = @ \cup {i}]
               /\ todo' = [todo EXCEPT ![c] = Tail(@)]
               /\ UNCHANGED <<pc, issuing>>
          ELSE /\ issuing' = [issuing EXCEPT ![c] = i]
               /\ pc' = [pc EXCEPT ![c] = "storing"]
               /\ UNCHANGED <<uri, todo>>
  /\ UNCHANGED <<stores, req, answer, crashes, fresh>>

(* Seeded defects: addresses are not registered; whatever was issued is    *)
(* registered as an address.                                               *)
InsertOffersOnly(i) ==
  /\ offers' = IF i \in Offers THEN [offers EXCEPT ![i] = "active"] ELSE offers
  /\ UNCHANGED watched

InsertMixed(i) ==
  /\ offers' = IF i \in Offers THEN [offers EXCEPT ![i] = "active"] ELSE offers
  /\ watched' = watched \cup {i}

(* insert_offer or register_address.                                       *)
Insert(i) ==
  /\ offers' = IF i \in Offers THEN [offers EXCEPT ![i] = "active"] ELSE offers
  /\ watched' = watched \cup ({i} \cap Addresses)

(* Seeded defects: an offer replaces the one before it; an offer does not  *)
(* count as an instruction.                                                *)
PushLastOffer(given, i) == (given \cap Invoices) \cup {i}
PushUncounted(given, i) == given \cup ({i} \ Offers)

(* A URI has room for one address: the last replaces any before it.  That  *)
(* an address which ldk-node has just formatted parses again, as `receive` *)
(* requires before it puts it in the URI, is assumed.                      *)
Push(given, i) == (IF i \in Addresses THEN given \ Addresses ELSE given) \cup {i}

Store(c) ==
  /\ pc[c] = "storing"
  /\ Insert(issuing[c])
  /\ uri' = [uri EXCEPT ![c] = Push(@, issuing[c])]
  /\ todo' = [todo EXCEPT ![c] = Tail(@)]
  /\ pc' = [pc EXCEPT ![c] = "making"]
  /\ UNCHANGED <<owner, req, issuing, answer, crashes, fresh>>

(* The entry cannot be made, or ldk-node fails: `receive` goes on to the   *)
(* next entry, the others fail.                                            *)
Skip(c) ==
  /\ pc[c] = "making" /\ todo[c] # <<>>
  /\ IF req[c].method = "receive"
     THEN todo' = [todo EXCEPT ![c] = Tail(@)] /\ UNCHANGED <<pc, answer, fresh>>
     ELSE Answer(c, Err("Internal")) /\ UNCHANGED todo
  /\ UNCHANGED <<owner, stores, req, issuing, uri, crashes>>

Finish(c) ==
  /\ pc[c] = "making" /\ todo[c] = <<>>
  /\ Answer(c, IF uri[c] = {} THEN Err("BadRequest") ELSE Ok(uri[c]))
  /\ UNCHANGED <<owner, stores, req, todo, issuing, uri, crashes>>

-------------------------------------------------------------------------------
(* Answering for them.                                                     *)

(* A controller asks about what it has been handed.                        *)
HandedOut == UNION { answer[c].given : c \in { d \in Calls : pc[d] = "done" } }

(* Seeded defect: only active offers are looked through.                   *)
FindActiveOffer(c, r) ==
  /\ pc[c] = "idle"
  /\ r.method = "disable_offer" /\ r.offer \in HandedOut
  /\ req' = [req EXCEPT ![c] = r]
  /\ \/ /\ offers[r.offer] = "active"
        /\ pc' = [pc EXCEPT ![c] = "found"]
        /\ UNCHANGED <<answer, fresh>>
     \/ offers[r.offer] # "active" /\ Answer(c, Err("NotFound"))
  /\ UNCHANGED <<owner, stores, todo, issuing, uri, crashes>>

(* find_by_offer_id, whose error is NotFound.                              *)
FindOffer(c, r) ==
  /\ pc[c] = "idle"
  /\ r.method = "disable_offer" /\ r.offer \in HandedOut
  /\ req' = [req EXCEPT ![c] = r]
  /\ \/ /\ offers[r.offer] # "absent"
        /\ pc' = [pc EXCEPT ![c] = "found"]
        /\ UNCHANGED <<answer, fresh>>
     \/ offers[r.offer] = "absent" /\ Answer(c, Err("NotFound"))
  /\ UNCHANGED <<owner, stores, todo, issuing, uri, crashes>>

(* Seeded defect: what is disabled is the first active record there is.    *)
DisableFirst(c) ==
  /\ pc[c] = "found"
  /\ \E o \in Offers :
       /\ offers[o] = "active"
       /\ offers' = [offers EXCEPT ![o] = "disabled"]
  /\ Answer(c, Ok({}))
  /\ UNCHANGED <<owner, watched, req, todo, issuing, uri, crashes>>

Disable(c) ==
  /\ pc[c] = "found"
  /\ offers' = [offers EXCEPT ![req[c].offer] = "disabled"]
  /\ Answer(c, Ok({}))
  /\ UNCHANGED <<owner, watched, req, todo, issuing, uri, crashes>>

LookupAddress(c, r) ==
  /\ pc[c] = "idle"
  /\ r.method = "lookup_address" /\ r.address \in HandedOut
  /\ req' = [req EXCEPT ![c] = r]
  /\ Answer(c, IF r.address \in watched THEN Ok({r.address}) ELSE Err("NotFound"))
  /\ UNCHANGED <<owner, stores, todo, issuing, uri, crashes>>

ListOffers(c, r) ==
  /\ pc[c] = "idle"
  /\ r.method = "list_offers"
  /\ req' = [req EXCEPT ![c] = r]
  /\ Answer(c, Ok({ o \in Offers : \/ offers[o] = "active"
                                   \/ offers[o] = "disabled" /\ ~r.activeOnly }))
  /\ UNCHANGED <<owner, stores, todo, issuing, uri, crashes>>

ListAddresses(c, r) ==
  /\ pc[c] = "idle"
  /\ r.method = "list_addresses"
  /\ req' = [req EXCEPT ![c] = r]
  /\ Answer(c, Ok(watched))
  /\ UNCHANGED <<owner, stores, todo, issuing, uri, crashes>>

-------------------------------------------------------------------------------
(* The process dies and is started again: its handlers and its stores are  *)
(* gone, what ldk-node issued is not.                                      *)
Crash ==
  /\ crashes < MaxCrashes
  /\ crashes' = crashes + 1
  /\ offers' = [o \in Offers |-> "absent"]
  /\ watched' = {}
  /\ fresh' = {}
  /\ pc' = [c \in Calls |-> IF pc[c] \in {"idle", "done"} THEN pc[c] ELSE "lost"]
  /\ todo' = [c \in Calls |-> <<>>]
  /\ issuing' = [c \in Calls |-> None]
  /\ uri' = [c \in Calls |-> {}]
  /\ UNCHANGED <<owner, req, answer>>

-------------------------------------------------------------------------------
Init ==
  /\ owner = [i \in Instructions |-> None]
  /\ offers = [o \in Offers |-> "absent"]
  /\ watched = {}
  /\ pc = [c \in Calls |-> "idle"]
  /\ req = [c \in Calls |-> None]
  /\ todo = [c \in Calls |-> <<>>]
  /\ issuing = [c \in Calls |-> None]
  /\ uri = [c \in Calls |-> {}]
  /\ answer = [c \in Calls |-> NoAnswer]
  /\ crashes = 0 /\ fresh = {}

Start(c) ==
  \E r \in Requests :
    \/ Refuse(c, r) \/ Begin(c, r) \/ FindOffer(c, r) \/ LookupAddress(c, r)
    \/ ListOffers(c, r) \/ ListAddresses(c, r)

Act(c) == Issue(c) \/ Store(c) \/ Skip(c) \/ Finish(c) \/ Disable(c)

Next ==
  \/ \E c \in Calls : Start(c) \/ Act(c)
  \/ Crash

Spec == Init /\ [][Next]_vars

-------------------------------------------------------------------------------
(* Every variable keeps its type; a call stores only what it has just got. *)
TypeOK ==
  /\ owner \in [Instructions -> Calls \cup {None}]
  /\ offers \in [Offers -> {"absent", "active", "disabled"}]
  /\ watched \subseteq Addresses
  /\ pc \in [Calls -> {"idle", "making", "storing", "found", "done", "lost"}]
  /\ req \in [Calls -> Requests \cup {None}]
  /\ todo \in [Calls -> Seq(Entries)]
  /\ issuing \in [Calls -> Instructions \cup {None}]
  /\ uri \in [Calls -> SUBSET Instructions]
  /\ answer \in [Calls -> [code : {"none", "ok", "BadRequest", "Internal", "NotFound"},
                           given : SUBSET Instructions]]
  /\ crashes \in 0 .. MaxCrashes
  /\ fresh \subseteq Calls
  /\ \A c \in Calls : pc[c] = "storing" =>
       /\ issuing[c] \in Offers \cup Addresses /\ owner[issuing[c]] = c
       /\ todo[c] # <<>>

Answered(c, method, code) ==
  pc[c] = "done" /\ req[c].method = method /\ answer[c].code = code

Mine(c) == { i \in Instructions : owner[i] = c }

(* What was handed out in this life of the process is in its stores, so    *)
(* that it can be listed, looked up and disabled, whatever requests run    *)
(* beside it.                                                              *)
HandedOutIsKnown ==
  \A c \in fresh : Issues(req[c]) =>
    \A i \in answer[c].given :
      /\ i \in Offers => offers[i] # "absent"
      /\ i \in Addresses => i \in watched

(* A request that is answered with an error has left nothing behind that   *)
(* could be paid: `receive` fails only if every entry did.                 *)
ErrorIssuesNothing ==
  \A c \in Calls : pc[c] = "done" /\ answer[c].code # "ok" => Mine(c) = {}

(* A response carries every invoice and offer that was made for it, one    *)
(* address if any was, and nothing that was made for another request.      *)
MadeIsHandedOut ==
  \A c \in Calls : pc[c] = "done" /\ answer[c].code = "ok" /\ Issues(req[c]) =>
    /\ answer[c].given \subseteq Mine(c)
    /\ Mine(c) \ Addresses \subseteq answer[c].given
    /\ Mine(c) # {} /\ (Mine(c) \cap Addresses # {}
                          => \E a \in Addresses : answer[c].given \cap Addresses = {a})

(* A disabled offer is not active again in this life of the process.       *)
DisabledStaysDisabled ==
  \A c \in fresh : Answered(c, "disable_offer", "ok") =>
    offers[req[c].offer] = "disabled"

(* "Not found" is never said of an offer or an address that was handed out *)
(* in this life of the process, disabled or not: only a restart forgets,   *)
(* and within one life disabling an offer again succeeds (wallet.rs:612,   *)
(* "Idempotent by specification").                                         *)
OnlyRestartForgets ==
  \A c, d \in fresh :
    (answer[c].code = "NotFound" /\ Issues(req[d])) =>
      IF req[c].method = "disable_offer" THEN req[c].offer \notin answer[d].given
      ELSE req[c].address \notin answer[d].given

===============================================================================
