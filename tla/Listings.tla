-------------------------------- MODULE Listings --------------------------------
(***************************************************************************)
(* list_transactions and list_invoices (src/src/wallet.rs) over            *)
(* LdkService::list_payments_filtered (src/src/lightning/ldk_service.rs),  *)
(* and the lookups by hash, invoice and identifier beside them.            *)
(*                                                                         *)
(* A listing is read in pages.  Each page is cut, by offset and limit,     *)
(* from a list that is made anew, filtered and sorted by last update,      *)
(* and between two pages the payments change.  A walk is a client that     *)
(* repeats its request with the next offset until a page comes short: the  *)
(* response has no other sign that there is more.  (The payment store is   *)
(* ldk-node's, and external.)                                              *)
(***************************************************************************)
EXTENDS Naturals, FiniteSets

CONSTANTS
  Incoming, Outgoing,  \* payments, by direction
  NotByHash,           \* payments that ldk-node files under another id than
                       \* their hash: of an offer that was paid, on-chain
  Requests,            \* the requests a client may walk with
  Lookups,             \* the lookup requests a client may send
  None, Unusable,      \* an absent value; a `lookup` without a payment_hash
  MaxTime,             \* bound: seconds that pass
  MaxChanges           \* bound: records written in one behaviour

Payments == Incoming \cup Outgoing

(* An absent `from` is 0 and an absent `until` MaxTime; `of` is what       *)
(* transaction_type asks for, and an absent limit one that no list         *)
(* reaches.  A client that wants to go on asks for at least one.           *)
ListRequests ==
  [method : {"list_transactions"}, of : {Incoming, Outgoing, Payments},
   unpaid : {"shown", "hidden"},
   from : 0 .. MaxTime, until : 0 .. MaxTime, limit : Nat \ {0}]
    \cup [method : {"list_invoices"}, state : {"any", "settled", "expired", "pending"},
          from : 0 .. MaxTime, until : 0 .. MaxTime, limit : Nat \ {0}]

(* A selector is the hash of a payment, written as the payment.            *)
Selector == Payments \cup {None}
LookupRequests ==
  [method : {"lookup_payment"}, transaction_id : Selector, payment_hash : Selector,
   invoice : Selector, payment_type : {"given", "absent"}, lookup : Selector \cup {Unusable}]
    \cup [method : {"lookup_invoice"}, payment_hash : Selector, invoice : Selector]

ASSUME ListingsAssumption ==
  /\ IsFiniteSet(Incoming) /\ IsFiniteSet(Outgoing)
  /\ NotByHash \subseteq Payments
  /\ None \notin Payments /\ Unusable \notin Payments
  /\ MaxTime \in Nat /\ MaxChanges \in Nat
  /\ Requests \subseteq ListRequests /\ None \notin Requests
  /\ Lookups \subseteq LookupRequests

VARIABLES
  status,   \* of each record in ldk-node's store, or "none"
  updated,  \* its latest_update_timestamp
  now,      \* ldk-node's clock
  changes,  \* how many records have been written
  request,  \* what the walk asks for, or None when there is no walk
  off,      \* the offset of the next page
  seen,     \* the payments the walk was shown
  drift,    \* history: "still" until a payment enters the walk's listing
            \* or moves in it, then "grown"; "shrunk" once one has left
  clear     \* history: payments listed since the walk began that did not
            \* change and had their time to themselves

store == <<status, updated, now, changes>>
walk == <<request, off, seen>>
listing == <<store, walk, drift, clear>>

-------------------------------------------------------------------------------
(* What is listed, and in which order.                                     *)

(* Seeded defect: the direction is not passed on.                          *)
WantsEverything(r) == Payments

Wants(r) == IF r.method = "list_invoices" THEN Incoming ELSE r.of

(* Seeded defect: list_invoices leaves out what is unpaid.                 *)
ShowsUnpaidIfAsked(r) == r.method = "list_transactions" /\ r.unpaid = "shown"

ShowsUnpaid(r) == r.method = "list_transactions" => r.unpaid = "shown"

(* The filters of list_payments_filtered.                                  *)
Listed(r) ==
  { p \in Wants(r) :
      /\ status[p] # "none"
      /\ r.from <= updated[p] /\ updated[p] <= r.until
      /\ status[p] = "pending" => ShowsUnpaid(r) }

(* Seeded defect: the oldest first.                                        *)
OrdersOldestFirst(S) ==
  { o \in [1 .. Cardinality(S) -> S] :
      \A i, j \in 1 .. Cardinality(S) :
        i < j => o[i] # o[j] /\ updated[o[i]] <= updated[o[j]] }

(* The last updated first.  Nothing orders payments of one second: the     *)
(* store's own order, which may change when a record is added, decides.    *)
Orders(S) ==
  { o \in [1 .. Cardinality(S) -> S] :
      \A i, j \in 1 .. Cardinality(S) :
        i < j => o[i] # o[j] /\ updated[o[i]] >= updated[o[j]] }

(* Seeded defect: from the second page on, one payment too early.          *)
PageFromLast(o, n, from, limit) ==
  { o[i] : i \in { j \in 1 .. n : from < j + 1 /\ j <= from + limit } }

(* skip(offset), take(limit).                                              *)
Page(o, n, from, limit) ==
  { o[i] : i \in { j \in 1 .. n : from < j /\ j <= from + limit } }

(* InvoiceState: what failed counts as pending, and nothing is expired,    *)
(* since a transaction never has an expiry.                                *)
InvoiceState(p) == IF status[p] = "succeeded" THEN "settled" ELSE "pending"

(* Seeded defect: unpaid payments are left out of the page, not the list.  *)
ShownIfPaid(r, page) ==
  { p \in page : r.method = "list_invoices" \/ status[p] # "pending" }

(* list_invoices filters by state what list_payments_filtered has cut.     *)
Shown(r, page) ==
  { p \in page : r.method = "list_invoices" => r.state \in {"any", InvoiceState(p)} }

-------------------------------------------------------------------------------
(* Which payment a lookup is about.                                        *)

(* The selector forms that a lookup_payment fills in.                      *)
Forms(r) ==
  { f \in {"id", "bolt11", "typed"} :
      CASE f = "id"     -> r.transaction_id # None
        [] f = "bolt11" -> r.payment_hash # None \/ r.invoice # None
        [] OTHER        -> r.payment_type = "given" /\ r.lookup # None }

OrElse(a, b) == IF a # None THEN a ELSE b

(* The hash that is looked up, in the handler's order of preference.       *)
HashOf(r) ==
  IF r.method = "lookup_invoice" THEN r.payment_hash
  ELSE OrElse(r.transaction_id,
         OrElse(r.payment_hash, IF r.lookup = Unusable THEN None ELSE r.lookup))

Answer(code, p) == [code |-> code, payment |-> p]

(* lookup_payment_by_hash: the record whose PaymentId is the hash, of      *)
(* which a payment filed under another id has none.                        *)
FiledUnder(hash) ==
  IF status[hash] = "none" \/ hash \in NotByHash THEN None ELSE hash

(* Seeded defect: the lookup leaves out, as a listing does unless it is    *)
(* asked otherwise, what is unpaid.                                        *)
LookupOfPaid(r) ==
  LET hash == OrElse(HashOf(r), r.invoice) IN
  IF (r.method = "lookup_payment" /\ Cardinality(Forms(r)) # 1) \/ hash = None
  THEN Answer("BadRequest", None)
  ELSE IF FiledUnder(hash) = None \/ status[hash] = "pending"
       THEN Answer("NotFound", None) ELSE Answer("ok", hash)

(* lookup_payment and lookup_invoice.  The forms are counted before the    *)
(* hash is chosen, and by another rule.                                    *)
Lookup(r) ==
  LET hash == OrElse(HashOf(r), r.invoice) IN
  IF (r.method = "lookup_payment" /\ Cardinality(Forms(r)) # 1) \/ hash = None
  THEN Answer("BadRequest", None)
  ELSE IF FiledUnder(hash) = None
       THEN Answer("NotFound", None) ELSE Answer("ok", FiledUnder(hash))

-------------------------------------------------------------------------------
(* The store.                                                              *)

Reading == request # None

Untied(p) == \A q \in Listed(request) : q # p => updated[q] # updated[p]

(* ldk-node adds or updates a record, whatever the cause.                  *)
Change(p, s) ==
  /\ changes < MaxChanges
  /\ changes' = changes + 1
  /\ status' = [status EXCEPT ![p] = s]
  /\ updated' = [updated EXCEPT ![p] = now]
  /\ UNCHANGED <<now, walk>>
  /\ IF ~Reading THEN UNCHANGED <<drift, clear>>
     ELSE /\ drift' = IF p \in Listed(request) /\ p \notin Listed(request)' THEN "shrunk"
                      ELSE IF p \in Listed(request)' /\ drift = "still" THEN "grown"
                      ELSE drift
          /\ clear' = { q \in clear \ {p} : Untied(q)' }

Tick ==
  /\ now < MaxTime
  /\ now' = now + 1
  /\ UNCHANGED <<status, updated, changes, walk, drift, clear>>

-------------------------------------------------------------------------------
(* The walk.                                                               *)
Begin(r) ==
  /\ ~Reading
  /\ request' = r
  /\ off' = 0 /\ seen' = {}
  /\ drift' = "still"
  /\ UNCHANGED store
  /\ clear' = { p \in Listed(r) : Untied(p)' }

(* What the next response may hold.                                        *)
Responses ==
  { Shown(request, Page(o, Cardinality(Listed(request)), off, request.limit)) :
      o \in Orders(Listed(request)) }

Read ==
  /\ Reading
  /\ \E shown \in Responses :
       /\ Cardinality(shown) >= request.limit
       /\ seen' = seen \cup shown
  /\ off' = off + request.limit
  /\ UNCHANGED <<store, request, drift, clear>>

(* The page is short, and the client leaves.                               *)
Leave ==
  /\ Reading
  /\ \E shown \in Responses : Cardinality(shown) < request.limit
  /\ request' = None
  /\ off' = 0 /\ seen' = {}
  /\ drift' = "still" /\ clear' = {}
  /\ UNCHANGED store

-------------------------------------------------------------------------------
ListingsInit ==
  /\ status = [p \in Payments |-> "none"]
  /\ updated = [p \in Payments |-> 0]
  /\ now = 0 /\ changes = 0
  /\ request = None
  /\ off = 0 /\ seen = {}
  /\ drift = "still" /\ clear = {}

ListingsNext ==
  \/ \E p \in Payments, s \in {"pending", "succeeded", "failed"} : Change(p, s)
  \/ \E r \in Requests : Begin(r)
  \/ Tick \/ Read \/ Leave

ListingsSpec == ListingsInit /\ [][ListingsNext]_listing

-------------------------------------------------------------------------------
(* Every variable keeps its type; a walk is shown only what it asked for,  *)
(* and what its histories follow is where they say.                        *)
ListingsTypeOK ==
  /\ status \in [Payments -> {"none", "pending", "succeeded", "failed"}]
  /\ updated \in [Payments -> 0 .. now]
  /\ now \in 0 .. MaxTime
  /\ changes \in 0 .. MaxChanges
  /\ request \in Requests \cup {None}
  /\ off \in Nat
  /\ drift \in {"still", "grown", "shrunk"}
  /\ seen \subseteq Payments /\ clear \subseteq Payments
  /\ Reading =>
       /\ seen \subseteq (IF request.method = "list_invoices" THEN Incoming ELSE request.of)
       /\ clear \subseteq Listed(request)

(* How many listed payments were updated after p.                          *)
Position(p) == Cardinality({ q \in Listed(request) : updated[q] > updated[p] })

(* Pages are cut from a list that moves under the walk.  As long as        *)
(* nothing leaves the list, what stays unchanged slides down it and never  *)
(* up, so it is never skipped: a payment in the part of the list that the  *)
(* walk has gone through was shown, unless its state was not asked for.    *)
(* Payments last updated in one second are left out (`clear`): nothing     *)
(* orders them, and a page may cut among them in either way.               *)
NothingSkipped ==
  Reading /\ drift # "shrunk" =>
    \A p \in clear :
      Position(p) < off /\ p \in Shown(request, {p}) => p \in seen

(* An unchanged payment is shown twice only if the list has changed.       *)
NothingTwice ==
  Reading /\ drift = "still" =>
    \A shown \in Responses : shown \cap seen \cap clear = {}

(* A short page is the last: a walk that stops at one has been shown every *)
(* payment that was there and unchanged from beginning to end.  It is not  *)
(* so when list_invoices was asked for a state, which it filters by after  *)
(* the page is cut.                                                        *)
ShortPageIsLast ==
  Reading /\ drift # "shrunk"
    /\ (request.method = "list_invoices" => request.state = "any") =>
    \A shown \in Responses :
      Cardinality(shown) < request.limit => clear \subseteq seen \cup shown

(* list_invoices without an upper bound loses nothing from its list, since *)
(* it has unpaid invoices too: its walks skip nothing at all.              *)
InvoicesStayListed ==
  Reading /\ request.method = "list_invoices" /\ request.until = MaxTime =>
    drift # "shrunk"

(* What a listing showed can be looked up, however it has changed since: a *)
(* lookup that names that payment's hash and no other, in whatever form,   *)
(* is answered for it, or is refused for its form.  Only what ldk-node     *)
(* files under another id is listed and then never found by its hash (the  *)
(* PaymentId made of the hash in ldk_service.rs:957).                      *)
NamedBy(r) ==
  IF r.method = "lookup_invoice" THEN {r.payment_hash, r.invoice} \ {None}
  ELSE {r.transaction_id, r.payment_hash, r.invoice, r.lookup} \ {None, Unusable}
ListedIsFound ==
  \A r \in Lookups : \A p \in seen :
    NamedBy(r) = {p} /\ Lookup(r).code # "BadRequest" =>
      Lookup(r) = IF p \in NotByHash THEN Answer("NotFound", None) ELSE Answer("ok", p)

===============================================================================
