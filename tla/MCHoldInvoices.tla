----------------------------- MODULE MCHoldInvoices -----------------------------
(* A small instance of HoldInvoices: two hold invoices, the payment of an  *)
(* offer, two requests to settle or cancel, and one walk.                  *)
EXTENDS HoldInvoices, TLC

CONSTANTS h1, h2, o1, c1, c2

MCIncoming == {h1, h2}
MCOutgoing == {o1}
MCNotByHash == {o1}
MCHolds == {h1, h2}
MCCalls == {c1, c2}

Invoices(state, limit) ==
  [method |-> "list_invoices", state |-> state, from |-> 0, until |-> MaxTime,
   limit |-> limit]
Transactions(of, unpaid, until, limit) ==
  [method |-> "list_transactions", of |-> of, unpaid |-> unpaid, from |-> 0,
   until |-> until, limit |-> limit]

MCRequests ==
  { Invoices("any", 1), Invoices("settled", 1),
    Transactions(MCIncoming \cup MCOutgoing, "hidden", MaxTime, 1),
    Transactions(MCIncoming \cup MCOutgoing, "shown", 0, 2) }

Select(id, hash, invoice, type, lookup) ==
  [method |-> "lookup_payment", transaction_id |-> id, payment_hash |-> hash,
   invoice |-> invoice, payment_type |-> type, lookup |-> lookup]

MCLookups ==
  { Select(id, None, invoice, "given", lookup) :
      id \in {None, h1}, invoice \in {None, h2}, lookup \in {None, Unusable, o1} }
    \cup { Select(None, h1, h1, "absent", None), Select(None, None, None, "given", h2),
           Select(None, None, h1, "absent", h2), Select(None, h1, h2, "absent", None) }
    \cup { [method |-> "lookup_invoice", payment_hash |-> hash, invoice |-> invoice] :
             hash \in {None, h1}, invoice \in {None, h1} }

Symmetric == Permutations(MCCalls)
===============================================================================
