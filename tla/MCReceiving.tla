------------------------------ MODULE MCReceiving ------------------------------
(* A small instance of Receiving: three requests at once, two offers and   *)
(* two addresses to issue.                                                 *)
EXTENDS Receiving, TLC

CONSTANTS c1, c2, c3, i1, o1, o2, a1, a2

MCCalls == {c1, c2, c3}
MCInvoices == {i1}
MCOffers == {o1, o2}
MCAddresses == {a1, a2}

Make(method, refused) == [method |-> method, amount |-> "some", refused |-> refused]
Receive(amount, entries) == [method |-> "receive", amount |-> amount, entries |-> entries]

MCRequests ==
  { Make("make_invoice", TRUE), [Make("make_invoice", FALSE) EXCEPT !.amount = "zero"],
    Make("make_invoice", FALSE), Make("make_offer", FALSE), Make("make_offer", TRUE),
    Make("make_new_address", FALSE),
    Receive("none", <<"bolt11", "bolt12", "onchain">>),
    Receive("some", <<"bolt11", "foreign">>),
    Receive("some", <<"bolt12", "bolt12">>),
    Receive("some", <<"onchain", "unknown", "onchain">>),
    [method |-> "disable_offer", offer |-> o1],
    [method |-> "disable_offer", offer |-> None],
    [method |-> "lookup_address", address |-> a1],
    [method |-> "list_offers", activeOnly |-> TRUE],
    [method |-> "list_addresses"] }

Symmetric == Permutations(MCCalls)
===============================================================================
