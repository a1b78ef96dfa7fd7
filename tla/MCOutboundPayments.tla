-------------------------- MODULE MCOutboundPayments --------------------------
(* A small instance of OutboundPayments: two concurrent requests, one      *)
(* invoice they may share, one payment of each other kind.                 *)
EXTENDS OutboundPayments

CONSTANTS c1, c2, i1, k1, o1, t1

Leg(kind, to) == [kind |-> kind, to |-> to]
Request(method, amount, legs) ==
  [method |-> method, amount |-> amount, uri |-> "parsed", legs |-> legs]

MCCalls == {c1, c2}
MCInvoices == {i1}
MCKeysends == {k1}
MCOfferPays == {o1}
MCTxids == {t1}

bolt11 == Leg("bolt11", i1)
bolt12 == Leg("bolt12", "ok")
onchain == Leg("onchain", "ok")

(* Every path through the front half: a plain, an empty, a malformed and a *)
(* zero-amount request of the single methods, and the URIs of `pay` with   *)
(* one, several and no usable instruction.                                 *)
MCRequests ==
  { Request("pay_invoice", "none", {bolt11}),
    Request("pay_invoice", "zero", {bolt11}),
    Request("pay_invoice", "some", {}),
    Request("pay_invoice", "some", {Leg("bolt11", None)}),
    Request("pay_keysend", "some", {Leg("keysend", "ok")}),
    Request("pay_keysend", "zero", {Leg("keysend", "ok")}),
    Request("pay_offer", "none", {bolt12}),
    Request("pay_onchain", "some", {onchain}),
    Request("pay", "some", {bolt11, bolt12, onchain}),
    Request("pay", "none", {bolt12}),
    Request("pay", "none", {onchain}),
    Request("pay", "some", {onchain}),
    Request("pay", "some", {}),
    [Request("pay", "none", {bolt11}) EXCEPT !.uri = "unparsable"] }

===============================================================================
