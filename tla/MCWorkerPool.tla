------------------------------ MODULE MCWorkerPool ------------------------------
(* A small instance of WorkerPool: one worker, and two requests at a time  *)
(* to pay an invoice or a keysend, so that any wait holds every worker.    *)
EXTENDS WorkerPool

CONSTANTS c1, c2, i1, k1

MCCalls == {c1, c2}
MCInvoices == {i1}
MCKeysends == {k1}

Request(method, legs) ==
  [method |-> method, amount |-> "some", uri |-> "parsed", legs |-> legs]

MCRequests ==
  { Request("pay_invoice", { [kind |-> "bolt11", to |-> i1] }),
    Request("pay_keysend", { [kind |-> "keysend", to |-> "ok"] }) }
===============================================================================
