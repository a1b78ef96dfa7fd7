--------------------------- MODULE MCChannelControl ---------------------------
(* A small instance of ChannelControl: one channel with one peer, up to    *)
(* four requests at once, fees of 0 to 3 where only 0 and 1 fit.            *)
EXTENDS ChannelControl, TLC

CONSTANTS c1, c2, c3, c4, ch1, p1

MCCalls == {c1, c2, c3, c4}
MCChannels == {ch1}
MCPeers == {p1}
MCDefaultFees == [f \in Fields |-> 0]
SetRequest(b, r) ==
  [method |-> "set_fees", ch |-> ch1, htlc |-> FALSE,
   fees |-> [f \in Fields |-> IF f = "base" THEN b ELSE r]]

MCRequests ==
  { [method |-> "open", peer |-> p1, host |-> "given"],
    [method |-> "open", peer |-> p1, host |-> "missing"],
    [method |-> "connect", peer |-> p1, host |-> "given"],
    [method |-> "connect", peer |-> p1, host |-> "malformed"],
    [method |-> "disconnect", peer |-> p1],
    [method |-> "close", ch |-> ch1, force |-> TRUE],
    [method |-> "close", ch |-> ch1, force |-> FALSE],
    SetRequest(1, None), SetRequest(None, 1), SetRequest(3, 1),
    [SetRequest(1, 1) EXCEPT !.htlc = TRUE],
    [SetRequest(1, 1) EXCEPT !.ch = None] }

Symmetric == Permutations(MCCalls)
===============================================================================
