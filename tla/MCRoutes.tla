------------------------------- MODULE MCRoutes -------------------------------
(* The route search against a reference: the simple paths of the graph and *)
(* their fees, by enumeration.                                             *)
EXTENDS Routes, TLC

CONSTANTS us, a, b, d, n1, n2, n3, n4, n5

Flat(fee) == [min |-> 0, max |-> 9, base |-> fee, rate |-> 0]
Rated(rate) == [min |-> 2, max |-> 9, base |-> 0, rate |-> rate]
Small == [min |-> 0, max |-> 1, base |-> 0, rate |-> 0]

Channel(scid, one, two, out, back) ==
  [scid |-> scid, ends |-> <<one, two>>, policy |-> <<out, back>>]
Ask(dest, amount, max, graph) ==
  [method |-> "query_routes", dest |-> dest, amount |-> amount, max |-> max,
   graph |-> graph]

(* Every diamond between this node and d, with and without its edges and a *)
(* direct channel, cheap, dear, or of too small a size.                    *)
Diamonds ==
  { { Channel(1, us, a, Flat(0), o[1]), Channel(2, b, us, o[2], Flat(1)),
      Channel(3, a, b, o[3], o[4]), Channel(4, d, a, None, o[5]),
      Channel(5, b, d, o[6], None), Channel(6, us, d, o[7], Flat(0)) } :
      o \in {None, Flat(0)} \X {Flat(1), Rated(3)} \X {None, Flat(0), Rated(1)}
            \X {None, Flat(0)} \X {None, Flat(3), Small} \X {None, Flat(1), Rated(3)}
            \X {None, Flat(4), Small} }

(* A way to a of one hop and one of two, whichever is cheaper, and paths   *)
(* from a to d that only the shorter leaves within three hops.             *)
ShortCuts ==
  { { Channel(1, us, a, o[1], None), Channel(2, us, n1, Flat(0), None),
      Channel(3, n1, a, Flat(1), None), Channel(4, a, b, Flat(0), None),
      Channel(5, b, d, o[2], None), Channel(6, us, d, o[3], None),
      Channel(7, a, d, o[4], None) } :
      o \in {None, Flat(0), Flat(1), Rated(3)} \X {Flat(0), Rated(1)}
            \X {None, Flat(3), Small} \X {None, Flat(4), Rated(3)} }

SearchQueries ==
  { Ask(d, o[1], o[2], g) : o \in {1, 3} \X {None, 2} \cup {<<5, None>>},
                            g \in Diamonds \cup ShortCuts }
    \cup { Ask(n, 1, None, {}) : n \in {us, d, None} }
    \cup { [Ask(d, None, None, {}) EXCEPT !.method = "quote_payment"] }

(* A cheap path to a that is as long as the search follows, and a direct   *)
(* channel that costs more.                                                *)
DetourQueries ==
  { [Ask(d, 1, None, g) EXCEPT !.method = "quote_payment"] : g \in
      { { Channel(1, us, n1, Flat(0), None), Channel(2, n1, n2, Flat(0), None),
          Channel(3, n2, n3, Flat(0), None), Channel(4, n3, n4, Flat(0), None),
          Channel(5, n4, n5, Flat(0), None), Channel(6, n5, a, Flat(0), None),
          Channel(7, us, a, Flat(direct), None), Channel(8, a, d, Flat(0), None) } :
        direct \in 0 .. 40 } }

(* A rate that overflows the word beside a modest one.                     *)
RateQueries ==
  { Ask(d, 4, None, { Channel(1, us, a, Rated(x), None),
                      Channel(2, us, b, Flat(2), None),
                      Channel(3, a, d, Flat(0), None),
                      Channel(4, b, d, Flat(0), None) }) : x \in 0 .. 40 }

(* The simple paths from this node of up to n hops, as edge sequences.     *)
RECURSIVE SimplePaths(_, _)
SimplePaths(q, n) ==
  IF n = 0 THEN {<<>>}
  ELSE LET shorter == SimplePaths(q, n - 1)
           On(p) == {Us} \cup { p[i].to : i \in 1 .. Len(p) }
           Last(p) == IF p = <<>> THEN Us ELSE p[Len(p)].to
       IN  shorter \cup
           UNION { { Append(p, x) : x \in { y \in ExactEdges(q) :
                                              y.from = Last(p) /\ y.to \notin On(p) } } :
                   p \in shorter }

PathsToDest(q) ==
  { p \in SimplePaths(q, MaxHops + 1) : p # <<>> /\ p[Len(p)].to = q.dest }

ShortPaths(q) == { p \in PathsToDest(q) : Len(p) <= MaxHops }

-------------------------------------------------------------------------------
(* Claims of the source's comments.                                        *)

(* wallet.rs:640, "cannot reach": a node that answers so cannot reach the  *)
(* payee by a route it would have followed.                                *)
CannotReach ==
  (pc = "answered" /\ Searched /\ found = <<>>) => ShortPaths(query) = {}

(* ldk_service.rs:1215, "find lowest-fee paths": the first route is the    *)
(* lowest-fee one, for what its hops really charge.                        *)
LowestFee ==
  found # <<>> =>
    LET exact == { p \in PathsToDest(query) :
                     /\ Len(found[1].hops) = Len(p)
                     /\ \A k \in 1 .. Len(p) : found[1].hops[k].scid = p[k].scid }
    IN  \A p \in exact : \A o \in PathsToDest(query) : Fee(p) <= Fee(o)

===============================================================================
