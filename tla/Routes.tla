-------------------------------- MODULE Routes --------------------------------
(***************************************************************************)
(* The route search, LdkService::find_routes (src/src/lightning/           *)
(* ldk_service.rs), and its two callers: query_routes (src/src/control.rs) *)
(* and quote_payment (src/src/wallet.rs).                                  *)
(*                                                                         *)
(* A cheapest-first search over a heap of partial paths.  Of entries that  *)
(* cost the same the code pops the one with the smallest node id, then     *)
(* path; here any of them may be next.  Channels are read once, before the *)
(* search; CLTV deltas are left out.                                       *)
(***************************************************************************)
EXTENDS Naturals, Sequences, FiniteSets

CONSTANTS
  Nodes,
  Us,        \* this node
  Queries,   \* the requests, each with the network graph it meets
  MaxHops,   \* hops of the longest path the search follows: 6 in the code
  Unit,      \* the denominator of a proportional fee: a million
  WordSize,  \* one more than the largest u64
  None

Policies == [min : Nat, max : Nat, base : Nat, rate : Nat]

(* A channel has a policy for each direction: 1 is one_to_two.             *)
ChannelType == [scid : Nat, ends : [{1, 2} -> Nodes],
                policy : [{1, 2} -> Policies \cup {None}]]

(* dest is None for a pubkey that does not parse; amount is None for a     *)
(* quote of an invoice that is unusable or names no amount.                *)
QueryType == [method : {"query_routes", "quote_payment"},
              dest : Nodes \cup {None}, amount : Nat \cup {None},
              max : Nat \cup {None}, graph : SUBSET ChannelType]

ASSUME RoutesAssumption ==
  /\ Us \in Nodes /\ None \notin Nodes \cup Nat \cup Policies
  /\ MaxHops \in Nat /\ Unit \in Nat \ {0} /\ WordSize \in Nat \ {0}
  /\ Queries \subseteq QueryType
  /\ \A q \in Queries :
       /\ q.method = "query_routes" => q.amount \in Nat
       /\ q.method = "quote_payment" => q.dest # None
       /\ \A c, d \in q.graph : c.scid = d.scid => c = d

VARIABLES
  query,    \* the request being served
  pc,       \* "asked", "searching", "answered"
  heap,     \* the partial paths still to be followed
  visited,  \* the nodes whose channels have been followed
  found,    \* the routes so far
  error     \* the handler refused the request

vars == <<query, pc, heap, visited, found, error>>

-------------------------------------------------------------------------------
(* Seeded defect: the product is not multiplied out before it is divided.  *)
HopFeeRoundedFirst(p, amount) == p.base + (amount \div Unit) * p.rate

(* base + amount * rate / 1_000_000, the product in 64 bits.               *)
HopFee(p, amount) == p.base + ((amount * p.rate) % WordSize) \div Unit

Carries(p, amount) == p # None /\ p.min <= amount /\ amount <= p.max

Edge(c, d, fee) ==
  [from |-> c.ends[d], to |-> c.ends[3 - d], scid |-> c.scid, fee |-> fee]

(* Seeded defect: both directions of a channel use the first policy.       *)
EdgesOneWay(q) ==
  UNION { { Edge(c, d, HopFee(c.policy[1], q.amount)) :
              d \in { i \in {1, 2} : Carries(c.policy[1], q.amount) } } : c \in q.graph }

(* The adjacency list: the directions that carry the amount.               *)
Edges(q) ==
  UNION { { Edge(c, d, HopFee(c.policy[d], q.amount)) :
              d \in { i \in {1, 2} : Carries(c.policy[i], q.amount) } } : c \in q.graph }

(* query_routes asks for at least one route, quote_payment for one.        *)
MaxRoutes(q) == IF q.max \in Nat /\ q.max > 1 THEN q.max ELSE 1

-------------------------------------------------------------------------------
Refuse ==
  /\ pc = "asked" /\ query.amount = None
  /\ pc' = "answered" /\ error' = TRUE
  /\ UNCHANGED <<query, heap, visited, found>>

(* No route to ourselves, or to what is not a node.                        *)
Begin ==
  /\ pc = "asked" /\ query.amount # None
  /\ IF query.dest \in {None, Us}
     THEN pc' = "answered" /\ UNCHANGED heap
     ELSE pc' = "searching" /\ heap' = {[cost |-> 0, at |-> Us, path |-> <<>>]}
  /\ UNCHANGED <<query, visited, found, error>>

(* Seeded defect: the heap gives its largest entry first.                  *)
PopsLargest(e) == e \in heap /\ \A o \in heap : o.cost <= e.cost

Pops(e) == e \in heap /\ \A o \in heap : e.cost <= o.cost

Stop ==
  /\ pc = "searching"
  /\ heap = {} \/ Len(found) >= MaxRoutes(query)
  /\ pc' = "answered"
  /\ UNCHANGED <<query, heap, visited, found, error>>

(* Too long, or another path got to this node first.                       *)
Drop ==
  /\ pc = "searching" /\ Len(found) < MaxRoutes(query)
  /\ \E e \in heap :
       /\ Pops(e)
       /\ Len(e.path) > MaxHops \/ (e.at # query.dest /\ e.at \in visited)
       /\ heap' = heap \ {e}
  /\ UNCHANGED <<query, pc, visited, found, error>>

(* Seeded defect: the number of routes is checked after the next is added. *)
ArriveOneMore ==
  /\ pc = "searching" /\ Len(found) <= MaxRoutes(query)
  /\ \E e \in heap :
       /\ Pops(e)
       /\ Len(e.path) <= MaxHops /\ e.at = query.dest
       /\ heap' = heap \ {e}
       /\ found' = Append(found, [fee |-> e.cost, hops |-> e.path])
  /\ UNCHANGED <<query, pc, visited, error>>

Arrive ==
  /\ pc = "searching" /\ Len(found) < MaxRoutes(query)
  /\ \E e \in heap :
       /\ Pops(e)
       /\ Len(e.path) <= MaxHops /\ e.at = query.dest
       /\ heap' = heap \ {e}
       /\ found' = Append(found, [fee |-> e.cost, hops |-> e.path])
  /\ UNCHANGED <<query, pc, visited, error>>

Extend(e, x) ==
  [cost |-> e.cost + x.fee, at |-> x.to,
   path |-> Append(e.path, [to |-> x.to, scid |-> x.scid, fee |-> x.fee])]

(* Seeded defects: a node is not marked when its channels are followed; it *)
(* is marked as soon as any path reaches it.                               *)
ExpandUnmarked ==
  /\ pc = "searching" /\ Len(found) < MaxRoutes(query)
  /\ \E e \in heap :
       /\ Pops(e)
       /\ Len(e.path) <= MaxHops /\ e.at # query.dest /\ e.at \notin visited
       /\ heap' = (heap \ {e}) \cup
                    { Extend(e, x) : x \in { y \in Edges(query) : y.from = e.at } }
  /\ UNCHANGED <<query, pc, visited, found, error>>

ExpandMarkingNext ==
  /\ pc = "searching" /\ Len(found) < MaxRoutes(query)
  /\ \E e \in heap :
       /\ Pops(e)
       /\ Len(e.path) <= MaxHops /\ e.at # query.dest
       /\ LET next == { x \in Edges(query) : x.from = e.at /\ x.to \notin visited }
          IN  /\ heap' = (heap \ {e}) \cup { Extend(e, x) : x \in next }
              /\ visited' = visited \cup {e.at} \cup { x.to : x \in next }
  /\ UNCHANGED <<query, pc, found, error>>

Expand ==
  /\ pc = "searching" /\ Len(found) < MaxRoutes(query)
  /\ \E e \in heap :
       /\ Pops(e)
       /\ Len(e.path) <= MaxHops /\ e.at # query.dest /\ e.at \notin visited
       /\ visited' = visited \cup {e.at}
       /\ heap' = (heap \ {e}) \cup
                    { Extend(e, x) : x \in { y \in Edges(query) :
                                               y.from = e.at /\ y.to \notin visited' } }
  /\ UNCHANGED <<query, pc, found, error>>

-------------------------------------------------------------------------------
Init ==
  /\ query \in Queries
  /\ pc = "asked"
  /\ heap = {} /\ visited = {} /\ found = <<>> /\ error = FALSE

Next == Refuse \/ Begin \/ Stop \/ Drop \/ Arrive \/ Expand

Spec == Init /\ [][Next]_vars

-------------------------------------------------------------------------------
Hops == [to : Nodes, scid : Nat, fee : Nat]

(* Every variable keeps its type, and no more routes are collected than    *)
(* were asked for.                                                         *)
TypeOK ==
  /\ query \in Queries
  /\ pc \in {"asked", "searching", "answered"}
  /\ heap \subseteq [cost : Nat, at : Nodes, path : Seq(Hops)]
  /\ visited \subseteq Nodes
  /\ found \in Seq([fee : Nat, hops : Seq(Hops)])
  /\ error \in BOOLEAN
  /\ Len(found) <= MaxRoutes(query)

NodeOn(path, i) == IF i = 0 THEN Us ELSE path[i].to

(* A loop-free chain of edges of E, from us to n.                          *)
IsPath(E, n, path) ==
  /\ NodeOn(path, Len(path)) = n
  /\ \A i \in 1 .. Len(path) :
       [from |-> NodeOn(path, i - 1), to |-> path[i].to,
        scid |-> path[i].scid, fee |-> path[i].fee] \in E
  /\ \A i, j \in 0 .. Len(path) : NodeOn(path, i) = NodeOn(path, j) => i = j

IsPathTo(n, path) == IsPath(Edges(query), n, path)

(* What a route is: a path to the payee that visits no node twice, of at   *)
(* most MaxHops hops; a route is listed once.                              *)
RoutesArePaths ==
  /\ \A i \in 1 .. Len(found) :
       IsPathTo(query.dest, found[i].hops) /\ Len(found[i].hops) <= MaxHops
  /\ \A i, j \in 1 .. Len(found) : found[i].hops = found[j].hops => i = j

(* The routes are listed cheapest first.                                   *)
RoutesInOrder ==
  \A i, j \in 1 .. Len(found) : i < j => found[i].fee <= found[j].fee

-------------------------------------------------------------------------------
(* The reference: all the paths there are, and what they charge.           *)

(* What a hop charges, without a limit on the size of integers.            *)
ExactFee(p, amount) == p.base + (amount * p.rate) \div Unit

ExactEdges(q) ==
  UNION { { Edge(c, d, ExactFee(c.policy[d], q.amount)) :
              d \in { i \in {1, 2} : Carries(c.policy[i], q.amount) } } : c \in q.graph }

Overflows(q) ==
  \E c \in q.graph : \E d \in {1, 2} :
    Carries(c.policy[d], q.amount) /\ q.amount * c.policy[d].rate >= WordSize

(* The fees of the first hops of a path, and of all of them.               *)
FeesUpTo(path) ==
  LET upTo[i \in 0 .. Len(path)] ==
        IF i = 0 THEN 0 ELSE upTo[i - 1] + path[i].fee
  IN  upTo

Fee(path) == FeesUpTo(path)[Len(path)]

(* The paths to n; a loop-free one enters no node twice.                   *)
HopsOf(E) == { [to |-> x.to, scid |-> x.scid, fee |-> x.fee] : x \in E }
Deepest(E) == Cardinality({ x.to : x \in E } \ {Us})
PathsIn(E, n) ==
  { path \in UNION { [1 .. k -> HopsOf(E)] : k \in 1 .. Deepest(E) } : IsPath(E, n, path) }

(* The hop limit hides a path: the search came to one of its nodes no      *)
(* dearer, along a path of one hop more than the limit, and gave that up.  *)
TooLong(E, n, fee) ==
  \E path \in [1 .. MaxHops + 1 -> HopsOf(E)] : IsPath(E, n, path) /\ Fee(path) <= fee
Hidden(E, path) ==
  \E i \in 0 .. Len(path) : TooLong(E, NodeOn(path, i), FeesUpTo(path)[i])

(* The first route charges what it says, and no path to the payee that the *)
(* hop limit does not hide is cheaper; unless a product overflows.         *)
FirstIsCheapest ==
  found # <<>> /\ ~Overflows(query) =>
    LET E == ExactEdges(query)
    IN  /\ IsPath(E, query.dest, found[1].hops) /\ Fee(found[1].hops) = found[1].fee
        /\ \A path \in PathsIn(E, query.dest) :
             found[1].fee <= Fee(path) \/ Hidden(E, path)

Searched == query.amount # None /\ query.dest \notin {None, Us}

(* No route is reported (quote_payment answers route_found: false) only    *)
(* where the hop limit hides every path.                                   *)
NoneFoundIsNoneThere ==
  (pc = "answered" /\ Searched /\ found = <<>>) =>
    \A path \in PathsIn(Edges(query), query.dest) : Hidden(Edges(query), path)

===============================================================================
