----------------------------- MODULE Routes_proofs -----------------------------
(* Theorems about Routes, for every network graph and every request.       *)
EXTENDS Routes, TLAPS, FiniteSetTheorems

(* A search has an amount and somewhere to go; nothing has been followed   *)
(* before it begins.                                                       *)
Phases ==
  /\ pc = "asked" => heap = {} /\ visited = {} /\ found = <<>>
  /\ pc = "searching" => query.amount \in Nat /\ query.dest # Us
  /\ heap # {} => query.amount \in Nat

(* Every entry of the heap is a path whose nodes, but for the last, have   *)
(* all been followed.                                                      *)
Followed(path) == \A i \in 0 .. Len(path) - 1 : NodeOn(path, i) \in visited

HeapPaths ==
  \A e \in heap : IsPathTo(e.at, e.path) /\ Followed(e.path)

(* A path is at most once in the heap, and not after it became a route.    *)
HeapDistinct ==
  /\ \A e, f \in heap : e.path = f.path => e = f
  /\ \A i \in 1 .. Len(found) : \A e \in heap : found[i].hops # e.path

FoundFollowed ==
  \A i \in 1 .. Len(found) : found[i].hops # <<>> /\ Followed(found[i].hops)

(* What is left to follow costs at least as much as any route found.       *)
Frontier == \A i \in 1 .. Len(found) : \A e \in heap : found[i].fee <= e.cost

IInv ==
  /\ TypeOK
  /\ Phases
  /\ HeapPaths
  /\ HeapDistinct
  /\ FoundFollowed
  /\ Frontier
  /\ RoutesArePaths
  /\ RoutesInOrder

EdgeType == [from : Nodes, to : Nodes, scid : Nat, fee : Nat]

-------------------------------------------------------------------------------
LEMMA FeeIsNat ==
  ASSUME NEW p \in Policies, NEW amount \in Nat
  PROVE  HopFee(p, amount) \in Nat
<1> DEFINE product == amount * p.rate
<1>1. p.base \in Nat /\ p.rate \in Nat
  BY DEF Policies
<1>2. product \in Nat
  BY <1>1
<1> HIDE DEF product
<1>3. product % WordSize \in Nat
  BY <1>2, RoutesAssumption
<1>4. (product % WordSize) \div Unit \in Nat
  BY <1>3, RoutesAssumption
<1> QED
  BY <1>1, <1>4 DEF HopFee, product

LEMMA EdgesAreEdges ==
  ASSUME NEW q \in Queries, q.amount \in Nat
  PROVE  Edges(q) \subseteq EdgeType
<1> SUFFICES ASSUME NEW c \in q.graph, NEW i \in {1, 2}, Carries(c.policy[i], q.amount)
             PROVE  Edge(c, i, HopFee(c.policy[i], q.amount)) \in EdgeType
  BY DEF Edges
<1>1. c \in ChannelType
  BY RoutesAssumption DEF QueryType
<1>2. c.scid \in Nat /\ c.ends[i] \in Nodes /\ c.ends[3 - i] \in Nodes
        /\ c.policy[i] \in Policies
  BY <1>1 DEF ChannelType, Carries
<1>3. HopFee(c.policy[i], q.amount) \in Nat
  BY <1>2, FeeIsNat
<1> QED
  BY <1>2, <1>3 DEF Edge, EdgeType

LEMMA SeqElement ==
  ASSUME NEW S, NEW s \in Seq(S), NEW i \in 1 .. Len(s)
  PROVE  s[i] \in S
OBVIOUS

LEMMA EmptySeq ==
  ASSUME NEW S
  PROVE  <<>> \in Seq(S)
OBVIOUS

LEMMA RouteTypes ==
  ASSUME TypeOK, NEW i \in 1 .. Len(found)
  PROVE  found[i].fee \in Nat /\ found[i].hops \in Seq(Hops)
<1>1. found[i] \in [fee : Nat, hops : Seq(Hops)]
  BY SeqElement DEF TypeOK
<1> QED
  BY <1>1

LEMMA AskedRoutes ==
  ASSUME NEW q \in Queries
  PROVE  MaxRoutes(q) \in Nat /\ 1 <= MaxRoutes(q)
BY RoutesAssumption DEF MaxRoutes, QueryType

(* Before the search its heap and its routes are empty.                    *)
THEOREM InitIInv == Init => IInv
<1> SUFFICES ASSUME Init PROVE IInv
  OBVIOUS
<1>1. TypeOK
  <2>1. Len(found) <= MaxRoutes(query)
    BY AskedRoutes DEF Init
  <2>2. found \in Seq([fee : Nat, hops : Seq(Hops)]) /\ error \in BOOLEAN
    BY EmptySeq DEF Init
  <2> QED
    BY <2>1, <2>2 DEF Init, TypeOK
<1> QED
  BY <1>1 DEF Init, IInv, Phases, HeapPaths, HeapDistinct, FoundFollowed, Frontier,
     RoutesArePaths, RoutesInOrder

-------------------------------------------------------------------------------
(* Steps that take entries off the heap and do nothing else to the search. *)
LEMMA QuietIInv ==
  ASSUME IInv, heap' \subseteq heap, pc' \in {pc, "answered"},
         error' \in BOOLEAN, UNCHANGED <<query, visited, found>>
  PROVE  IInv'
<1> USE DEF IInv
<1>1. TypeOK'
  BY DEF TypeOK
<1>2. Phases'
  BY DEF Phases
<1>3. HeapPaths'
  BY DEF HeapPaths, IsPathTo, IsPath, Followed
<1> QED
  BY <1>1, <1>2, <1>3
     DEF HeapDistinct, FoundFollowed, Frontier, RoutesArePaths, RoutesInOrder,
         IsPathTo, IsPath, Followed

LEMMA BeginStep == IInv /\ Begin => IInv'
<1> SUFFICES ASSUME IInv, Begin PROVE IInv'
  OBVIOUS
<1> USE DEF IInv
<1>1. CASE query.dest \in {None, Us}
  BY <1>1, QuietIInv DEF Begin, TypeOK, Phases
<1>2. CASE query.dest \notin {None, Us}
  <2> DEFINE root == [cost |-> 0, at |-> Us, path |-> <<>>]
  <2>1. heap' = {root} /\ pc' = "searching" /\ UNCHANGED <<query, visited, found, error>>
        /\ found = <<>> /\ query.amount # None
    BY <1>2 DEF Begin, Phases
  <2>2. query.amount \in Nat
    BY <2>1, RoutesAssumption DEF TypeOK, QueryType
  <2>3. TypeOK'
    BY <2>1, RoutesAssumption DEF TypeOK
  <2>4. IsPathTo(Us, <<>>) /\ Followed(<<>>)
    BY DEF IsPathTo, IsPath, NodeOn, Followed
  <2>5. HeapPaths'
    BY <2>1, <2>4 DEF HeapPaths, IsPathTo, IsPath, Followed
  <2> QED
    BY <1>2, <2>1, <2>2, <2>3, <2>5
       DEF Phases, HeapDistinct, FoundFollowed, Frontier, RoutesArePaths, RoutesInOrder
<1> QED
  BY <1>1, <1>2

(* A path that is popped at the payee is a route, dearer than those before *)
(* it and different from them.                                             *)
LEMMA ArriveStep == IInv /\ Arrive => IInv'
<1> SUFFICES ASSUME IInv, Arrive PROVE IInv'
  OBVIOUS
<1> USE DEF IInv
<1> PICK e \in heap :
      /\ Pops(e)
      /\ Len(e.path) <= MaxHops /\ e.at = query.dest
      /\ heap' = heap \ {e}
      /\ found' = Append(found, [fee |-> e.cost, hops |-> e.path])
  BY DEF Arrive, Pops
<1> DEFINE n == Len(found)
           route == [fee |-> e.cost, hops |-> e.path]
<1>1. /\ UNCHANGED <<query, pc, visited, error>>
      /\ pc = "searching" /\ n < MaxRoutes(query)
  BY DEF Arrive
<1>2. /\ e \in [cost : Nat, at : Nodes, path : Seq(Hops)]
      /\ found \in Seq([fee : Nat, hops : Seq(Hops)])
      /\ route \in [fee : Nat, hops : Seq(Hops)]
      /\ n \in Nat
  BY DEF TypeOK
<1>3. /\ Len(found') = n + 1 /\ found'[n + 1] = route
      /\ \A i \in 1 .. n : found'[i] = found[i]
      /\ found' \in Seq([fee : Nat, hops : Seq(Hops)])
  BY <1>2
<1>4. MaxRoutes(query) \in Nat
  BY AskedRoutes DEF TypeOK
<1>5. TypeOK'
  BY <1>1, <1>2, <1>3, <1>4 DEF TypeOK
<1>6. Phases'
  BY <1>1 DEF Phases
<1>7. HeapPaths'
  BY <1>1 DEF HeapPaths, IsPathTo, IsPath, Followed
<1>8. \A i \in 1 .. n + 1 : i \in 1 .. n \/ i = n + 1
  BY <1>2
<1>9. HeapDistinct'
  BY <1>3, <1>8 DEF HeapDistinct
<1>10. e.path # <<>>
  BY <1>1 DEF HeapPaths, IsPathTo, IsPath, NodeOn, Phases
<1>11. FoundFollowed'
  BY <1>1, <1>3, <1>8, <1>10 DEF FoundFollowed, HeapPaths, Followed
<1>12. Frontier'
  BY <1>2, <1>3, <1>8 DEF Frontier, Pops
<1>13. RoutesInOrder'
  BY <1>2, <1>3, <1>8 DEF RoutesInOrder, Frontier
<1>14. \A i \in 1 .. n + 1 : IsPathTo(query.dest, found'[i].hops)
                               /\ Len(found'[i].hops) <= MaxHops
  BY <1>3, <1>8 DEF RoutesArePaths, HeapPaths
<1>15. \A i, j \in 1 .. n + 1 : found'[i].hops = found'[j].hops => i = j
  BY <1>3, <1>8 DEF RoutesArePaths, HeapDistinct
<1>16. RoutesArePaths'
  BY <1>1, <1>3, <1>14, <1>15 DEF RoutesArePaths, IsPathTo, IsPath
<1> QED
  BY <1>5, <1>6, <1>7, <1>9, <1>11, <1>12, <1>13, <1>16

(* A path extended by an edge to a node that has not been followed is a    *)
(* path again.                                                             *)
LEMMA ExtendedPath ==
  ASSUME IInv, NEW e \in heap, query.amount \in Nat,
         NEW x \in Edges(query), x.from = e.at, x.to \notin visited, x.to # e.at
  PROVE  /\ Extend(e, x) \in [cost : Nat, at : Nodes, path : Seq(Hops)]
         /\ e.cost <= Extend(e, x).cost
         /\ IsPathTo(x.to, Extend(e, x).path)
         /\ Len(Extend(e, x).path) = Len(e.path) + 1
         /\ NodeOn(Extend(e, x).path, Len(e.path)) = e.at
         /\ \A i \in 0 .. Len(e.path) :
              NodeOn(Extend(e, x).path, i) \in visited \cup {e.at}
<1> USE DEF IInv
<1> DEFINE hop == [to |-> x.to, scid |-> x.scid, fee |-> x.fee]
           n == Len(e.path)
           new == Append(e.path, hop)
<1>1. e \in [cost : Nat, at : Nodes, path : Seq(Hops)] /\ n \in Nat
  BY DEF TypeOK
<1>2. x \in EdgeType
  BY EdgesAreEdges DEF TypeOK
<1>3. hop \in Hops
  BY <1>2 DEF EdgeType, Hops
<1>4. /\ Extend(e, x) = [cost |-> e.cost + x.fee, at |-> x.to, path |-> new]
      /\ new \in Seq(Hops) /\ Len(new) = n + 1
      /\ new[n + 1] = hop /\ \A i \in 1 .. n : new[i] = e.path[i]
  BY <1>1, <1>3 DEF Extend
<1>5. e.cost + x.fee \in Nat /\ e.cost <= e.cost + x.fee
  BY <1>1, <1>2 DEF EdgeType
<1>6. /\ \A i \in 0 .. n : NodeOn(new, i) = NodeOn(e.path, i)
      /\ NodeOn(new, n + 1) = x.to
  BY <1>1, <1>4 DEF NodeOn
<1>7. /\ IsPathTo(e.at, e.path) /\ Followed(e.path)
      /\ NodeOn(e.path, n) = e.at
  BY DEF HeapPaths, IsPathTo, IsPath
<1>8. \A i \in 0 .. n : NodeOn(new, i) \in visited \cup {e.at}
  BY <1>1, <1>6, <1>7 DEF Followed
<1>9. \A i \in 1 .. n + 1 :
        [from |-> NodeOn(new, i - 1), to |-> new[i].to,
         scid |-> new[i].scid, fee |-> new[i].fee] \in Edges(query)
  <2> TAKE i \in 1 .. n + 1
  <2>1. CASE i \in 1 .. n
    <3>1. i - 1 \in 0 .. n
      BY <1>1, <2>1
    <3>2. NodeOn(new, i - 1) = NodeOn(e.path, i - 1)
      BY <1>6, <3>1
    <3>3. new[i] = e.path[i]
      BY <1>4, <2>1
    <3>4. [from |-> NodeOn(e.path, i - 1), to |-> e.path[i].to,
           scid |-> e.path[i].scid, fee |-> e.path[i].fee] \in Edges(query)
      BY <1>7, <2>1 DEF IsPathTo, IsPath
    <3> HIDE DEF IInv, new
    <3> QED
      BY <3>2, <3>3, <3>4
  <2>2. CASE i = n + 1
    <3>1. NodeOn(new, i - 1) = x.from
      BY <1>1, <1>6, <1>7, <2>2
    <3>2. x = [from |-> x.from, to |-> x.to, scid |-> x.scid, fee |-> x.fee]
      BY <1>2 DEF EdgeType
    <3> QED
      BY <1>4, <2>2, <3>1, <3>2
  <2> QED
    BY <1>1, <2>1, <2>2
<1>10. \A i, j \in 0 .. n + 1 : NodeOn(new, i) = NodeOn(new, j) => i = j
  <2>1. \A i \in 0 .. n : NodeOn(new, i) # x.to
    BY <1>8
  <2>2. \A i, j \in 0 .. n : NodeOn(new, i) = NodeOn(new, j) => i = j
    BY <1>1, <1>6, <1>7 DEF IsPathTo, IsPath
  <2>3. \A i \in 0 .. n + 1 : i \in 0 .. n \/ i = n + 1
    BY <1>1
  <2> QED
    BY <1>6, <2>1, <2>2, <2>3
<1>11. IsPathTo(x.to, new)
  BY <1>4, <1>6, <1>9, <1>10 DEF IsPathTo, IsPath
<1> HIDE DEF new
<1> QED
  BY <1>1, <1>2, <1>4, <1>5, <1>6, <1>7, <1>8, <1>11 DEF EdgeType

LEMMA ExpandStep == IInv /\ Expand => IInv'
<1> SUFFICES ASSUME IInv, Expand PROVE IInv'
  OBVIOUS
<1> USE DEF IInv
<1> PICK e \in heap :
      /\ Pops(e) /\ e.at \notin visited
      /\ visited' = visited \cup {e.at}
      /\ heap' = (heap \ {e}) \cup
                   { Extend(e, x) : x \in { y \in Edges(query) :
                                              y.from = e.at /\ y.to \notin visited' } }
  BY DEF Expand, Pops
<1>1. UNCHANGED <<query, pc, found, error>> /\ pc = "searching"
  BY DEF Expand
<1>2. query.amount \in Nat
  BY <1>1 DEF Phases
<1> DEFINE New == { y \in Edges(query) : y.from = e.at /\ y.to \notin visited' }
<1>3. ASSUME NEW x \in New
      PROVE  /\ Extend(e, x) \in [cost : Nat, at : Nodes, path : Seq(Hops)]
             /\ e.cost <= Extend(e, x).cost
             /\ IsPathTo(x.to, Extend(e, x).path)
             /\ Len(Extend(e, x).path) = Len(e.path) + 1
             /\ NodeOn(Extend(e, x).path, Len(e.path)) = e.at
             /\ \A i \in 0 .. Len(e.path) : NodeOn(Extend(e, x).path, i) \in visited'
  BY <1>2, ExtendedPath
<1>4. e \in [cost : Nat, at : Nodes, path : Seq(Hops)] /\ Len(e.path) \in Nat
  BY DEF TypeOK
<1>5. \A f \in heap' : (f \in heap /\ f # e) \/ \E x \in New : f = Extend(e, x)
  OBVIOUS
<1>6. TypeOK'
  <2>1. heap' \subseteq [cost : Nat, at : Nodes, path : Seq(Hops)]
    BY <1>3, <1>5 DEF TypeOK
  <2> QED
    BY <1>1, <1>4, <2>1 DEF TypeOK
<1>7. Phases'
  BY <1>1, <1>2 DEF Phases
<1>8. ASSUME NEW path, Followed(path)
      PROVE  Followed(path)'
  BY <1>8 DEF Followed
<1>9. HeapPaths'
  <2>1. ASSUME NEW x \in New
        PROVE  IsPathTo(Extend(e, x).at, Extend(e, x).path) /\ Followed(Extend(e, x).path)'
    BY <1>3, <1>4 DEF Followed, Extend
  <2>2. \A f \in heap' : IsPathTo(f.at, f.path) /\ Followed(f.path)'
    BY <1>5, <1>8, <2>1 DEF HeapPaths
  <2> QED
    BY <1>1, <2>2 DEF HeapPaths, IsPathTo, IsPath
<1>10. ASSUME NEW x \in New, NEW path, path # <<>>, path \in Seq(Hops), Followed(path)
       PROVE  path # Extend(e, x).path
  <2>1. NodeOn(path, Len(path) - 1) \in visited
    BY <1>10 DEF Followed
  <2> QED
    BY <1>3, <1>4, <2>1
<1>11. \A x, y \in New : Extend(e, x).path = Extend(e, y).path => x = y
  <2> TAKE x, y \in New
  <2>1. x \in EdgeType /\ y \in EdgeType /\ x.from = y.from
    BY <1>2, EdgesAreEdges DEF TypeOK
  <2>2. HAVE Extend(e, x).path = Extend(e, y).path
  <2>3. Extend(e, x).path[Len(e.path) + 1] = Extend(e, y).path[Len(e.path) + 1]
    BY <2>2
  <2>4. [to |-> x.to, scid |-> x.scid, fee |-> x.fee]
          = [to |-> y.to, scid |-> y.scid, fee |-> y.fee]
    BY <1>4, <2>1, <2>3 DEF Extend
  <2> QED
    BY <2>1, <2>4 DEF EdgeType
<1>12. \A x \in New : Extend(e, x).path # <<>>
  BY <1>3, <1>4
<1>13. HeapDistinct'
  <2>1. ASSUME NEW f \in heap, NEW x \in New PROVE f.path # Extend(e, x).path
    <3>1. CASE f.path = <<>>
      BY <1>12, <3>1
    <3>2. CASE f.path # <<>>
      BY <1>10, <3>2 DEF HeapPaths, TypeOK
    <3> QED
      BY <3>1, <3>2
  <2>2. \A i \in 1 .. Len(found) : \A x \in New : found[i].hops # Extend(e, x).path
    BY <1>10, RouteTypes DEF FoundFollowed
  <2> QED
    BY <1>1, <1>5, <1>11, <2>1, <2>2 DEF HeapDistinct
<1>14. FoundFollowed'
  BY <1>1, <1>8 DEF FoundFollowed
<1>15. Frontier'
  <2>1. \A i \in 1 .. Len(found) : found[i].fee \in Nat /\ found[i].fee <= e.cost
    BY RouteTypes DEF Frontier
  <2>2. ASSUME NEW i \in 1 .. Len(found), NEW x \in New
        PROVE  found[i].fee <= Extend(e, x).cost
    BY <1>3, <1>4, <2>1
  <2> QED
    BY <1>1, <1>5, <2>2 DEF Frontier
<1>16. RoutesArePaths' /\ RoutesInOrder'
  BY <1>1 DEF RoutesArePaths, RoutesInOrder, IsPathTo, IsPath
<1> QED
  BY <1>6, <1>7, <1>9, <1>13, <1>14, <1>15, <1>16

(* No step of the search breaks the invariant.                             *)
THEOREM StepIInv == IInv /\ [Next]_vars => IInv'
<1> SUFFICES ASSUME IInv, [Next]_vars PROVE IInv'
  OBVIOUS
<1>1. CASE UNCHANGED vars
  BY <1>1, QuietIInv DEF vars, IInv, TypeOK
<1>2. CASE Refuse \/ Stop \/ Drop
  BY <1>2, QuietIInv DEF Refuse, Stop, Drop, IInv, TypeOK
<1> QED
  BY <1>1, <1>2, BeginStep, ArriveStep, ExpandStep DEF Next

(* The heap and the routes hold loop-free paths of the graph, in order, on *)
(* any graph.                                                              *)
THEOREM Invariance == Spec => []IInv
BY InitIInv, StepIInv, PTL DEF Spec

(* The search stays within its types and never collects more routes than   *)
(* it was asked for.                                                       *)
THEOREM TypeCorrect == Spec => []TypeOK
<1>1. IInv => TypeOK
  BY DEF IInv
<1> QED
  BY <1>1, Invariance, PTL

(* On any graph, every route is a loop-free chain of channels that carry   *)
(* the amount, from this node to the payee, and no route is listed twice.  *)
THEOREM RoutesAreUsable == Spec => []RoutesArePaths
<1>1. IInv => RoutesArePaths
  BY DEF IInv
<1> QED
  BY <1>1, Invariance, PTL

(* On any graph the routes come cheapest first, by the fees they report.   *)
THEOREM CheapestComesFirst == Spec => []RoutesInOrder
<1>1. IInv => RoutesInOrder
  BY DEF IInv
<1> QED
  BY <1>1, Invariance, PTL

-------------------------------------------------------------------------------
(* Fees of paths.  Facts about every hop of a path are proved by the least *)
(* hop for which they would fail.                                          *)
LEMMA LeastNat ==
  ASSUME NEW B, B \subseteq Nat, B # {}
  PROVE  \E m \in B : \A k \in B : m <= k
<1> DEFINE Ints == { 1 .. k : k \in B }
<1>1. Ints \subseteq FiniteSubsetsOf(Nat) /\ Ints # {}
  <2>1. \A k \in B : k \in Int
    OBVIOUS
  <2>2. \A k \in B : IsFiniteSet(1 .. k) /\ 1 .. k \subseteq Nat
    BY <2>1, FS_Interval
  <2> QED
    BY <2>2 DEF FiniteSubsetsOf
<1>2. PICK I \in Ints : \A J \in Ints : <<J, I>> \notin StrictSubsetOrdering(Nat)
  <2> HIDE DEF Ints
  <2> QED
    BY <1>1, FS_StrictSubsetOrderingWellFounded, WFMin
<1>3. PICK m \in B : I = 1 .. m
  OBVIOUS
<1>4. ASSUME NEW k \in B, k < m PROVE FALSE
  <2>1. 1 .. k \subseteq 1 .. m /\ m \in 1 .. m /\ m \notin 1 .. k
    BY <1>4
  <2>2. 1 .. k \in SUBSET Nat /\ 1 .. m \in SUBSET Nat /\ 1 .. k # 1 .. m
    BY <2>1
  <2>3. <<1 .. k, 1 .. m>> \in StrictSubsetOrdering(Nat)
    BY <2>1, <2>2 DEF StrictSubsetOrdering
  <2> QED
    BY <1>2, <1>3, <2>3
<1> QED
  BY <1>4

(* f is the sum of the fees of the first hops of path, for up to n hops.   *)
Sums(f, path, n) ==
  /\ f \in [0 .. n -> Nat]
  /\ f[0] = 0 /\ \A i \in 1 .. n : f[i] = f[i - 1] + path[i].fee

LEMMA SumsExist ==
  ASSUME NEW path \in Seq(Hops), NEW n \in 0 .. Len(path)
  PROVE  \E f : Sums(f, path, n)
<1> DEFINE B == { m \in 0 .. Len(path) : ~ \E f : Sums(f, path, m) }
<1> SUFFICES ASSUME B # {} PROVE FALSE
  OBVIOUS
<1>1. PICK m \in B : \A k \in B : m <= k
  <2>1. B \subseteq Nat
    OBVIOUS
  <2> HIDE DEF B
  <2> QED
    BY <2>1, LeastNat
<1>2. CASE m = 0
  <2>1. Sums([i \in 0 .. 0 |-> 0], path, 0)
    BY DEF Sums
  <2> QED
    BY <1>2, <2>1
<1>3. CASE m # 0
  <2>1. m - 1 \in 0 .. Len(path) /\ m - 1 \notin B
    BY <1>1, <1>3
  <2>2. PICK f : Sums(f, path, m - 1)
    BY <2>1
  <2> DEFINE g == [i \in 0 .. m |-> IF i = m THEN f[m - 1] + path[m].fee ELSE f[i]]
  <2>3. path[m].fee \in Nat /\ m \in Nat
    <3>1. m \in 1 .. Len(path)
      BY <1>3
    <3>2. path[m] \in Hops
      BY <3>1
    <3> QED
      BY <3>1, <3>2 DEF Hops
  <2>4. g \in [0 .. m -> Nat]
    BY <2>2, <2>3, <1>3 DEF Sums
  <2>5. g[0] = 0
    BY <2>2, <2>3, <1>3 DEF Sums
  <2>6. \A i \in 1 .. m : g[i] = g[i - 1] + path[i].fee
    BY <2>2, <2>3, <1>3 DEF Sums
  <2> QED
    BY <2>4, <2>5, <2>6 DEF Sums
<1> QED
  BY <1>2, <1>3

LEMMA SumsAgree ==
  ASSUME NEW p, NEW q, NEW n \in Nat, NEW f, NEW g, Sums(f, p, n), Sums(g, q, n),
         \A i \in 1 .. n : p[i].fee = q[i].fee
  PROVE  \A i \in 0 .. n : f[i] = g[i]
<1> DEFINE B == { i \in 0 .. n : f[i] # g[i] }
<1> SUFFICES ASSUME B # {} PROVE FALSE
  OBVIOUS
<1>1. PICK m \in B : \A k \in B : m <= k
  <2>1. B \subseteq Nat
    OBVIOUS
  <2> HIDE DEF B
  <2> QED
    BY <2>1, LeastNat
<1>2. m \in 1 .. n /\ m - 1 \in 0 .. n /\ m - 1 \notin B
  BY <1>1 DEF Sums
<1>3. f[m] = f[m - 1] + p[m].fee /\ g[m] = g[m - 1] + q[m].fee
  BY <1>2 DEF Sums
<1> QED
  BY <1>2, <1>3

LEMMA FeesAreSums ==
  ASSUME NEW path \in Seq(Hops)
  PROVE  Sums(FeesUpTo(path), path, Len(path))
<1> DEFINE Def(f) == [i \in 0 .. Len(path) |->
                        IF i = 0 THEN 0 ELSE f[i - 1] + path[i].fee]
<1>1. FeesUpTo(path) = CHOOSE f : f = Def(f)
  BY DEF FeesUpTo
<1>2. PICK f : Sums(f, path, Len(path))
  BY SumsExist
<1>3. f = Def(f)
  BY <1>2 DEF Sums
<1>4. FeesUpTo(path) = Def(FeesUpTo(path))
  BY <1>1, <1>3
<1> HIDE DEF Def
<1>5. ASSUME NEW g, g = Def(g) PROVE g = f
  <2> DEFINE B == { i \in 0 .. Len(path) : g[i] # f[i] }
  <2>1. B = {}
    <3> SUFFICES ASSUME B # {} PROVE FALSE
      OBVIOUS
    <3>1. PICK m \in B : \A k \in B : m <= k
      <4>1. B \subseteq Nat
        OBVIOUS
      <4> HIDE DEF B
      <4> QED
        BY <4>1, LeastNat
    <3>2. m # 0
      BY <1>3, <1>5 DEF Def
    <3>3. m - 1 \in 0 .. Len(path) /\ m - 1 \notin B
      BY <3>1, <3>2
    <3> QED
      BY <1>3, <1>5, <3>2, <3>3 DEF Def
  <2>2. \A i \in 0 .. Len(path) : g[i] = f[i]
    BY <2>1
  <2>3. /\ f = [i \in 0 .. Len(path) |-> f[i]]
        /\ g = [i \in 0 .. Len(path) |-> g[i]]
    BY <1>3, <1>5 DEF Def
  <2> QED
    BY <2>2, <2>3
<1> QED
  BY <1>2, <1>4, <1>5

LEMMA FeeOfNone == Fee(<<>>) = 0
<1>1. <<>> \in Seq(Hops) /\ Len(<<>>) = 0
  BY EmptySeq
<1> QED
  BY <1>1, FeesAreSums DEF Fee, Sums

LEMMA FeeExtended ==
  ASSUME NEW path \in Seq(Hops), NEW hop \in Hops
  PROVE  Fee(path) \in Nat /\ Fee(Append(path, hop)) = Fee(path) + hop.fee
<1> DEFINE new == Append(path, hop)
           n == Len(path)
           f == FeesUpTo(path)
           g == FeesUpTo(new)
<1>1. /\ new \in Seq(Hops) /\ Len(new) = n + 1 /\ n \in Nat
      /\ new[n + 1] = hop /\ \A i \in 1 .. n : new[i] = path[i]
  OBVIOUS
<1>2. Sums(f, path, n) /\ Sums(g, new, n + 1)
  BY <1>1, FeesAreSums
<1> DEFINE h == [i \in 0 .. n |-> g[i]]
<1> HIDE DEF new, n, f, g
<1>3. Sums(h, new, n)
  BY <1>1, <1>2 DEF Sums
<1> HIDE DEF h
<1>4. \A i \in 0 .. n : f[i] = h[i]
  BY <1>1, <1>2, <1>3, SumsAgree
<1>5. f[n] = g[n]
  BY <1>1, <1>4 DEF h
<1>6. g[n + 1] = g[n] + hop.fee /\ f[n] \in Nat
  BY <1>1, <1>2 DEF Sums
<1> QED
  BY <1>1, <1>5, <1>6 DEF Fee, f, g, new, n

-------------------------------------------------------------------------------
(* Costs are sums of hop fees; an entry is at most one hop too long.       *)
Costs ==
  /\ \A e \in heap : e.cost = Fee(e.path) /\ Len(e.path) <= MaxHops + 1
  /\ \A i \in 1 .. Len(found) : found[i].fee = Fee(found[i].hops)

(* Where a search has come to: the payee is never followed, and one that   *)
(* stops without a route has nothing left to follow.                       *)
Progress ==
  /\ query.dest \notin visited
  /\ pc = "searching" \/ found # <<>> => Searched
  /\ found # <<>> => pc # "asked"
  /\ pc = "answered" /\ Searched => heap = {} \/ found # <<>>

(* Reaching n for the given cost has been dealt with: n was followed at no *)
(* greater cost, it waits in the heap, it is the payee of a route found,   *)
(* or the hop limit gave it up.                                            *)
Accounted(dist, n, cost) ==
  \/ n \in visited /\ dist[n] <= cost
  \/ \E e \in heap : e.at = n /\ e.cost <= cost
  \/ n = query.dest /\ found # <<>> /\ found[1].fee <= cost
  \/ TooLong(Edges(query), n, cost)

(* dist is what each node cost when its channels were followed: no more    *)
(* than anything still in the heap, and every channel of a followed node   *)
(* is accounted for.                                                       *)
Dist ==
  { dist \in [visited -> Nat] :
      /\ \A v \in visited : \A e \in heap : dist[v] <= e.cost
      /\ Accounted(dist, Us, 0)
      /\ \A x \in Edges(query) :
           x.from \in visited => Accounted(dist, x.to, dist[x.from] + x.fee) }

Settled == pc # "asked" /\ Searched => Dist # {}

SInv == Costs /\ Progress /\ Settled

LEMMA PathHops ==
  ASSUME TypeOK, query.amount \in Nat, NEW n, NEW path \in Seq(Hops), IsPathTo(n, path)
  PROVE  path \in [1 .. Len(path) -> HopsOf(Edges(query))]
<1> SUFFICES ASSUME NEW i \in 1 .. Len(path) PROVE path[i] \in HopsOf(Edges(query))
  OBVIOUS
<1> DEFINE x == [from |-> NodeOn(path, i - 1), to |-> path[i].to,
                 scid |-> path[i].scid, fee |-> path[i].fee]
<1>1. x \in Edges(query)
  BY DEF IsPathTo, IsPath
<1>2. path[i] \in Hops
  BY SeqElement
<1>3. path[i] = [to |-> x.to, scid |-> x.scid, fee |-> x.fee]
  BY <1>2 DEF Hops
<1> HIDE DEF x
<1> QED
  BY <1>1, <1>3 DEF HopsOf

(* Weaker ways of having dealt with n.                                     *)
LEMMA TooLongWeakens ==
  ASSUME TypeOK, query.amount \in Nat, NEW n, NEW c \in Nat, NEW d \in Nat, c <= d,
         TooLong(Edges(query), n, c)
  PROVE  TooLong(Edges(query), n, d)
<1>1. PICK path \in [1 .. MaxHops + 1 -> HopsOf(Edges(query))] :
        IsPath(Edges(query), n, path) /\ Fee(path) <= c
  BY DEF TooLong
<1>2. HopsOf(Edges(query)) \subseteq Hops
  BY EdgesAreEdges DEF TypeOK, HopsOf, EdgeType, Hops
<1>3. path \in Seq(Hops) /\ Len(path) = MaxHops + 1
  BY <1>2, RoutesAssumption
<1>4. Fee(path) \in Nat
  BY <1>3, FeesAreSums, RoutesAssumption DEF Fee, Sums
<1> QED
  BY <1>1, <1>4 DEF TooLong

LEMMA GivenUp ==
  ASSUME IInv, Costs, NEW e \in heap, Len(e.path) > MaxHops
  PROVE  TooLong(Edges(query), e.at, e.cost)
<1>1. e.path \in Seq(Hops) /\ query.amount \in Nat /\ e.cost \in Nat
  BY DEF IInv, TypeOK, Phases
<1>2. Len(e.path) = MaxHops + 1
  BY <1>1, RoutesAssumption DEF Costs
<1>3. IsPathTo(e.at, e.path)
  BY DEF IInv, HeapPaths
<1>4. e.path \in [1 .. MaxHops + 1 -> HopsOf(Edges(query))]
  BY <1>1, <1>2, <1>3, PathHops DEF IInv
<1>5. Fee(e.path) <= e.cost
  BY <1>1 DEF Costs
<1> QED
  BY <1>3, <1>4, <1>5 DEF TooLong, IsPathTo

(* What has been dealt with stays so, if the entry that is popped is.      *)
LEMMA StillAccounted ==
  ASSUME NEW dist, NEW dist2, NEW e,
         query' = query, visited \subseteq visited', heap \ {e} \subseteq heap',
         \A v \in visited : dist2[v] = dist[v],
         found # <<>> => found' # <<>> /\ found'[1] = found[1],
         \A c \in Nat : e.cost <= c => Accounted(dist2, e.at, c)',
         NEW n, NEW c \in Nat, Accounted(dist, n, c)
  PROVE  Accounted(dist2, n, c)'
<1>1. CASE n \in visited /\ dist[n] <= c
  BY <1>1 DEF Accounted
<1>2. CASE \E o \in heap : o.at = n /\ o.cost <= c
  BY <1>2 DEF Accounted
<1>3. CASE n = query.dest /\ found # <<>> /\ found[1].fee <= c
  BY <1>3 DEF Accounted
<1>4. CASE TooLong(Edges(query), n, c)
  BY <1>4 DEF Accounted
<1> QED
  BY <1>1, <1>2, <1>3, <1>4 DEF Accounted

LEMMA InitSInv == Init => SInv
BY DEF Init, SInv, Costs, Progress, Settled

LEMMA QuietSInv ==
  ASSUME SInv, UNCHANGED <<query, heap, visited, found>>, pc' # pc => pc' = "answered",
         pc' # pc /\ Searched => pc = "searching" /\ (heap = {} \/ found # <<>>)
  PROVE  SInv'
<1> USE DEF SInv
<1>1. Costs' /\ Progress'
  BY DEF Costs, Progress, Searched
<1>2. Settled'
  BY DEF Settled, Dist, Accounted, Searched
<1> QED
  BY <1>1, <1>2

LEMMA BeginSInv == IInv /\ SInv /\ Begin => SInv'
<1> SUFFICES ASSUME IInv, SInv, Begin PROVE SInv'
  OBVIOUS
<1>1. heap = {} /\ visited = {} /\ found = <<>> /\ UNCHANGED <<query, visited, found>>
  BY DEF IInv, Phases, Begin
<1>2. CASE query.dest \in {None, Us}
  BY <1>1, <1>2 DEF Begin, SInv, Costs, Progress, Settled, Searched
<1>3. CASE query.dest \notin {None, Us}
  <2> DEFINE root == [cost |-> 0, at |-> Us, path |-> <<>>]
  <2>1. heap' = {root} /\ pc' = "searching" /\ query.amount # None
    BY <1>3 DEF Begin
  <2>2. Len(<<>>) <= MaxHops + 1
    BY RoutesAssumption
  <2>3. Costs' /\ Progress'
    BY <1>1, <1>3, <2>1, <2>2, FeeOfNone DEF Costs, Progress, Searched
  <2>4. PICK dist : dist = [v \in {} |-> 0]
    OBVIOUS
  <2>5. Accounted(dist, Us, 0)'
    BY <2>1 DEF Accounted
  <2>6. dist \in Dist'
    BY <1>1, <2>4, <2>5 DEF Dist
  <2> QED
    BY <2>3, <2>6 DEF SInv, Settled
<1> QED
  BY <1>2, <1>3

LEMMA DropSInv == IInv /\ SInv /\ Drop => SInv'
<1> SUFFICES ASSUME IInv, SInv, Drop PROVE SInv'
  OBVIOUS
<1> USE DEF SInv
<1> PICK e \in heap :
      /\ Len(e.path) > MaxHops \/ (e.at # query.dest /\ e.at \in visited)
      /\ heap' = heap \ {e}
  BY DEF Drop
<1>1. UNCHANGED <<query, pc, visited, found>> /\ pc = "searching"
  BY DEF Drop
<1>2. Costs' /\ Progress'
  BY <1>1 DEF Costs, Progress, Searched
<1>3. PICK dist : dist \in Dist
  BY <1>1 DEF Settled, Progress
<1>4. /\ dist \in [visited -> Nat]
      /\ \A v \in visited : \A o \in heap : dist[v] <= o.cost
      /\ Accounted(dist, Us, 0)
      /\ \A x \in Edges(query) :
           x.from \in visited => Accounted(dist, x.to, dist[x.from] + x.fee)
  BY <1>3 DEF Dist
<1>5. e.cost \in Nat /\ e.at \in Nodes /\ query.amount \in Nat /\ TypeOK
  BY <1>1 DEF IInv, TypeOK, Phases
<1>6. ASSUME NEW c \in Nat, e.cost <= c
      PROVE  Accounted(dist, e.at, c)'
  <2>1. CASE Len(e.path) > MaxHops
    <3>1. TooLong(Edges(query), e.at, e.cost)
      BY <2>1, GivenUp
    <3>2. TooLong(Edges(query), e.at, c)
      BY <1>5, <1>6, <3>1, TooLongWeakens
    <3> QED
      BY <1>1, <3>2 DEF Accounted
  <2>2. CASE e.at \in visited
    <3>1. dist[e.at] \in Nat /\ dist[e.at] <= e.cost
      BY <1>4, <2>2
    <3>2. dist[e.at] <= c
      BY <1>5, <1>6, <3>1
    <3> QED
      BY <1>1, <2>2, <3>2 DEF Accounted
  <2> QED
    BY <2>1, <2>2
<1>7. ASSUME NEW n, NEW c \in Nat, Accounted(dist, n, c)
      PROVE  Accounted(dist, n, c)'
  BY <1>1, <1>6, <1>7, StillAccounted
<1>8. ASSUME NEW x \in Edges(query), x.from \in visited
      PROVE  Accounted(dist, x.to, dist[x.from] + x.fee)'
  <2>1. dist[x.from] + x.fee \in Nat
    BY <1>4, <1>5, <1>8, EdgesAreEdges DEF TypeOK, EdgeType
  <2> QED
    BY <1>4, <1>7, <1>8, <2>1
<1>9. dist \in Dist'
  BY <1>1, <1>4, <1>7, <1>8 DEF Dist
<1> QED
  BY <1>2, <1>9 DEF Settled

LEMMA ArriveSInv == IInv /\ SInv /\ Arrive => SInv'
<1> SUFFICES ASSUME IInv, SInv, Arrive PROVE SInv'
  OBVIOUS
<1> USE DEF SInv
<1> PICK e \in heap :
      /\ e.at = query.dest
      /\ heap' = heap \ {e}
      /\ found' = Append(found, [fee |-> e.cost, hops |-> e.path])
  BY DEF Arrive
<1>1. UNCHANGED <<query, pc, visited>> /\ pc = "searching"
  BY DEF Arrive
<1> DEFINE n == Len(found)
           route == [fee |-> e.cost, hops |-> e.path]
<1>2. /\ e.cost \in Nat /\ e.path \in Seq(Hops) /\ n \in Nat
      /\ found \in Seq([fee : Nat, hops : Seq(Hops)])
      /\ route \in [fee : Nat, hops : Seq(Hops)]
  BY DEF IInv, TypeOK
<1>3. /\ Len(found') = n + 1 /\ found'[n + 1] = route /\ found' # <<>>
      /\ \A i \in 1 .. n : found'[i] = found[i]
  <2>1. Len(found') = n + 1 /\ found'[n + 1] = route
    BY <1>2
  <2>2. \A i \in 1 .. n : found'[i] = found[i]
    BY <1>2
  <2>3. Len(<<>>) = 0 /\ n + 1 # 0
    BY <1>2
  <2> QED
    BY <2>1, <2>2, <2>3
<1>4. \A i \in 1 .. n + 1 : i \in 1 .. n \/ i = n + 1
  BY <1>2
<1>5. Costs'
  BY <1>3, <1>4 DEF Costs
<1>6. Progress'
  BY <1>1, <1>3 DEF Progress, Searched
<1>7. found # <<>> => found'[1] = found[1] /\ found[1].fee <= e.cost
  <2>1. HAVE found # <<>>
  <2>2. 1 \in 1 .. n
    BY <1>2, <2>1
  <2> QED
    BY <1>3, <2>2 DEF IInv, Frontier
<1>8. found'[1].fee <= e.cost
  <2>1. CASE found = <<>>
    <3>1. n + 1 = 1
      BY <2>1
    <3> QED
      BY <1>2, <1>3, <3>1
  <2> QED
    BY <1>7, <2>1
<1>9. found'[1].fee \in Nat
  <2>1. found' \in Seq([fee : Nat, hops : Seq(Hops)]) /\ 1 \in 1 .. Len(found')
    BY <1>2, <1>3
  <2> HIDE DEF route
  <2>2. found'[1] \in [fee : Nat, hops : Seq(Hops)]
    BY <2>1, SeqElement
  <2> QED
    BY <2>2
<1>10. PICK dist : dist \in Dist
  BY <1>1 DEF Settled, Progress
<1>11. /\ dist \in [visited -> Nat]
       /\ \A v \in visited : \A o \in heap : dist[v] <= o.cost
       /\ Accounted(dist, Us, 0)
       /\ \A x \in Edges(query) :
            x.from \in visited => Accounted(dist, x.to, dist[x.from] + x.fee)
  BY <1>10 DEF Dist
<1>12. ASSUME NEW c \in Nat, e.cost <= c
       PROVE  Accounted(dist, e.at, c)'
  <2>1. found'[1].fee <= c
    BY <1>2, <1>8, <1>9, <1>12
  <2> QED
    BY <1>1, <1>3, <2>1 DEF Accounted
<1>13. ASSUME NEW m, NEW c \in Nat, Accounted(dist, m, c)
       PROVE  Accounted(dist, m, c)'
  BY <1>1, <1>3, <1>7, <1>12, <1>13, StillAccounted
<1>14. ASSUME NEW x \in Edges(query), x.from \in visited
       PROVE  Accounted(dist, x.to, dist[x.from] + x.fee)'
  <2>1. dist[x.from] + x.fee \in Nat
    BY <1>1, <1>11, <1>14, EdgesAreEdges DEF IInv, Phases, TypeOK, EdgeType
  <2> QED
    BY <1>11, <1>13, <1>14, <2>1
<1>15. dist \in Dist'
  BY <1>1, <1>11, <1>13, <1>14 DEF Dist
<1> QED
  BY <1>5, <1>6, <1>15 DEF Settled

(* The node that is followed now is as far as its entry says, and farther  *)
(* than no other entry: its channels lead to new entries, or back to nodes *)
(* that cost no more.                                                      *)
LEMMA ExpandSInv == IInv /\ SInv /\ Expand => SInv'
<1> SUFFICES ASSUME IInv, SInv, Expand PROVE SInv'
  OBVIOUS
<1> USE DEF SInv
<1> PICK e \in heap :
      /\ Pops(e) /\ e.at # query.dest /\ e.at \notin visited
      /\ Len(e.path) <= MaxHops
      /\ visited' = visited \cup {e.at}
      /\ heap' = (heap \ {e}) \cup
                   { Extend(e, x) : x \in { y \in Edges(query) :
                                              y.from = e.at /\ y.to \notin visited' } }
  BY DEF Expand, Pops
<1>1. UNCHANGED <<query, pc, found>> /\ pc = "searching"
  BY DEF Expand
<1>2. /\ e.cost \in Nat /\ e.path \in Seq(Hops) /\ Len(e.path) \in Nat
      /\ query.amount \in Nat /\ TypeOK
      /\ \A o \in heap : o.cost \in Nat /\ e.cost <= o.cost
  BY <1>1 DEF IInv, TypeOK, Phases, Pops
<1>3. Edges(query) \subseteq EdgeType
  BY <1>2, EdgesAreEdges DEF TypeOK
<1>4. \A o \in heap' :
        o \in heap \/ \E x \in Edges(query) : x.from = e.at /\ o = Extend(e, x)
  OBVIOUS
<1>5. Costs'
  <2>1. ASSUME NEW x \in Edges(query)
        PROVE  /\ Extend(e, x).cost = Fee(Extend(e, x).path)
               /\ Len(Extend(e, x).path) <= MaxHops + 1
    <3> DEFINE hop == [to |-> x.to, scid |-> x.scid, fee |-> x.fee]
    <3>1. hop \in Hops /\ hop.fee = x.fee
      BY <1>3, <2>1 DEF EdgeType, Hops
    <3>2. /\ Extend(e, x).path = Append(e.path, hop)
          /\ Extend(e, x).cost = e.cost + x.fee
      BY DEF Extend
    <3>3. e.cost = Fee(e.path)
      BY DEF Costs
    <3>4. Len(Append(e.path, hop)) <= MaxHops + 1
      BY <1>2, <3>1, RoutesAssumption
    <3> HIDE DEF hop
    <3> QED
      BY <1>2, <3>1, <3>2, <3>3, <3>4, FeeExtended
  <2> QED
    BY <1>1, <1>4, <2>1 DEF Costs
<1>6. Progress'
  BY <1>1 DEF Progress, Searched
<1>7. PICK dist : dist \in Dist
  BY <1>1 DEF Settled, Progress
<1>8. /\ dist \in [visited -> Nat]
      /\ \A v \in visited : \A o \in heap : dist[v] <= o.cost
      /\ Accounted(dist, Us, 0)
      /\ \A x \in Edges(query) :
           x.from \in visited => Accounted(dist, x.to, dist[x.from] + x.fee)
  BY <1>7 DEF Dist
<1>9. PICK dist2 : dist2 = [v \in visited \cup {e.at} |->
                              IF v = e.at THEN e.cost ELSE dist[v]]
  OBVIOUS
<1>10. /\ dist2 \in [visited' -> Nat] /\ dist2[e.at] = e.cost
       /\ \A v \in visited : dist2[v] = dist[v]
       /\ \A v \in visited' : dist2[v] \in Nat /\ dist2[v] <= e.cost
  BY <1>2, <1>8, <1>9
<1>11. ASSUME NEW v \in visited', NEW o \in heap'
       PROVE  dist2[v] <= o.cost
  <2>1. CASE o \in heap
    BY <1>2, <1>10, <2>1
  <2>2. ASSUME NEW x \in Edges(query), o = Extend(e, x) PROVE dist2[v] <= o.cost
    <3>1. o.cost = e.cost + x.fee /\ x.fee \in Nat
      BY <1>3, <2>2 DEF Extend, EdgeType
    <3> QED
      BY <1>2, <1>10, <3>1
  <2> QED
    BY <1>4, <2>1, <2>2
<1>12. ASSUME NEW c \in Nat, e.cost <= c
       PROVE  Accounted(dist2, e.at, c)'
  BY <1>10, <1>12 DEF Accounted
<1>13. ASSUME NEW n, NEW c \in Nat, Accounted(dist, n, c)
       PROVE  Accounted(dist2, n, c)'
  BY <1>1, <1>10, <1>12, <1>13, StillAccounted
<1>14. ASSUME NEW x \in Edges(query), x.from \in visited'
       PROVE  Accounted(dist2, x.to, dist2[x.from] + x.fee)'
  <2>1. CASE x.from \in visited
    <3>1. dist[x.from] + x.fee \in Nat
      BY <1>3, <1>8, <2>1 DEF EdgeType
    <3>2. Accounted(dist, x.to, dist[x.from] + x.fee)
      BY <1>8, <2>1
    <3>3. dist2[x.from] = dist[x.from]
      BY <1>10, <2>1
    <3> QED
      BY <1>13, <3>1, <3>2, <3>3
  <2>2. CASE x.from = e.at /\ x.to \in visited'
    <3>1. dist2[x.to] <= dist2[x.from] + x.fee
      BY <1>2, <1>3, <1>10, <2>2 DEF EdgeType
    <3> QED
      BY <2>2, <3>1 DEF Accounted
  <2>3. CASE x.from = e.at /\ x.to \notin visited'
    <3>1. Extend(e, x) \in heap'
      BY <2>3
    <3>2. /\ Extend(e, x).at = x.to
          /\ Extend(e, x).cost = dist2[x.from] + x.fee
      BY <1>10, <2>3 DEF Extend
    <3>3. dist2[x.from] + x.fee \in Nat
      BY <1>2, <1>3, <1>10, <2>3 DEF EdgeType
    <3> QED
      BY <3>1, <3>2, <3>3 DEF Accounted
  <2> QED
    BY <1>14, <2>1, <2>2, <2>3
<1>15. dist2 \in Dist'
  BY <1>1, <1>8, <1>10, <1>11, <1>13, <1>14 DEF Dist
<1> QED
  BY <1>5, <1>6, <1>15 DEF Settled

LEMMA StepSInv == IInv /\ SInv /\ [Next]_vars => SInv'
<1> SUFFICES ASSUME IInv, SInv, [Next]_vars PROVE SInv'
  OBVIOUS
<1>1. CASE UNCHANGED vars
  BY <1>1, QuietSInv DEF vars
<1>2. CASE Refuse
  BY <1>2, QuietSInv DEF Refuse, Searched
<1>3. CASE Stop
  <2>1. heap = {} \/ found # <<>>
    <3>1. MaxRoutes(query) \in Nat /\ 1 <= MaxRoutes(query)
      BY AskedRoutes DEF IInv, TypeOK
    <3> QED
      BY <1>3, <3>1 DEF Stop
  <2> QED
    BY <1>3, <2>1, QuietSInv DEF Stop
<1> QED
  BY <1>1, <1>2, <1>3, BeginSInv, DropSInv, ArriveSInv, ExpandSInv DEF Next

(* Costs are sums of fees, the search progresses in their order and the    *)
(* settled nodes are done with, on any graph.                              *)
THEOREM SearchInvariance == Spec => [](IInv /\ SInv)
BY InitIInv, StepIInv, InitSInv, StepSInv, PTL DEF Spec

-------------------------------------------------------------------------------
(* What a finished search, or one with a route, says of any path: by the   *)
(* first of its nodes that would be a counterexample.                      *)
LEMMA PathOutcome ==
  ASSUME IInv, SInv, Searched, pc # "asked", heap = {} \/ found # <<>>,
         NEW path \in Seq(Hops), IsPathTo(query.dest, path)
  PROVE  (found # <<>> /\ found[1].fee <= Fee(path)) \/ Hidden(Edges(query), path)
<1> USE DEF SInv
<1> DEFINE n == Len(path)
           f == FeesUpTo(path)
           at(i) == NodeOn(path, i)
<1>1. n \in Nat /\ Sums(f, path, n) /\ query.amount \in Nat /\ TypeOK
  BY FeesAreSums, RoutesAssumption DEF Searched, IInv, TypeOK, QueryType
<1>2. PICK dist \in [visited -> Nat] :
        /\ Accounted(dist, Us, 0)
        /\ \A x \in Edges(query) :
             x.from \in visited => Accounted(dist, x.to, dist[x.from] + x.fee)
  BY DEF Settled, Dist
<1>3. ASSUME found # <<>>
      PROVE  found[1].fee \in Nat /\ \A e \in heap : found[1].fee <= e.cost
  <2>1. 1 \in 1 .. Len(found)
    BY <1>3 DEF IInv, TypeOK
  <2> QED
    BY <2>1, RouteTypes DEF IInv, Frontier
<1>4. \A e \in heap : e.cost \in Nat
  BY DEF IInv, TypeOK
<1> DEFINE Good(i) == \/ at(i) \in visited /\ dist[at(i)] <= f[i]
                      \/ found # <<>> /\ found[1].fee <= f[i]
                      \/ \E j \in 0 .. n : TooLong(Edges(query), at(j), f[j])
<1> HIDE DEF n, f, at
<1>5. ASSUME NEW i \in 0 .. n, NEW c \in Nat, Accounted(dist, at(i), c), c <= f[i]
      PROVE  Good(i)
  <2>1. f[i] \in Nat
    BY <1>1 DEF Sums
  <2>2. CASE at(i) \in visited /\ dist[at(i)] <= c
    <3>1. dist[at(i)] \in Nat
      BY <1>2, <2>2
    <3> QED
      BY <1>5, <2>1, <2>2, <3>1
  <2>3. CASE \E e \in heap : e.at = at(i) /\ e.cost <= c
    <3>1. PICK e \in heap : e.cost <= c
      BY <2>3
    <3>2. found # <<>> /\ found[1].fee \in Nat /\ found[1].fee <= e.cost /\ e.cost \in Nat
      BY <1>3, <1>4, <3>1
    <3> QED
      BY <1>5, <2>1, <3>1, <3>2
  <2>4. CASE found # <<>> /\ found[1].fee <= c
    BY <1>3, <1>5, <2>1, <2>4
  <2>5. CASE TooLong(Edges(query), at(i), c)
    BY <1>1, <1>5, <2>1, <2>5, TooLongWeakens
  <2> QED
    BY <1>5, <2>2, <2>3, <2>4, <2>5 DEF Accounted
<1>6. Good(0)
  <2>1. at(0) = Us /\ 0 \in 0 .. n /\ f[0] = 0
    BY <1>1 DEF at, NodeOn, Sums
  <2> HIDE DEF Good
  <2> QED
    BY <1>2, <1>5, <2>1
<1>7. ASSUME NEW i \in 1 .. n, Good(i - 1)
      PROVE  Good(i)
  <2>1. /\ i \in 0 .. n /\ i - 1 \in 0 .. n
        /\ f[i] = f[i - 1] + path[i].fee /\ f[i - 1] \in Nat
        /\ at(i) = path[i].to
    BY <1>1 DEF Sums, at, NodeOn
  <2>2. path[i].fee \in Nat
    <3>1. path[i] \in Hops
      BY SeqElement DEF n
    <3> QED
      BY <3>1 DEF Hops
  <2>3. CASE at(i - 1) \in visited /\ dist[at(i - 1)] <= f[i - 1]
    <3>1. PICK x \in Edges(query) : x.from = at(i - 1) /\ x.to = at(i) /\ x.fee = path[i].fee
      BY <2>1 DEF IsPathTo, IsPath, at, n
    <3>2. dist[at(i - 1)] \in Nat
      BY <1>2, <2>3
    <3>3. dist[at(i - 1)] + path[i].fee \in Nat /\ dist[at(i - 1)] + path[i].fee <= f[i]
      BY <2>1, <2>2, <2>3, <3>2
    <3>4. Accounted(dist, at(i), dist[at(i - 1)] + path[i].fee)
      BY <1>2, <2>3, <3>1
    <3> HIDE DEF Good
    <3> QED
      BY <1>5, <2>1, <3>3, <3>4
  <2>4. CASE found # <<>> /\ found[1].fee <= f[i - 1]
    <3>1. found[1].fee <= f[i]
      BY <1>3, <2>1, <2>2, <2>4
    <3> QED
      BY <2>4, <3>1
  <2>5. CASE \E j \in 0 .. n : TooLong(Edges(query), at(j), f[j])
    BY <2>5
  <2> QED
    BY <1>7, <2>3, <2>4, <2>5
<1>8. Good(n)
  <2> DEFINE B == { i \in 0 .. n : ~Good(i) }
  <2> HIDE DEF Good
  <2>1. B = {}
    <3> SUFFICES ASSUME B # {} PROVE FALSE
      OBVIOUS
    <3>1. PICK m \in B : \A k \in B : m <= k
      <4>1. B \subseteq Nat
        BY <1>1
      <4> HIDE DEF B
      <4> QED
        BY <4>1, LeastNat
    <3>2. m \in 1 .. n /\ m - 1 \in 0 .. n /\ m - 1 \notin B
      BY <1>1, <1>6, <3>1
    <3> QED
      BY <1>7, <3>1, <3>2
  <2> QED
    BY <1>1, <2>1
<1>9. at(n) = query.dest
  BY DEF at, n, IsPathTo, IsPath
<1>10. at(n) \notin visited
  BY <1>9 DEF Progress
<1> QED
  BY <1>8, <1>10 DEF Fee, Hidden, at, n, f

LEMMA ExactWithoutOverflow ==
  ASSUME NEW q \in Queries, q.amount \in Nat, ~Overflows(q)
  PROVE  Edges(q) = ExactEdges(q)
<1>1. ASSUME NEW c \in q.graph, NEW d \in {1, 2}, Carries(c.policy[d], q.amount)
      PROVE  HopFee(c.policy[d], q.amount) = ExactFee(c.policy[d], q.amount)
  <2> DEFINE product == q.amount * c.policy[d].rate
  <2>1. c.policy[d] \in Policies
    BY <1>1, RoutesAssumption DEF QueryType, ChannelType, Carries
  <2>2. product \in Nat
    BY <2>1 DEF Policies
  <2>3. ~(product >= WordSize)
    BY <1>1 DEF Overflows
  <2>4. product % WordSize = product
    <3> HIDE DEF product
    <3> QED
      BY <2>2, <2>3, RoutesAssumption
  <2> QED
    BY <2>4 DEF HopFee, ExactFee
<1>2. ASSUME NEW c \in q.graph
      PROVE  { Edge(c, d, HopFee(c.policy[d], q.amount)) :
                 d \in { i \in {1, 2} : Carries(c.policy[i], q.amount) } }
               = { Edge(c, d, ExactFee(c.policy[d], q.amount)) :
                     d \in { i \in {1, 2} : Carries(c.policy[i], q.amount) } }
  BY <1>1
<1> QED
  BY <1>2 DEF Edges, ExactEdges

LEMMA ListedPaths ==
  ASSUME TypeOK, query.amount \in Nat, NEW n, NEW path \in PathsIn(Edges(query), n)
  PROVE  path \in Seq(Hops) /\ IsPathTo(n, path)
<1>1. PICK k \in 1 .. Deepest(Edges(query)) : path \in [1 .. k -> HopsOf(Edges(query))]
  BY DEF PathsIn
<1>2. HopsOf(Edges(query)) \subseteq Hops
  BY EdgesAreEdges DEF TypeOK, HopsOf, EdgeType, Hops
<1>3. k \in Nat
  BY <1>1
<1> QED
  BY <1>1, <1>2, <1>3 DEF PathsIn, IsPathTo

(* What the reported routes say of every path there is, of any length and  *)
(* by the fees the search computes: the first route is no dearer than a    *)
(* path the hop limit does not hide, and without a route all are hidden.   *)
Outcome ==
  \A path \in Seq(Hops) : Searched /\ IsPathTo(query.dest, path) =>
    /\ found # <<>> => found[1].fee <= Fee(path) \/ Hidden(Edges(query), path)
    /\ pc = "answered" /\ found = <<>> => Hidden(Edges(query), path)

LEMMA InvariantOutcome == IInv /\ SInv => Outcome
BY PathOutcome DEF Outcome, SInv, Progress

(* The search finds a cheapest path on any graph, up to the hop limit.     *)
THEOREM SearchIsExhaustive == Spec => []Outcome
BY SearchInvariance, InvariantOutcome, PTL

(* On any graph whose fees fit the word, the first route costs what it     *)
(* says and no path that the hop limit does not hide is cheaper.           *)
THEOREM FirstRouteIsCheapest == Spec => []FirstIsCheapest
<1>1. IInv /\ SInv => FirstIsCheapest
  <2> SUFFICES ASSUME IInv, SInv, found # <<>>, ~Overflows(query) PROVE FirstIsCheapest
    BY DEF FirstIsCheapest
  <2>1. TypeOK /\ Searched /\ query.amount \in Nat
    BY RoutesAssumption DEF IInv, SInv, Progress, Searched, TypeOK, QueryType
  <2>2. Edges(query) = ExactEdges(query)
    BY <2>1, ExactWithoutOverflow DEF TypeOK
  <2>3. 1 \in 1 .. Len(found)
    BY <2>1 DEF TypeOK
  <2>4. /\ IsPath(Edges(query), query.dest, found[1].hops)
        /\ Fee(found[1].hops) = found[1].fee
    BY <2>3 DEF IInv, SInv, RoutesArePaths, IsPathTo, Costs
  <2>5. ASSUME NEW path \in PathsIn(Edges(query), query.dest)
        PROVE  found[1].fee <= Fee(path) \/ Hidden(Edges(query), path)
    BY <2>1, <2>5, ListedPaths, InvariantOutcome DEF Outcome
  <2> QED
    BY <2>2, <2>4, <2>5 DEF FirstIsCheapest
<1> QED
  BY <1>1, SearchInvariance, PTL

(* On any graph, a search that ends without a route has met only paths     *)
(* that the hop limit hides.                                               *)
THEOREM NoRouteIsNoneThere == Spec => []NoneFoundIsNoneThere
<1>1. IInv /\ SInv => NoneFoundIsNoneThere
  <2> SUFFICES ASSUME IInv, SInv, pc = "answered", Searched, found = <<>>,
                      NEW path \in PathsIn(Edges(query), query.dest)
               PROVE  Hidden(Edges(query), path)
    BY DEF NoneFoundIsNoneThere
  <2>1. TypeOK /\ query.amount \in Nat
    BY RoutesAssumption DEF IInv, Searched, TypeOK, QueryType
  <2> QED
    BY <2>1, ListedPaths, InvariantOutcome DEF Outcome
<1> QED
  BY <1>1, SearchInvariance, PTL

(* Where no loop-free path is longer than the search follows, nothing is   *)
(* hidden: the first route is a lowest-fee path of all, and a node without *)
(* a route cannot reach the payee, as the comments say.                    *)
Shallow(E) ==
  \A n \in Nodes : \A path \in [1 .. MaxHops + 1 -> HopsOf(E)] : ~IsPath(E, n, path)

CommentsHold ==
  \A path \in Seq(Hops) : Searched /\ Shallow(Edges(query)) /\ IsPathTo(query.dest, path) =>
    /\ found # <<>> => found[1].fee <= Fee(path)
    /\ pc = "answered" => found # <<>>

(* The comments of the search hold of every graph without long paths.      *)
THEOREM ShallowGraphs == Spec => []CommentsHold
<1>1. Outcome => CommentsHold
  <2> SUFFICES ASSUME NEW path \in Seq(Hops), Shallow(Edges(query)),
                      Hidden(Edges(query), path)
               PROVE  FALSE
    BY DEF Outcome, CommentsHold
  <2>1. PICK i \in 0 .. Len(path) :
          TooLong(Edges(query), NodeOn(path, i), FeesUpTo(path)[i])
    BY DEF Hidden
  <2>2. NodeOn(path, i) \in Nodes
    <3>1. CASE i = 0
      BY <3>1, RoutesAssumption DEF NodeOn
    <3>2. CASE i # 0
      <4>1. path[i] \in Hops
        BY <2>1, <3>2, SeqElement
      <4> QED
        BY <3>2, <4>1 DEF NodeOn, Hops
    <3> QED
      BY <3>1, <3>2
  <2> QED
    BY <2>1, <2>2 DEF TooLong, Shallow
<1> QED
  BY <1>1, SearchIsExhaustive, PTL

===============================================================================
