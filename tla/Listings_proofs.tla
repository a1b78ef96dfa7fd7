---------------------------- MODULE Listings_proofs ----------------------------
(* Theorems about Listings, for any payments, requests, page sizes and     *)
(* times.  They are stated of the steps, so that a specification of which  *)
(* the listing is a part can use them too.                                 *)
EXTENDS Listings, TLAPS, FiniteSetTheorems

(* The histories of a walk do what they are for: what is clear has its     *)
(* time to itself, and while nothing has changed, the part of it that was  *)
(* shown is behind the offset.                                             *)
ClearIsUntied == Reading => \A p \in clear : Untied(p)

SeenIsPassed ==
  Reading /\ drift = "still" => \A p \in clear \cap seen : Position(p) < off

LInv ==
  /\ ListingsTypeOK
  /\ ClearIsUntied
  /\ NothingSkipped
  /\ SeenIsPassed

-------------------------------------------------------------------------------
LEMMA RequestType ==
  ASSUME NEW r \in Requests
  PROVE  /\ r # None
         /\ r.method \in {"list_transactions", "list_invoices"}
         /\ r.limit \in Nat \ {0}
         /\ r.from \in 0 .. MaxTime /\ r.until \in 0 .. MaxTime
         /\ r.method = "list_transactions" => r.of \subseteq Payments
<1>1. r \in ListRequests /\ r # None
  BY ListingsAssumption
<1> QED
  BY <1>1 DEF ListRequests, Payments

LEMMA PaymentsFinite == IsFiniteSet(Payments)
BY ListingsAssumption, FS_Union DEF Payments

LEMMA ListedIsPayments ==
  ASSUME NEW r \in Requests
  PROVE  Listed(r) \subseteq Payments
BY RequestType DEF Listed, Wants, Payments

(* Anything that sorts a finite set lists all of it.                       *)
LEMMA OrdersEnumerate ==
  ASSUME NEW S, IsFiniteSet(S), NEW o \in Orders(S)
  PROVE  /\ Cardinality(S) \in Nat
         /\ o \in [1 .. Cardinality(S) -> S]
         /\ \A i, j \in 1 .. Cardinality(S) : i # j => o[i] # o[j]
         /\ \A p \in S : \E i \in 1 .. Cardinality(S) : o[i] = p
<1> DEFINE n == Cardinality(S)
<1>1. n \in Nat /\ o \in [1 .. n -> S]
  BY FS_CardinalityType DEF Orders
<1>2. \A i, j \in 1 .. n : i # j => o[i] # o[j]
  <2> SUFFICES ASSUME NEW i \in 1 .. n, NEW j \in 1 .. n, i # j PROVE o[i] # o[j]
    OBVIOUS
  <2>1. i < j \/ j < i
    BY <1>1
  <2> QED
    BY <2>1 DEF Orders
<1>3. o \in Injection(1 .. n, S)
  BY <1>1, <1>2 DEF Injection, IsInjective
<1>4. Cardinality(1 .. n) = n
  BY <1>1, FS_Interval
<1>5. o \in Surjection(1 .. n, S)
  BY <1>3, <1>4, FS_Injection
<1> QED
  BY <1>1, <1>2, <1>5 DEF Surjection

(* Where a payment has its time to itself, its place in any such list is   *)
(* one more than the number of payments updated after it.                  *)
LEMMA RankIsPosition ==
  ASSUME NEW S \in SUBSET Payments, NEW o \in Orders(S),
         updated \in [Payments -> Nat],
         NEW i \in 1 .. Cardinality(S),
         \A q \in S : q # o[i] => updated[q] # updated[o[i]]
  PROVE  Cardinality({ q \in S : updated[q] > updated[o[i]] }) = i - 1
<1> DEFINE n == Cardinality(S)
           T == { q \in S : updated[q] > updated[o[i]] }
           f == [k \in 1 .. i - 1 |-> o[k]]
<1>1. IsFiniteSet(S)
  BY PaymentsFinite, FS_Subset
<1>2. /\ n \in Nat
      /\ o \in [1 .. n -> S]
      /\ \A k, m \in 1 .. n : k # m => o[k] # o[m]
      /\ \A p \in S : \E k \in 1 .. n : o[k] = p
  BY <1>1, OrdersEnumerate
<1>3. \A k, m \in 1 .. n : k < m => updated[o[k]] >= updated[o[m]]
  BY DEF Orders
<1>4. \A k \in 1 .. n : updated[o[k]] \in Nat
  BY <1>2
<1>5. \A k \in 1 .. i - 1 : k \in 1 .. n /\ k # i /\ k < i
  BY <1>2
<1>6. \A k \in 1 .. i - 1 : o[k] \in T
  <2> SUFFICES ASSUME NEW k \in 1 .. i - 1 PROVE o[k] \in T
    OBVIOUS
  <2>1. o[k] \in S /\ o[k] # o[i] /\ updated[o[k]] >= updated[o[i]]
    BY <1>2, <1>3, <1>5
  <2> QED
    BY <2>1, <1>4, <1>5
<1>7. \A p \in T : \E k \in 1 .. i - 1 : o[k] = p
  <2> SUFFICES ASSUME NEW p \in T PROVE \E k \in 1 .. i - 1 : o[k] = p
    OBVIOUS
  <2> PICK k \in 1 .. n : o[k] = p
    BY <1>2
  <2>1. ~(i < k) /\ k # i
    BY <1>3, <1>4
  <2> QED
    BY <2>1, <1>2
<1>8. f \in [1 .. i - 1 -> T] /\ \A k \in 1 .. i - 1 : f[k] = o[k]
  BY <1>6
<1>9. f \in Injection(1 .. i - 1, T)
  BY <1>8, <1>5, <1>2 DEF Injection, IsInjective
<1>10. f \in Surjection(1 .. i - 1, T)
  BY <1>8, <1>7 DEF Surjection
<1>11. IsFiniteSet(1 .. i - 1) /\ Cardinality(1 .. i - 1) = i - 1
  <2>1. i \in Nat \ {0} /\ 1 \in Int /\ i - 1 \in Int
    BY <1>2
  <2>2. /\ IsFiniteSet(1 .. i - 1)
        /\ Cardinality(1 .. i - 1) = IF 1 > i - 1 THEN 0 ELSE (i - 1) - 1 + 1
    BY ONLY <2>1, FS_Interval
  <2> QED
    BY <2>1, <2>2
<1> HIDE DEF f
<1>12. Cardinality(T) = Cardinality(1 .. i - 1)
  BY <1>9, <1>10, <1>11, FS_Surjection
<1> QED
  BY <1>11, <1>12

(* What a response shows of the list, by place.                            *)
LEMMA ResponsePlaces ==
  ASSUME ListingsTypeOK, Reading, NEW shown \in Responses
  PROVE  \E o \in Orders(Listed(request)) :
           shown = Shown(request, Page(o, Cardinality(Listed(request)), off, request.limit))
BY DEF Responses

LEMMA ResponseIsListed ==
  ASSUME ListingsTypeOK, Reading, NEW shown \in Responses
  PROVE  shown \subseteq Listed(request)
<1> PICK o \in Orders(Listed(request)) :
      shown = Shown(request, Page(o, Cardinality(Listed(request)), off, request.limit))
  BY ResponsePlaces
<1>1. request \in Requests
  BY DEF ListingsTypeOK, Reading
<1>2. IsFiniteSet(Listed(request))
  BY <1>1, ListedIsPayments, PaymentsFinite, FS_Subset
<1>3. o \in [1 .. Cardinality(Listed(request)) -> Listed(request)]
  BY <1>2, OrdersEnumerate
<1>4. Cardinality(Listed(request)) \in Nat /\ off \in Nat /\ request.limit \in Nat
  BY <1>1, <1>2, FS_CardinalityType, RequestType DEF ListingsTypeOK
<1> QED
  BY <1>3, <1>4 DEF Shown, Page

(* A response shows of what is clear exactly the payments whose position   *)
(* is in the page, as far as their state was asked for.                    *)
LEMMA ClearIsPaged ==
  ASSUME LInv, Reading, NEW shown \in Responses, NEW p \in clear
  PROVE  /\ Position(p) \in Nat
         /\ p \in shown <=> /\ off <= Position(p)
                            /\ Position(p) < off + request.limit
                            /\ p \in Shown(request, {p})
<1> DEFINE L == Listed(request)
           n == Cardinality(L)
           limit == request.limit
<1> PICK o \in Orders(L) : shown = Shown(request, Page(o, n, off, limit))
  BY ResponsePlaces DEF LInv
<1>1. request \in Requests /\ L \subseteq Payments /\ off \in Nat /\ limit \in Nat
  BY ListedIsPayments, RequestType DEF LInv, ListingsTypeOK, Reading
<1>2. IsFiniteSet(L)
  BY <1>1, PaymentsFinite, FS_Subset
<1>3. /\ n \in Nat
      /\ o \in [1 .. n -> L]
      /\ \A i, j \in 1 .. n : i # j => o[i] # o[j]
      /\ \A q \in L : \E i \in 1 .. n : o[i] = q
  BY <1>2, OrdersEnumerate
<1>4. p \in L /\ Untied(p)
  BY DEF LInv, ListingsTypeOK, ClearIsUntied
<1>5. PICK i \in 1 .. n : o[i] = p
  BY <1>3, <1>4
<1>6. updated \in [Payments -> Nat]
  BY DEF LInv, ListingsTypeOK
<1>7. Position(p) = i - 1
  BY <1>1, <1>4, <1>5, <1>6, RankIsPosition DEF Untied, Position
<1>8. p \in Page(o, n, off, limit) <=> off < i /\ i <= off + limit
  BY <1>1, <1>3, <1>5 DEF Page
<1>9. p \in shown <=> p \in Page(o, n, off, limit) /\ p \in Shown(request, {p})
  BY DEF Shown
<1> QED
  BY <1>1, <1>3, <1>5, <1>7, <1>8, <1>9

-------------------------------------------------------------------------------
LEMMA InitLInv == ListingsInit => LInv
<1> SUFFICES ASSUME ListingsInit PROVE LInv
  OBVIOUS
<1>1. ~Reading
  BY DEF ListingsInit, Reading
<1>2. ListingsTypeOK
  BY <1>1, ListingsAssumption DEF ListingsInit, ListingsTypeOK
<1> QED
  BY <1>1, <1>2 DEF LInv, ClearIsUntied, NothingSkipped, SeenIsPassed

LEMMA BeginKeepsLInv ==
  ASSUME LInv, NEW r \in Requests, Begin(r)
  PROVE  LInv'
<1>1. Reading' /\ request' = r /\ Listed(request)' = Listed(r)
  BY RequestType DEF Begin, Reading, store, Listed, Wants, ShowsUnpaid
<1>2. ListingsTypeOK'
  <2>1. clear' \subseteq Listed(request)' /\ Listed(r) \subseteq Payments
    BY <1>1, ListedIsPayments DEF Begin
  <2> QED
    BY <1>1, <2>1 DEF LInv, ListingsTypeOK, Begin, store
<1>3. ClearIsUntied'
  BY DEF Begin, ClearIsUntied
<1>4. ASSUME NEW p PROVE ~(Position(p)' < 0)
  <2> DEFINE T == { q \in Listed(r) : updated[q] > updated[p] }
  <2>1. T \in SUBSET Payments
    BY ListedIsPayments
  <2>2. Cardinality(T) \in Nat
    BY ONLY <2>1, PaymentsFinite, FS_Subset, FS_CardinalityType
  <2>3. Position(p)' = Cardinality(T)
    BY <1>1 DEF Position, Begin, store
  <2> QED
    BY ONLY <2>2, <2>3
<1>5. off' = 0 /\ seen' = {}
  BY DEF Begin
<1> QED
  BY <1>2, <1>3, <1>4, <1>5 DEF LInv, NothingSkipped, SeenIsPassed

LEMMA LeaveKeepsLInv ==
  ASSUME LInv, Leave
  PROVE  LInv'
<1>1. ~Reading'
  BY DEF Leave, Reading
<1>2. ListingsTypeOK'
  BY <1>1 DEF LInv, ListingsTypeOK, Leave, store
<1> QED
  BY <1>1, <1>2 DEF LInv, ClearIsUntied, NothingSkipped, SeenIsPassed

LEMMA TickKeepsLInv ==
  ASSUME LInv, Tick
  PROVE  LInv'
<1>1. UNCHANGED <<status, updated, changes, request, off, seen, drift, clear>>
  BY DEF Tick, walk
<1>2. /\ Reading' <=> Reading
      /\ \A p : Position(p)' = Position(p)
      /\ \A p : Untied(p)' <=> Untied(p)
      /\ Listed(request)' = Listed(request)
      /\ \A p : Shown(request, {p})' = Shown(request, {p})
  BY <1>1 DEF Reading, Position, Untied, Listed, Wants, ShowsUnpaid, Shown, InvoiceState
<1>3. ListingsTypeOK'
  BY <1>1, <1>2, ListingsAssumption DEF LInv, ListingsTypeOK, Tick
<1> QED
  BY <1>1, <1>2, <1>3 DEF LInv, ClearIsUntied, NothingSkipped, SeenIsPassed

(* Reading moves the offset past exactly those clear payments that the     *)
(* response shows, or that have a state which was not asked for.           *)
LEMMA ReadKeepsLInv ==
  ASSUME LInv, Read
  PROVE  LInv'
<1>1. PICK shown \in Responses : seen' = seen \cup shown
  BY DEF Read
<1>2. UNCHANGED <<status, updated, now, changes, request, drift, clear>> /\ Reading
  BY DEF Read, store
<1>3. /\ Reading'
      /\ \A p : Position(p)' = Position(p)
      /\ \A p : Untied(p)' <=> Untied(p)
      /\ Listed(request)' = Listed(request)
      /\ \A p : Shown(request, {p})' = Shown(request, {p})
  BY <1>2 DEF Reading, Position, Untied, Listed, Wants, ShowsUnpaid, Shown, InvoiceState
<1>4. /\ request \in Requests
      /\ off \in Nat /\ request.limit \in Nat /\ off' = off + request.limit
  BY <1>2, RequestType DEF LInv, ListingsTypeOK, Read, Reading
<1>5. ListingsTypeOK'
  <2>1. shown \subseteq Listed(request) /\ Listed(request) \subseteq Wants(request)
    BY <1>2, ResponseIsListed DEF LInv, Listed
  <2>2. shown \subseteq Payments
    BY <2>1, <1>4, ListedIsPayments
  <2> QED
    BY <1>1, <1>2, <1>3, <1>4, <2>1, <2>2 DEF LInv, ListingsTypeOK, Wants
<1>6. \A p \in clear :
        /\ Position(p) \in Nat
        /\ p \in shown <=> /\ off <= Position(p)
                           /\ Position(p) < off + request.limit
                           /\ p \in Shown(request, {p})
  BY <1>2, ClearIsPaged
<1>7. NothingSkipped'
  <2> SUFFICES ASSUME drift # "shrunk", NEW p \in clear,
                      Position(p) < off + request.limit, p \in Shown(request, {p})
               PROVE  p \in seen \cup shown
    BY <1>1, <1>2, <1>3, <1>4 DEF NothingSkipped
  <2>1. off <= Position(p) => p \in shown
    BY <1>6
  <2>2. Position(p) < off => p \in seen
    BY <1>2 DEF LInv, NothingSkipped
  <2>3. off <= Position(p) \/ Position(p) < off
    BY <1>4, <1>6
  <2> QED
    BY <2>1, <2>2, <2>3
<1>8. SeenIsPassed'
  <2> SUFFICES ASSUME drift = "still", NEW p \in clear, p \in seen \cup shown
               PROVE  Position(p) < off + request.limit
    BY <1>1, <1>2, <1>3, <1>4 DEF SeenIsPassed
  <2>1. CASE p \in shown
    BY <2>1, <1>6
  <2>2. CASE p \in seen
    <3>1. Position(p) < off
      BY <2>2, <1>2 DEF LInv, SeenIsPassed
    <3>2. Position(p) \in Nat
      BY <1>6
    <3> QED
      BY <3>1, <3>2, <1>4
  <2> QED
    BY <2>1, <2>2
<1>9. ClearIsUntied'
  BY <1>2, <1>3 DEF LInv, ClearIsUntied
<1> QED
  BY <1>5, <1>7, <1>8, <1>9 DEF LInv

(* A change leaves what did not change where it was in the list, or moves  *)
(* it down: it can move up only where the changed payment leaves the list. *)
LEMMA UnchangedSlidesDown ==
  ASSUME LInv, Reading, NEW p \in Payments,
         NEW s \in {"pending", "succeeded", "failed"}, Change(p, s),
         NEW q \in Payments, q # p
  PROVE  /\ drift' # "shrunk" => Position(q)' >= Position(q)
         /\ drift' = "still" => Position(q)' = Position(q)
         /\ Position(q) \in Nat /\ Position(q)' \in Nat
<1> DEFINE S == { x \in Listed(request) : updated[x] > updated[q] }
           T == { x \in Listed(request)' : updated'[x] > updated'[q] }
<1>1. /\ request' = request /\ request \in Requests
      /\ status' = [status EXCEPT ![p] = s]
      /\ updated' = [updated EXCEPT ![p] = now]
      /\ drift' = IF p \in Listed(request) /\ p \notin Listed(request)' THEN "shrunk"
                  ELSE IF p \in Listed(request)' /\ drift = "still" THEN "grown"
                  ELSE drift
  BY DEF Change, walk, Reading, LInv, ListingsTypeOK
<1>2. /\ status \in [Payments -> {"none", "pending", "succeeded", "failed"}]
      /\ updated \in [Payments -> 0 .. now] /\ now \in Nat
  BY ListingsAssumption DEF LInv, ListingsTypeOK
<1>3. Listed(request) \subseteq Payments /\ Listed(request)' \subseteq Payments
  <2>1. Listed(request)' \subseteq Wants(request)
    BY <1>1 DEF Listed, Wants
  <2> QED
    BY <2>1, <1>1, RequestType, ListedIsPayments DEF Wants, Payments
<1>4. \A x \in Payments \ {p} :
        /\ x \in Listed(request)' <=> x \in Listed(request)
        /\ updated'[x] = updated[x]
  BY <1>1, <1>2 DEF Listed, Wants, ShowsUnpaid
<1>5. updated'[p] = now /\ \A x \in Payments : updated[x] \in Nat /\ updated[x] <= now
  BY <1>1, <1>2
<1>6. /\ IsFiniteSet(S) /\ Cardinality(S) \in Nat
      /\ IsFiniteSet(T) /\ Cardinality(T) \in Nat
  <2>1. S \in SUBSET Payments /\ T \in SUBSET Payments
    BY <1>3
  <2> QED
    BY ONLY <2>1, PaymentsFinite, FS_Subset, FS_CardinalityType
<1>7. Position(q) = Cardinality(S) /\ Position(q)' = Cardinality(T)
  BY <1>1 DEF Position
<1>8. ASSUME drift' # "shrunk" PROVE S \subseteq T
  <2> SUFFICES ASSUME NEW x \in S PROVE x \in T
    OBVIOUS
  <2>1. CASE x # p
    BY <2>1, <1>3, <1>4
  <2>2. CASE x = p
    <3>1. p \in Listed(request)'
      BY <1>1, <1>8, <2>2
    <3>2. updated'[p] > updated'[q]
      BY <2>2, <1>2, <1>4, <1>5
    <3> QED
      BY <2>2, <3>1, <3>2
  <2> QED
    BY <2>1, <2>2
<1>9. ASSUME drift' = "still" PROVE S = T
  <2>1. p \notin Listed(request) /\ p \notin Listed(request)'
    BY <1>1, <1>9
  <2> QED
    BY <2>1, <1>3, <1>4
<1>10. drift' # "shrunk" => Cardinality(S) <= Cardinality(T)
  <2>1. S \in SUBSET T => Cardinality(S) <= Cardinality(T)
    BY ONLY <1>6, FS_Subset
  <2> QED
    BY <2>1, <1>8
<1> QED
  BY <1>6, <1>7, <1>9, <1>10

LEMMA ChangeKeepsLInv ==
  ASSUME LInv, NEW p \in Payments,
         NEW s \in {"pending", "succeeded", "failed"}, Change(p, s)
  PROVE  LInv'
<1>1. /\ UNCHANGED <<now, request, off, seen>>
      /\ status' = [status EXCEPT ![p] = s]
      /\ updated' = [updated EXCEPT ![p] = now]
      /\ changes < MaxChanges /\ changes' = changes + 1
      /\ Reading' <=> Reading
  BY DEF Change, walk, Reading
<1>2. /\ status' \in [Payments -> {"none", "pending", "succeeded", "failed"}]
      /\ updated' \in [Payments -> 0 .. now']
      /\ now' \in 0 .. MaxTime
      /\ changes' \in 0 .. MaxChanges
      /\ off \in Nat /\ seen \subseteq Payments /\ clear \subseteq Payments
  BY <1>1, ListingsAssumption DEF LInv, ListingsTypeOK
<1>3. CASE ~Reading
  <2>1. UNCHANGED <<drift, clear>>
    BY <1>3 DEF Change
  <2>2. ListingsTypeOK'
    BY <1>1, <1>2, <1>3, <2>1 DEF LInv, ListingsTypeOK
  <2> QED
    BY <1>1, <1>3, <2>2 DEF LInv, ClearIsUntied, NothingSkipped, SeenIsPassed
<1>4. CASE Reading
  <2>1. /\ request \in Requests
        /\ clear' = { q \in clear \ {p} : Untied(q)' }
        /\ drift' \in {"still", "grown", "shrunk"}
        /\ drift' = "still" => drift = "still"
        /\ drift' # "shrunk" => drift # "shrunk"
    BY <1>4 DEF Change, LInv, ListingsTypeOK, Reading
  <2>2. \A q \in clear' : q \in clear /\ q \in Payments /\ q # p
    BY <1>2, <2>1
  <2>3. \A q \in clear' : q \in Listed(request)'
    <3> SUFFICES ASSUME NEW q \in clear' PROVE q \in Listed(request)'
      OBVIOUS
    <3>1. q \in Listed(request) /\ q \in Payments /\ q # p
      BY <1>4, <2>2 DEF LInv, ListingsTypeOK
    <3>2. status'[q] = status[q] /\ updated'[q] = updated[q]
      BY <1>1, <3>1 DEF LInv, ListingsTypeOK
    <3> QED
      BY <1>1, <3>1, <3>2 DEF Listed, Wants, ShowsUnpaid
  <2>4. ListingsTypeOK'
    BY <1>1, <1>2, <1>4, <2>1, <2>3 DEF LInv, ListingsTypeOK
  <2>5. ClearIsUntied'
    BY <2>1 DEF ClearIsUntied
  <2>6. NothingSkipped'
    <3> SUFFICES ASSUME drift' # "shrunk", NEW q \in clear',
                        Position(q)' < off, q \in Shown(request, {q})'
                 PROVE  q \in seen
      BY <1>1 DEF NothingSkipped
    <3>1. Position(q) < off
      BY <1>2, <1>4, <2>2, UnchangedSlidesDown
    <3>2. q \in Shown(request, {q})
      BY <1>1, <2>2 DEF Shown, InvoiceState, LInv, ListingsTypeOK
    <3> QED
      BY <3>1, <3>2, <1>4, <2>1, <2>2 DEF LInv, NothingSkipped
  <2>7. SeenIsPassed'
    <3> SUFFICES ASSUME drift' = "still", NEW q \in clear', q \in seen
                 PROVE  Position(q)' < off
      BY <1>1 DEF SeenIsPassed
    <3>1. Position(q) < off
      BY <1>4, <2>1, <2>2 DEF LInv, SeenIsPassed
    <3> QED
      BY <3>1, <1>4, <2>2, UnchangedSlidesDown
  <2> QED
    BY <2>4, <2>5, <2>6, <2>7 DEF LInv
<1> QED
  BY <1>3, <1>4

-------------------------------------------------------------------------------
LEMMA StepLInv == LInv /\ [ListingsNext]_listing => LInv'
<1> SUFFICES ASSUME LInv, [ListingsNext]_listing PROVE LInv'
  OBVIOUS
<1>1. CASE \E p \in Payments, s \in {"pending", "succeeded", "failed"} : Change(p, s)
  BY <1>1, ChangeKeepsLInv
<1>2. CASE \E r \in Requests : Begin(r)
  BY <1>2, BeginKeepsLInv
<1>3. CASE Tick \/ Read \/ Leave
  BY <1>3, TickKeepsLInv, ReadKeepsLInv, LeaveKeepsLInv
<1>4. CASE UNCHANGED listing
  <2>1. /\ UNCHANGED <<status, updated, now, changes, request, off, seen, drift, clear>>
    BY <1>4 DEF listing, store, walk
  <2>2. /\ Reading' <=> Reading
        /\ \A p : Position(p)' = Position(p)
        /\ \A p : Untied(p)' <=> Untied(p)
        /\ Listed(request)' = Listed(request)
        /\ \A p : Shown(request, {p})' = Shown(request, {p})
    BY <2>1 DEF Reading, Position, Untied, Listed, Wants, ShowsUnpaid, Shown, InvoiceState
  <2> QED
    BY <2>1, <2>2 DEF LInv, ListingsTypeOK, ClearIsUntied, NothingSkipped, SeenIsPassed
<1> QED
  BY <1>1, <1>2, <1>3, <1>4 DEF ListingsNext

(* A caller that walks the pages skips no payment that keeps its place,    *)
(* for any page size and any number of payments.                           *)
THEOREM ListingsInvariance == ListingsSpec => []LInv
BY InitLInv, StepLInv, PTL DEF ListingsSpec

(* While nothing has changed, a response shows nothing clear that another  *)
(* has shown.                                                              *)
LEMMA LInvShowsOnce == LInv => NothingTwice
<1> SUFFICES ASSUME LInv, Reading, drift = "still", NEW shown \in Responses,
                    NEW p \in shown \cap seen \cap clear
             PROVE  FALSE
  BY DEF NothingTwice
<1>1. off <= Position(p) /\ Position(p) \in Nat
  BY ClearIsPaged
<1>2. Position(p) < off /\ off \in Nat
  BY DEF LInv, SeenIsPassed, ListingsTypeOK
<1> QED
  BY <1>1, <1>2

(* A response that is not cut off by the limit is as long as the limit.    *)
LEMMA FullPage ==
  ASSUME LInv, Reading, NEW o \in Orders(Listed(request)),
         off + request.limit <= Cardinality(Listed(request))
  PROVE  Cardinality(Page(o, Cardinality(Listed(request)), off, request.limit))
           = request.limit
<1> DEFINE L == Listed(request)
           n == Cardinality(L)
           limit == request.limit
           P == Page(o, n, off, limit)
           f == [k \in 1 .. limit |-> o[off + k]]
<1>1. L \subseteq Payments /\ off \in Nat /\ limit \in Nat
  BY ListedIsPayments, RequestType DEF LInv, ListingsTypeOK, Reading
<1>2. IsFiniteSet(L)
  BY <1>1, PaymentsFinite, FS_Subset
<1>3. /\ n \in Nat
      /\ o \in [1 .. n -> L]
      /\ \A i, j \in 1 .. n : i # j => o[i] # o[j]
  BY <1>2, OrdersEnumerate
<1>4. \A k \in 1 .. limit : off + k \in 1 .. n /\ o[off + k] \in P
  BY <1>1, <1>3 DEF Page
<1>5. f \in [1 .. limit -> P] /\ \A k \in 1 .. limit : f[k] = o[off + k]
  BY <1>4
<1>6. f \in Injection(1 .. limit, P)
  <2>1. \A k, m \in 1 .. limit : k # m => f[k] # f[m]
    <3> SUFFICES ASSUME NEW k \in 1 .. limit, NEW m \in 1 .. limit, k # m
                 PROVE  f[k] # f[m]
      OBVIOUS
    <3>1. off + k # off + m
      BY <1>1
    <3> QED
      BY <3>1, <1>3, <1>4, <1>5
  <2> QED
    BY <1>5, <2>1 DEF Injection, IsInjective
<1>7. f \in Surjection(1 .. limit, P)
  <2>1. ASSUME NEW p \in P PROVE \E k \in 1 .. limit : f[k] = p
    <3> PICK j \in 1 .. n : off < j /\ j <= off + limit /\ o[j] = p
      BY DEF Page
    <3>1. j - off \in 1 .. limit /\ off + (j - off) = j
      BY <1>1, <1>3
    <3> QED
      BY <3>1, <1>5
  <2> QED
    BY <1>5, <2>1 DEF Surjection
<1>8. IsFiniteSet(1 .. limit) /\ Cardinality(1 .. limit) = limit
  <2>1. 1 \in Int /\ limit \in Int
    BY <1>1
  <2>2. /\ IsFiniteSet(1 .. limit)
        /\ Cardinality(1 .. limit) = IF 1 > limit THEN 0 ELSE limit - 1 + 1
    BY ONLY <2>1, FS_Interval
  <2> QED
    BY <1>1, <2>2
<1> HIDE DEF f, P
<1>9. Cardinality(P) = Cardinality(1 .. limit)
  BY <1>6, <1>7, <1>8, FS_Surjection
<1> QED
  BY <1>8, <1>9 DEF P

(* So what is behind a short page is behind the end of the list.           *)
LEMMA LInvShortPage == LInv => ShortPageIsLast
<1> SUFFICES ASSUME LInv, Reading, drift # "shrunk",
                    request.method = "list_invoices" => request.state = "any",
                    NEW shown \in Responses, Cardinality(shown) < request.limit,
                    NEW p \in clear
             PROVE  p \in seen \cup shown
  BY DEF ShortPageIsLast
<1> DEFINE L == Listed(request)
           n == Cardinality(L)
<1> PICK o \in Orders(L) : shown = Shown(request, Page(o, n, off, request.limit))
  BY ResponsePlaces DEF LInv
<1>1. p \in Shown(request, {p}) /\ shown = Page(o, n, off, request.limit)
  BY DEF Shown
<1>2. L \subseteq Payments /\ off \in Nat /\ request.limit \in Nat
  BY ListedIsPayments, RequestType DEF LInv, ListingsTypeOK, Reading
<1>3. IsFiniteSet(L) /\ n \in Nat
  BY <1>2, PaymentsFinite, FS_Subset, FS_CardinalityType
<1>4. ~(off + request.limit <= n)
  <2> SUFFICES ASSUME off + request.limit <= n PROVE FALSE
    OBVIOUS
  <2>1. Cardinality(shown) = request.limit
    BY <1>1, FullPage
  <2> QED
    BY <2>1, <1>2
<1>5. Position(p) \in Nat /\ Position(p) < n
  <2> DEFINE T == { q \in L : updated[q] > updated[p] }
  <2>1. p \in L /\ p \notin T
    BY <1>2 DEF LInv, ListingsTypeOK
  <2>2. T \in SUBSET L /\ T # L
    BY <2>1
  <2>3. Cardinality(T) <= n /\ Cardinality(T) # n /\ Cardinality(T) \in Nat
    BY ONLY <2>2, <1>3, FS_Subset, FS_CardinalityType
  <2> QED
    BY <2>3, <1>3 DEF Position
<1>6. CASE Position(p) < off
  BY <1>1, <1>6 DEF LInv, NothingSkipped
<1>7. CASE off <= Position(p)
  <2>1. Position(p) < off + request.limit
    BY <1>2, <1>3, <1>4, <1>5
  <2> QED
    BY <1>1, <1>7, <2>1, ClearIsPaged
<1> QED
  BY <1>2, <1>5, <1>6, <1>7

(* An incoming payment cannot leave a listing of invoices by changing: no  *)
(* status hides it, and its time of update only grows.                     *)
LEMMA StepStaysListed ==
  LInv /\ InvoicesStayListed /\ [ListingsNext]_listing => InvoicesStayListed'
<1> SUFFICES ASSUME LInv, InvoicesStayListed, [ListingsNext]_listing,
                    Reading', request'.method = "list_invoices", request'.until = MaxTime
             PROVE  drift' # "shrunk"
  BY DEF InvoicesStayListed
<1>1. CASE \E r \in Requests : Begin(r)
  BY <1>1 DEF Begin
<1>2. CASE Tick \/ Read \/ UNCHANGED listing
  <2>1. UNCHANGED <<request, drift>>
    BY <1>2 DEF Tick, walk, Read, listing
  <2> QED
    BY <2>1 DEF InvoicesStayListed, Reading
<1>3. CASE Leave
  BY <1>3 DEF Leave
<1>4. ASSUME NEW p \in Payments, NEW s \in {"pending", "succeeded", "failed"}, Change(p, s)
      PROVE  drift' # "shrunk"
  <2>1. /\ request' = request /\ now' = now
        /\ status' = [status EXCEPT ![p] = s]
        /\ updated' = [updated EXCEPT ![p] = now]
        /\ drift' = IF ~Reading THEN drift
                    ELSE IF p \in Listed(request) /\ p \notin Listed(request)' THEN "shrunk"
                    ELSE IF p \in Listed(request)' /\ drift = "still" THEN "grown"
                    ELSE drift
    BY <1>4 DEF Change, walk
  <2>2. Reading /\ request \in Requests /\ drift # "shrunk"
    BY <2>1 DEF InvoicesStayListed, Reading, LInv, ListingsTypeOK
  <2>3. request.method = "list_invoices" /\ request.until = MaxTime
    BY <2>1
  <2>4. ASSUME p \in Listed(request) PROVE p \in Listed(request)'
    <3>1. p \in Wants(request) /\ request.from <= updated[p] /\ p \in Payments
      BY <2>4 DEF Listed
    <3>2. /\ status'[p] = s /\ updated'[p] = now
          /\ updated[p] \in 0 .. now /\ now \in 0 .. MaxTime
      BY <2>1 DEF LInv, ListingsTypeOK
    <3>3. request.from <= now /\ now <= request.until
      BY <2>2, <2>3, <3>1, <3>2, RequestType, ListingsAssumption
    <3> QED
      BY <2>1, <2>3, <3>1, <3>2, <3>3 DEF Listed, Wants, ShowsUnpaid
  <2> QED
    BY <2>1, <2>2, <2>4
<1> QED
  BY <1>1, <1>2, <1>3, <1>4 DEF ListingsNext

LEMMA InitStaysListed == ListingsInit => InvoicesStayListed
BY DEF ListingsInit, InvoicesStayListed

-------------------------------------------------------------------------------
(* ListedIsFound.  A record is never taken out of the store, so what a     *)
(* walk was shown stays there for a lookup.                                *)
SeenOnRecord == \A p \in seen : status[p] # "none"

LEMMA InitSeenOnRecord == ListingsInit => SeenOnRecord
BY DEF ListingsInit, SeenOnRecord

LEMMA StepSeenOnRecord ==
  LInv /\ SeenOnRecord /\ [ListingsNext]_listing => SeenOnRecord'
<1> SUFFICES ASSUME LInv, SeenOnRecord, [ListingsNext]_listing
             PROVE  SeenOnRecord'
  OBVIOUS
<1>1. ASSUME NEW p \in Payments, NEW s \in {"pending", "succeeded", "failed"}, Change(p, s)
      PROVE  SeenOnRecord'
  BY <1>1 DEF Change, walk, SeenOnRecord, LInv, ListingsTypeOK
<1>2. CASE Read
  <2>1. PICK shown \in Responses : seen' = seen \cup shown
    BY <1>2 DEF Read
  <2>2. Reading /\ status' = status
    BY <1>2 DEF Read, store
  <2>3. \A p \in shown : status[p] # "none"
    BY <2>2, ResponseIsListed DEF LInv, Listed
  <2> QED
    BY <2>1, <2>2, <2>3 DEF SeenOnRecord
<1>3. CASE (\E r \in Requests : Begin(r)) \/ Leave
  BY <1>3 DEF Begin, Leave, SeenOnRecord
<1>4. CASE Tick \/ UNCHANGED listing
  BY <1>4 DEF Tick, listing, store, walk, SeenOnRecord
<1> QED
  BY <1>1, <1>2, <1>3, <1>4 DEF ListingsNext

(* A lookup that is not refused looks for one of the hashes it names.      *)
LEMMA LookupIsNamed ==
  ASSUME NEW r \in Lookups, Lookup(r).code # "BadRequest"
  PROVE  OrElse(HashOf(r), r.invoice) \in NamedBy(r)
<1>1. OrElse(HashOf(r), r.invoice) # None
  BY DEF Lookup, Answer
<1>2. r \in LookupRequests
  BY ListingsAssumption
<1>3. CASE r.method = "lookup_invoice"
  BY <1>1, <1>3 DEF OrElse, HashOf, NamedBy
<1>4. CASE r.method = "lookup_payment"
  <2>1. /\ r.transaction_id \in Selector /\ r.payment_hash \in Selector
        /\ r.invoice \in Selector /\ r.lookup \in Selector \cup {Unusable}
    BY <1>2, <1>4 DEF LookupRequests
  <2>2. None # Unusable => \A x \in Selector : x # Unusable
    BY ListingsAssumption DEF Selector
  <2> QED
    BY <1>1, <1>4, <2>1, <2>2 DEF OrElse, HashOf, NamedBy
<1> QED
  BY <1>2, <1>3, <1>4 DEF LookupRequests

LEMMA FoundIfSeen ==
  ASSUME SeenOnRecord, None \notin Payments, seen \subseteq Payments
  PROVE  ListedIsFound
<1> SUFFICES ASSUME NEW r \in Lookups, NEW p \in seen, NamedBy(r) = {p},
                    Lookup(r).code # "BadRequest"
             PROVE  Lookup(r) = IF p \in NotByHash THEN Answer("NotFound", None)
                                ELSE Answer("ok", p)
  BY DEF ListedIsFound
<1>1. OrElse(HashOf(r), r.invoice) = p
  BY LookupIsNamed
<1>2. Lookup(r) = IF FiledUnder(p) = None THEN Answer("NotFound", None)
                  ELSE Answer("ok", FiledUnder(p))
  BY <1>1 DEF Lookup, Answer
<1>3. FiledUnder(p) = IF p \in NotByHash THEN None ELSE p
  BY DEF FiledUnder, SeenOnRecord
<1> QED
  BY <1>2, <1>3

===============================================================================
