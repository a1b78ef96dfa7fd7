-------------------------- MODULE HoldInvoices_proofs --------------------------
(* Theorems about HoldInvoices, for any number of invoices, requests and   *)
(* payments beside them; what they say of the listing rests on the steps   *)
(* of Listings, which every step of HoldInvoices is one of.                *)
EXTENDS HoldInvoices, Listings_proofs

(* For each kind of step, what it does to the listing.                     *)
LEMMA StepsOfListings == [Next]_vars => [ListingsNext]_listing
<1> SUFFICES ASSUME [Next]_vars PROVE [ListingsNext]_listing
  OBVIOUS
<1>1. \A p \in Holds : p \in Payments
  BY HoldAssumption DEF Payments
<1>2. ASSUME NEW p \in Payments, NEW s \in {"pending", "succeeded", "failed"}, Change(p, s)
      PROVE  [ListingsNext]_listing
  BY <1>2 DEF ListingsNext
<1>3. CASE \E c \in Calls : Handle(c)
  BY <1>1, <1>2, <1>3
     DEF Handle, SettleRead, SettleRefuse, Claim, ClaimFails, Cancel, CancelFails
<1>4. CASE \E p \in Holds : Node(p)
  BY <1>1, <1>2, <1>4 DEF Node, Make, Arrive, Expire, Record
<1>5. CASE Others
  BY <1>5 DEF Others, ListingsNext
<1>6. CASE UNCHANGED vars
  BY <1>6 DEF vars
<1> QED
  BY <1>3, <1>4, <1>5, <1>6 DEF Next

(* The listing is read as Listings says, whatever happens to holds.        *)
THEOREM ListingsRefined == Spec => ListingsSpec
<1>1. Init => ListingsInit
  BY DEF Init
<1> QED
  BY <1>1, StepsOfListings, PTL DEF Spec, ListingsSpec

(* What is proved of the listing holds of one that the hold invoices are   *)
(* in, and a listed invoice is never lost.                                 *)
THEOREM PagesAreWalked == Spec => [](LInv /\ InvoicesStayListed)
<1>1. Init => LInv /\ InvoicesStayListed
  BY InitLInv, InitStaysListed DEF Init
<1>2. LInv /\ InvoicesStayListed /\ [Next]_vars => (LInv /\ InvoicesStayListed)'
  BY StepLInv, StepStaysListed, StepsOfListings
<1> QED
  BY <1>1, <1>2, PTL DEF Spec

-------------------------------------------------------------------------------
(* A walk through a list that payments enter and move in, but do not       *)
(* leave, never skips a payment that did not change and had its second to  *)
(* itself.                                                                 *)
THEOREM NothingIsSkipped == Spec => []NothingSkipped
<1>1. LInv => NothingSkipped
  BY DEF LInv
<1> QED
  BY <1>1, PagesAreWalked, PTL

(* Without a change nothing is shown twice.                                *)
THEOREM NothingIsShownTwice == Spec => []NothingTwice
BY LInvShowsOnce, PagesAreWalked, PTL

(* A short page ends the list: nothing unchanged is left to be seen.       *)
THEOREM AShortPageIsLast == Spec => []ShortPageIsLast
BY LInvShortPage, PagesAreWalked, PTL

(* A listing of invoices loses none while it is read.                      *)
THEOREM InvoicesAreNotLost == Spec => []InvoicesStayListed
BY PagesAreWalked, PTL

(* Whatever has happened to it since, a payment that a page has shown is   *)
(* found by a lookup of its hash, unless ldk-node files it under another   *)
(* id; then it never is.                                                   *)
THEOREM ListedIsAlwaysFound == Spec => []ListedIsFound
<1>1. Init => SeenOnRecord
  BY InitSeenOnRecord DEF Init
<1>2. LInv /\ SeenOnRecord /\ [Next]_vars => SeenOnRecord'
  BY StepSeenOnRecord, StepsOfListings
<1>3. LInv /\ SeenOnRecord => ListedIsFound
  BY FoundIfSeen, ListingsAssumption DEF LInv, ListingsTypeOK
<1> QED
  BY <1>1, <1>2, <1>3, PagesAreWalked, PTL DEF Spec

-------------------------------------------------------------------------------
(* Of TypeOK, what is not the listing's.                                   *)
CallsTyped ==
  /\ held \subseteq Holds
  /\ pc \in [Calls -> {"idle", "claiming", "ok", "error"}]
  /\ op \in [Calls -> {"none", "settle", "cancel"}]
  /\ about \in [Calls -> Holds \cup {None}]
  /\ endedBy \in [Holds -> Calls \cup {None}]
  /\ \A p \in held : status[p] # "none"
  /\ \A c \in Calls : pc[c] = "claiming" =>
       op[c] = "settle" /\ about[c] \in Holds /\ status[about[c]] # "none"

HInv ==
  /\ LInv
  /\ CallsTyped
  /\ OutcomeWasAskedFor

LEMMA InitHInv == Init => HInv
<1> SUFFICES ASSUME Init PROVE HInv
  OBVIOUS
<1>1. LInv
  BY InitLInv DEF Init
<1> QED
  BY <1>1, HoldAssumption DEF Init, HInv, CallsTyped, OutcomeWasAskedFor

(* No step takes a record out of the store.                                *)
LEMMA RecordsStay ==
  ASSUME HInv, [Next]_vars
  PROVE  \A p \in Payments : status[p] # "none" => status'[p] # "none"
<1>1. [ListingsNext]_listing
  BY StepsOfListings
<1> QED
  BY <1>1 DEF HInv, LInv, ListingsTypeOK, ListingsNext, Change, Tick, walk, Begin, Read,
     Leave, store, listing

(* Steps of ldk-node and of clients: no call moves, nothing new is ended,  *)
(* and what comes to be held is on record.                                 *)
LEMMA OutsideKeepsHInv ==
  ASSUME HInv, [Next]_vars,
         (\E p \in Holds : Node(p)) \/ Others \/ UNCHANGED vars
  PROVE  CallsTyped' /\ OutcomeWasAskedFor'
<1>1. UNCHANGED <<pc, op, about, endedBy>>
  BY DEF Node, Make, Arrive, Expire, Record, Others, vars, calls
<1>2. \A p \in held' : p \in Holds /\ (p \in held \/ status[p] # "none")
  BY DEF Node, Make, Arrive, Expire, Record, Others, vars, HInv, CallsTyped
<1>3. \A p \in Holds : status[p] # "none" => status'[p] # "none"
  BY RecordsStay, HoldAssumption DEF Payments
<1> QED
  BY <1>1, <1>2, <1>3 DEF HInv, CallsTyped, OutcomeWasAskedFor

(* A call can have ended a hold only if it has been answered "ok", and     *)
(* then it takes no further step.                                          *)
LEMMA CallKeepsHInv ==
  ASSUME HInv, [Next]_vars, NEW c \in Calls, Handle(c)
  PROVE  CallsTyped' /\ OutcomeWasAskedFor'
<1>1. \A p \in Holds : status[p] # "none" => status'[p] # "none"
  BY RecordsStay, HoldAssumption DEF Payments
<1>2. pc[c] \in {"idle", "claiming"} /\ \A p \in Holds : endedBy[p] # c
  BY DEF Handle, SettleRead, SettleRefuse, Claim, ClaimFails, Cancel, CancelFails, Take,
     HInv, OutcomeWasAskedFor
<1>3. ASSUME NEW p \in Holds, SettleRead(c, p) \/ SettleRefuse(c, p) \/ CancelFails(c, p)
      PROVE  CallsTyped' /\ OutcomeWasAskedFor'
  BY <1>1, <1>2, <1>3
     DEF SettleRead, SettleRefuse, CancelFails, Take, Return, listing, store, HInv,
         CallsTyped, OutcomeWasAskedFor
<1>4. CASE ClaimFails(c)
  BY <1>1, <1>2, <1>4
     DEF ClaimFails, Return, HInv, CallsTyped, OutcomeWasAskedFor
<1>5. CASE Claim(c)
  BY <1>1, <1>2, <1>5, HoldAssumption
     DEF Claim, Return, HInv, CallsTyped, OutcomeWasAskedFor
<1>6. ASSUME NEW p \in Holds, Cancel(c, p)
      PROVE  CallsTyped' /\ OutcomeWasAskedFor'
  BY <1>1, <1>2, <1>6, HoldAssumption
     DEF Cancel, Take, Return, HInv, CallsTyped, OutcomeWasAskedFor
<1> QED
  BY <1>3, <1>4, <1>5, <1>6 DEF Handle

LEMMA StepHInv == HInv /\ [Next]_vars => HInv'
<1> SUFFICES ASSUME HInv, [Next]_vars PROVE HInv'
  OBVIOUS
<1>1. LInv'
  BY StepsOfListings, StepLInv DEF HInv
<1>2. CallsTyped' /\ OutcomeWasAskedFor'
  BY OutsideKeepsHInv, CallKeepsHInv DEF Next
<1> QED
  BY <1>1, <1>2 DEF HInv

(* The outcome of a hold invoice is one that somebody asked for.           *)
THEOREM Invariance == Spec => []HInv
BY InitHInv, StepHInv, PTL DEF Spec

(* Every variable keeps its type, those of the listing included.           *)
THEOREM TypeCorrect == Spec => []TypeOK
<1>1. HInv => TypeOK
  BY DEF HInv, LInv, CallsTyped, TypeOK
<1> QED
  BY <1>1, Invariance, PTL

(* A hold ends only by a request that named it and that was answered "ok". *)
THEOREM OutcomesWereAskedFor == Spec => []OutcomeWasAskedFor
<1>1. HInv => OutcomeWasAskedFor
  BY DEF HInv
<1> QED
  BY <1>1, Invariance, PTL

(* A request that is answered "ok" leaves nothing held that it named.      *)
THEOREM OkEndsTheHold == Spec => OkEndsHold
<1> DEFINE Ended == \A c \in Calls :
                      pc[c] # "ok" /\ pc'[c] = "ok" => about'[c] \notin held'
<1>1. HInv /\ [Next]_vars => [Ended]_vars
  <2> SUFFICES ASSUME HInv, Next, NEW c \in Calls, pc[c] # "ok", pc'[c] = "ok"
               PROVE  about'[c] \notin held'
    OBVIOUS
  <2>1. ~(UNCHANGED pc)
    OBVIOUS
  <2>2. PICK d \in Calls : Handle(d)
    BY <2>1 DEF Next, Node, Make, Arrive, Expire, Record, Others, calls
  <2>3. d = c
    BY <2>2 DEF Handle, SettleRead, SettleRefuse, Claim, ClaimFails, Cancel, CancelFails,
       Take, Return, HInv, CallsTyped
  <2> QED
    BY <2>2, <2>3 DEF Handle, SettleRead, SettleRefuse, Claim, ClaimFails, Cancel,
       CancelFails, Take, Return, HInv, CallsTyped
<1> QED
  BY <1>1, Invariance, PTL DEF Spec, OkEndsHold

===============================================================================
