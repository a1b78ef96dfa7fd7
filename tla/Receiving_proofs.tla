---------------------------- MODULE Receiving_proofs ----------------------------
(* Theorems about Receiving, for every set of requests and of instructions *)
(* that ldk-node may issue, and any number of crashes.                     *)
EXTENDS Receiving, TLAPS

(* What the assumption says of one request.                                *)
LEMMA RequestLemma ==
  ASSUME NEW r \in Requests
  PROVE  /\ Issues(r) => Wanted(r) \in Seq(Entries)
         /\ Issues(r) => r.method \notin {"disable_offer", "lookup_address"}
         /\ Issues(r) /\ r.method # "receive" => Len(Wanted(r)) <= 1
         /\ r.method = "disable_offer" => r.offer \in Offers \cup {None}
         /\ r.method = "lookup_address" => r.address \in Addresses
<1>1. r \in IssuingRequests \/ r \in QueryingRequests
  BY ReceivingAssumption
<1>2. /\ <<"bolt11">> \in Seq(Entries) /\ <<"bolt12">> \in Seq(Entries)
      /\ <<"onchain">> \in Seq(Entries)
  BY DEF Entries
<1>3. CASE r \in IssuingRequests
  <2>1. r.method \in {"make_invoice", "make_offer", "make_new_address", "receive"}
        /\ (r.method = "receive" => r.entries \in Seq(Entries))
    BY <1>3 DEF IssuingRequests
  <2> QED
    BY <1>2, <2>1 DEF Wanted, Issues
<1>4. CASE r \in QueryingRequests
  BY <1>4 DEF QueryingRequests, Issues
<1> QED
  BY <1>1, <1>3, <1>4

LEMMA KindLemma ==
  ASSUME NEW e \in Entries
  PROVE  Kind(e) \in {Invoices, Offers, Addresses}
BY DEF Kind

LEMMA TailLemma ==
  ASSUME NEW s \in Seq(Entries), s # <<>>
  PROVE  /\ Tail(s) \in Seq(Entries) /\ Head(s) \in Entries
         /\ Len(s) \in Nat /\ Len(s) <= 1 => Tail(s) = <<>>
OBVIOUS

(* The stores start empty and no call has begun.                           *)
THEOREM InitTypeOK == Init => TypeOK
BY ReceivingAssumption DEF Init, TypeOK, NoAnswer

LEMMA HandedOutLemma ==
  ASSUME TypeOK
  PROVE  HandedOut \subseteq Instructions
BY DEF HandedOut, TypeOK

(* The variables an answer changes keep their types.                        *)
AnswersTyped ==
  /\ pc \in [Calls -> {"idle", "making", "storing", "found", "done", "lost"}]
  /\ answer \in [Calls -> [code : {"none", "ok", "BadRequest", "Internal", "NotFound"},
                           given : SUBSET Instructions]]
  /\ fresh \subseteq Calls

LEMMA StartTypeOK ==
  ASSUME TypeOK, NEW c \in Calls, Start(c)
  PROVE  TypeOK'
<1> PICK r \in Requests :
      \/ Refuse(c, r) \/ Begin(c, r) \/ FindOffer(c, r) \/ LookupAddress(c, r)
      \/ ListOffers(c, r) \/ ListAddresses(c, r)
  BY DEF Start
<1>1. /\ UNCHANGED <<owner, offers, watched, issuing, uri, crashes>>
      /\ req' = [req EXCEPT ![c] = r] /\ pc[c] = "idle"
  BY DEF Refuse, Begin, FindOffer, LookupAddress, ListOffers, ListAddresses, stores
<1>2. \/ /\ UNCHANGED <<answer, fresh>>
         /\ \/ pc' = [pc EXCEPT ![c] = "making"]
            \/ pc' = [pc EXCEPT ![c] = "found"]
      \/ \E a \in [code : {"ok", "BadRequest", "NotFound"}, given : SUBSET Instructions] :
           Answer(c, a)
  <2>1. CASE Refuse(c, r)
    BY <2>1 DEF Refuse, Err
  <2>2. CASE Begin(c, r)
    BY <2>2 DEF Begin
  <2>3. CASE FindOffer(c, r)
    BY <2>3 DEF FindOffer, Err
  <2>4. CASE LookupAddress(c, r)
    BY <2>4, HandedOutLemma DEF LookupAddress, Err, Ok
  <2>5. CASE ListOffers(c, r)
    <3> DEFINE g == { o \in Offers : \/ offers[o] = "active"
                                     \/ offers[o] = "disabled" /\ ~r.activeOnly }
    <3>1. g \in SUBSET Instructions
      BY DEF Instructions
    <3>2. Answer(c, Ok(g))
      BY <2>5 DEF ListOffers
    <3> QED
      BY <3>1, <3>2 DEF Ok
  <2>6. CASE ListAddresses(c, r)
    BY <2>6 DEF ListAddresses, Ok, TypeOK, Instructions
  <2> QED
    BY <2>1, <2>2, <2>3, <2>4, <2>5, <2>6
<1>3. AnswersTyped' /\ pc'[c] # "storing" /\ \A d \in Calls \ {c} : pc'[d] = pc[d]
  <2>1. CASE UNCHANGED <<answer, fresh>> /\ pc' = [pc EXCEPT ![c] = "making"]
    BY <2>1 DEF AnswersTyped, TypeOK
  <2>2. CASE UNCHANGED <<answer, fresh>> /\ pc' = [pc EXCEPT ![c] = "found"]
    BY <2>2 DEF AnswersTyped, TypeOK
  <2>3. ASSUME NEW a \in [code : {"ok", "BadRequest", "NotFound"},
                         given : SUBSET Instructions],
               Answer(c, a)
        PROVE  AnswersTyped' /\ pc'[c] # "storing"
               /\ \A d \in Calls \ {c} : pc'[d] = pc[d]
    <3>1. a \in [code : {"none", "ok", "BadRequest", "Internal", "NotFound"},
                 given : SUBSET Instructions]
      OBVIOUS
    <3> QED
      BY <2>3, <3>1 DEF Answer, AnswersTyped, TypeOK
  <2> QED
    BY <1>2, <2>1, <2>2, <2>3
<1>4. todo' \in [Calls -> Seq(Entries)]
  <2>1. CASE Begin(c, r)
    BY <2>1, RequestLemma DEF Begin, TypeOK
  <2>2. CASE ~Begin(c, r)
    BY <2>2 DEF Refuse, FindOffer, LookupAddress, ListOffers, ListAddresses, TypeOK
  <2> QED
    BY <2>1, <2>2
<1>5. req' \in [Calls -> Requests \cup {None}]
  BY <1>1 DEF TypeOK
<1>6. \A d \in Calls \ {c} : todo'[d] = todo[d]
  BY DEF Refuse, Begin, FindOffer, LookupAddress, ListOffers, ListAddresses, TypeOK
<1> QED
  BY <1>1, <1>3, <1>4, <1>5, <1>6 DEF AnswersTyped, TypeOK

LEMMA ActTypeOK ==
  ASSUME TypeOK, NEW c \in Calls, Act(c)
  PROVE  TypeOK'
<1>1. CASE Issue(c)
  <2>1. todo[c] \in Seq(Entries) /\ todo[c] # <<>>
    BY <1>1 DEF Issue, TypeOK
  <2>2. Head(todo[c]) \in Entries /\ Tail(todo[c]) \in Seq(Entries)
    BY <2>1, TailLemma
  <2>3. PICK i \in Instructions :
          /\ owner[i] = None
          /\ owner' = [owner EXCEPT ![i] = c]
          /\ IF i \in Invoices
             THEN /\ uri' = [uri EXCEPT ![c] = @ \cup {i}]
                  /\ todo' = [todo EXCEPT ![c] = Tail(@)]
                  /\ UNCHANGED <<pc, issuing>>
             ELSE /\ issuing' = [issuing EXCEPT ![c] = i]
                  /\ pc' = [pc EXCEPT ![c] = "storing"]
                  /\ UNCHANGED <<uri, todo>>
    BY <1>1, <2>2, KindLemma DEF Issue, Instructions
  <2>4. UNCHANGED <<offers, watched, req, answer, crashes, fresh>> /\ pc[c] = "making"
    BY <1>1 DEF Issue, stores
  <2>5. owner' \in [Instructions -> Calls \cup {None}]
    BY <2>3 DEF TypeOK
  <2>6. \A d \in Calls : pc[d] = "storing" => d # c /\ owner'[issuing[d]] = d
    BY <2>3, <2>4, ReceivingAssumption DEF TypeOK
  <2>7. CASE i \in Invoices
    <3>1. uri' \in [Calls -> SUBSET Instructions] /\ todo' \in [Calls -> Seq(Entries)]
      <4>1. uri' = [uri EXCEPT ![c] = @ \cup {i}] /\ todo' = [todo EXCEPT ![c] = Tail(@)]
        BY <2>3, <2>7
      <4>2. uri[c] \cup {i} \in SUBSET Instructions
        BY DEF TypeOK
      <4>3. uri' \in [Calls -> SUBSET Instructions]
        BY <4>1, <4>2 DEF TypeOK
      <4>4. todo' \in [Calls -> Seq(Entries)]
        BY <2>2, <4>1 DEF TypeOK
      <4> QED
        BY <4>3, <4>4
    <3>2. \A d \in Calls : pc[d] = "storing" =>
            /\ issuing[d] \in Offers \cup Addresses /\ owner'[issuing[d]] = d
            /\ todo'[d] # <<>>
      BY <2>3, <2>6, <2>7 DEF TypeOK
    <3>3. UNCHANGED <<offers, watched, pc, req, issuing, answer, crashes, fresh>>
      BY <2>3, <2>4, <2>7
    <3> QED
      BY <2>5, <3>1, <3>2, <3>3 DEF TypeOK
  <2>8. CASE i \notin Invoices
    <3>1. \A d \in Calls : pc'[d] = "storing" =>
            /\ issuing'[d] \in Offers \cup Addresses /\ owner'[issuing'[d]] = d
            /\ todo'[d] # <<>>
      <4> TAKE d \in Calls
      <4>1. CASE d = c
        BY <2>1, <2>3, <2>8, <4>1 DEF TypeOK, Instructions
      <4>2. CASE d # c
        BY <2>3, <2>6, <2>8, <4>2 DEF TypeOK
      <4> QED
        BY <4>1, <4>2
    <3>2. /\ issuing' \in [Calls -> Instructions \cup {None}]
          /\ pc' \in [Calls -> {"idle", "making", "storing", "found", "done", "lost"}]
      BY <2>3, <2>8 DEF TypeOK
    <3> QED
      BY <2>3, <2>4, <2>5, <2>8, <3>1, <3>2 DEF TypeOK
  <2> QED
    BY <2>7, <2>8
<1>2. CASE Store(c)
  <2>1. /\ UNCHANGED <<owner, req, issuing, answer, crashes, fresh>>
        /\ pc' = [pc EXCEPT ![c] = "making"]
        /\ todo' = [todo EXCEPT ![c] = Tail(@)]
        /\ uri' = [uri EXCEPT ![c] = Push(@, issuing[c])]
    BY <1>2 DEF Store
  <2>2. issuing[c] \in Instructions /\ Tail(todo[c]) \in Seq(Entries)
    BY <1>2, TailLemma DEF Store, TypeOK, Instructions
  <2>3. offers' \in [Offers -> {"absent", "active", "disabled"}]
        /\ watched' \subseteq Addresses
    BY <1>2 DEF Store, Insert, TypeOK
  <2>4. uri' \in [Calls -> SUBSET Instructions]
    BY <2>1, <2>2 DEF Push, TypeOK
  <2>5. todo' \in [Calls -> Seq(Entries)]
    BY <2>1, <2>2 DEF TypeOK
  <2>6. /\ pc' \in [Calls -> {"idle", "making", "storing", "found", "done", "lost"}]
        /\ \A d \in Calls : pc'[d] = "storing" => pc[d] = "storing" /\ todo'[d] = todo[d]
    BY <2>1 DEF TypeOK
  <2> QED
    BY <2>1, <2>3, <2>4, <2>5, <2>6 DEF TypeOK
<1>3. CASE Skip(c)
  <2>1. /\ UNCHANGED <<owner, offers, watched, req, issuing, uri, crashes>>
        /\ todo' \in {todo, [todo EXCEPT ![c] = Tail(@)]} /\ pc[c] = "making"
        /\ \/ UNCHANGED <<pc, answer, fresh>>
           \/ Answer(c, Err("Internal"))
    BY <1>3 DEF Skip, stores
  <2>2. Tail(todo[c]) \in Seq(Entries)
    BY <1>3, TailLemma DEF Skip, TypeOK
  <2>3. todo' \in [Calls -> Seq(Entries)]
    BY <2>1, <2>2 DEF TypeOK
  <2>4. /\ pc' \in [Calls -> {"idle", "making", "storing", "found", "done", "lost"}]
        /\ \A d \in Calls : pc'[d] = "storing" => pc[d] = "storing" /\ todo'[d] = todo[d]
        /\ fresh' \subseteq Calls
    BY <2>1 DEF Answer, TypeOK
  <2>5. answer' \in [Calls -> [code : {"none", "ok", "BadRequest", "Internal", "NotFound"},
                              given : SUBSET Instructions]]
    BY <2>1 DEF Answer, Err, TypeOK
  <2> QED
    BY <2>1, <2>3, <2>4, <2>5 DEF TypeOK
<1>4. CASE Finish(c)
  BY <1>4 DEF Finish, Answer, Err, Ok, stores, TypeOK
<1>5. CASE Disable(c)
  BY <1>5 DEF Disable, Answer, Ok, TypeOK
<1> QED
  BY <1>1, <1>2, <1>3, <1>4, <1>5 DEF Act

LEMMA CrashTypeOK == TypeOK /\ (Crash \/ UNCHANGED vars) => TypeOK'
<1>1. ASSUME TypeOK, Crash PROVE TypeOK'
  BY <1>1, ReceivingAssumption DEF Crash, TypeOK
<1>2. ASSUME TypeOK, UNCHANGED vars PROVE TypeOK'
  BY <1>2 DEF vars, stores, calls, TypeOK
<1> QED
  BY <1>1, <1>2

LEMMA StepTypeOK == TypeOK /\ [Next]_vars => TypeOK'
BY StartTypeOK, ActTypeOK, CrashTypeOK DEF Next

(* The type invariant: a call stores only what it has just got.            *)
THEOREM TypeCorrect == Spec => []TypeOK
BY InitTypeOK, StepTypeOK, PTL DEF Spec

-------------------------------------------------------------------------------
(* The invariant.  An instruction is out once ldk-node has issued it and   *)
(* no call is about to store it: only then is it in a store, in a response *)
(* or asked about, and it is never issued again.  That is why a restart    *)
(* alone can make a store forget what was handed out.                      *)
Working(c) == pc[c] \in {"making", "storing"}

Out(i) == owner[i] # None /\ \A c \in Calls : pc[c] = "storing" => issuing[c] # i

Known(i) ==
  /\ i \in Offers => offers[i] # "absent"
  /\ i \in Addresses => i \in watched

StoresHoldIssued ==
  /\ \A o \in Offers : offers[o] # "absent" => Out(o)
  /\ \A a \in watched : Out(a)

(* A response carries what was made for it, of the addresses one.          *)
Carries(given, made) ==
  /\ given \subseteq made /\ made \ Addresses \subseteq given
  /\ made \cap Addresses # {} => \E a \in Addresses : given \cap Addresses = {a}

Stored(c) == IF pc[c] = "storing" THEN Mine(c) \ {issuing[c]} ELSE Mine(c)

WorkInv(c) ==
  Working(c) =>
    /\ req[c] \in Requests /\ Issues(req[c])
    /\ Carries(uri[c], Stored(c))
    /\ \A i \in uri[c] : Known(i) /\ Out(i)
    /\ req[c].method # "receive" =>
         Len(todo[c]) <= 1 /\ (pc[c] = "making" /\ todo[c] # <<>> => Mine(c) = {})

NothingMade(c) == pc[c] \in {"idle", "found"} => Mine(c) = {} /\ uri[c] = {}

FoundInv(c) ==
  pc[c] = "found" =>
    /\ req[c].method = "disable_offer"
    /\ req[c].offer \in Offers /\ offers[req[c].offer] # "absent"

DoneInv(c) ==
  pc[c] = "done" =>
    /\ answer[c].code # "ok" => Mine(c) = {}
    /\ answer[c].code = "ok" /\ Issues(req[c]) =>
         Carries(answer[c].given, Mine(c)) /\ Mine(c) # {}
    /\ \A i \in answer[c].given : Out(i)

Missing(i) ==
  /\ i \in Instructions /\ Out(i)
  /\ \A d \in Calls : Working(d) => i \notin uri[d]
  /\ \A d \in fresh : Issues(req[d]) => i \notin answer[d].given

FreshInv(c) ==
  c \in fresh =>
    /\ pc[c] = "done"
    /\ Issues(req[c]) => \A i \in answer[c].given : Known(i)
    /\ Answered(c, "disable_offer", "ok") =>
         req[c].offer \in Offers /\ offers[req[c].offer] = "disabled"
    /\ answer[c].code = "NotFound" =>
         \/ req[c].method = "disable_offer" /\ Missing(req[c].offer)
         \/ req[c].method = "lookup_address" /\ Missing(req[c].address)

CallInv(c) ==
  WorkInv(c) /\ NothingMade(c) /\ FoundInv(c) /\ DoneInv(c) /\ FreshInv(c)

IInv ==
  /\ TypeOK
  /\ StoresHoldIssued
  /\ \A c \in Calls : CallInv(c)

(* Nothing is stored that was not issued.                                  *)
THEOREM InitIInv == Init => IInv
<1> SUFFICES ASSUME Init PROVE IInv
  OBVIOUS
<1>1. TypeOK
  BY InitTypeOK
<1>2. StoresHoldIssued
  BY DEF Init, StoresHoldIssued
<1>3. ASSUME NEW c \in Calls PROVE CallInv(c)
  <2>1. c # None
    BY ReceivingAssumption
  <2>2. Mine(c) = {} /\ uri[c] = {} /\ pc[c] = "idle" /\ c \notin fresh
    BY <2>1 DEF Init, Mine
  <2> QED
    BY <2>2 DEF CallInv, WorkInv, Working, NothingMade, FoundInv, DoneInv, FreshInv
<1> QED
  BY <1>1, <1>2, <1>3 DEF IInv

(* What a step of call c leaves to the other calls.                        *)
Frame(c) ==
  /\ \A d \in Calls \ {c} :
       /\ pc'[d] = pc[d] /\ req'[d] = req[d] /\ todo'[d] = todo[d]
       /\ issuing'[d] = issuing[d] /\ uri'[d] = uri[d] /\ answer'[d] = answer[d]
       /\ \A i \in Instructions : owner'[i] = d <=> owner[i] = d
       /\ d \in fresh' <=> d \in fresh
  /\ \A i \in Instructions : (Out(i) => Out(i)') /\ (Known(i) => Known(i)')
  /\ \A o \in Offers : offers[o] = "disabled" => offers'[o] = "disabled"
  /\ pc[c] # "done"
  /\ Working(c)' => \A i \in uri'[c] : (Working(c) /\ i \in uri[c]) \/ ~Out(i)
  /\ c \in fresh' /\ Issues(req'[c]) =>
       \A i \in answer'[c].given : Working(c) /\ i \in uri[c]

LEMMA FrameKeepsMissing ==
  ASSUME IInv, TypeOK', NEW c \in Calls, Frame(c), NEW i, Missing(i)
  PROVE  Missing(i)'
<1>1. i \in Instructions /\ Out(i) /\ Out(i)'
  BY DEF Frame, Missing
<1>2. ASSUME NEW d \in Calls, Working(d)' PROVE i \notin uri'[d]
  <2>1. CASE d = c
    BY <1>1, <1>2, <2>1 DEF Frame, Missing
  <2>2. CASE d # c
    BY <1>2, <2>2 DEF Frame, Missing, Working
  <2> QED
    BY <2>1, <2>2
<1>3. ASSUME NEW d \in fresh', Issues(req'[d]) PROVE i \notin answer'[d].given
  <2>1. d \in Calls
    BY DEF TypeOK
  <2>2. CASE d = c
    BY <1>3, <2>2 DEF Frame, Missing
  <2>3. CASE d # c
    BY <1>3, <2>1, <2>3 DEF Frame, Missing
  <2> QED
    BY <2>2, <2>3
<1> QED
  BY <1>1, <1>2, <1>3 DEF Missing, Issues

LEMMA FrameCallInv ==
  ASSUME IInv, TypeOK', NEW c \in Calls, Frame(c), NEW d \in Calls \ {c}
  PROVE  CallInv(d)'
<1>1. /\ pc'[d] = pc[d] /\ req'[d] = req[d] /\ todo'[d] = todo[d]
      /\ issuing'[d] = issuing[d] /\ uri'[d] = uri[d] /\ answer'[d] = answer[d]
      /\ d \in fresh' <=> d \in fresh
  BY DEF Frame
<1>2. Mine(d)' = Mine(d)
  BY DEF Frame, Mine
<1>3. Stored(d)' = Stored(d)
  BY <1>1, <1>2 DEF Stored
<1>4. \A i \in Instructions : (Out(i) => Out(i)') /\ (Known(i) => Known(i)')
  BY DEF Frame
<1>5. uri[d] \subseteq Instructions /\ answer[d].given \subseteq Instructions
  BY DEF IInv, TypeOK
<1>6. WorkInv(d)'
  <2> SUFFICES ASSUME Working(d)
               PROVE  /\ req[d] \in Requests /\ Issues(req[d])
                      /\ Carries(uri[d], Stored(d))
                      /\ \A i \in uri[d] : Known(i)' /\ Out(i)'
                      /\ req[d].method # "receive" =>
                           /\ Len(todo[d]) <= 1
                           /\ pc[d] = "making" /\ todo[d] # <<>> => Mine(d) = {}
    BY <1>1, <1>2, <1>3 DEF WorkInv, Working, Carries, Issues
  <2> QED
    BY <1>4, <1>5 DEF IInv, CallInv, WorkInv
<1>7. NothingMade(d)'
  BY <1>1, <1>2 DEF IInv, CallInv, NothingMade
<1>8. FoundInv(d)'
  <2> SUFFICES ASSUME pc[d] = "found"
               PROVE  /\ req[d].method = "disable_offer"
                      /\ req[d].offer \in Offers /\ offers'[req[d].offer] # "absent"
    BY <1>1 DEF FoundInv
  <2>1. /\ req[d].method = "disable_offer"
        /\ req[d].offer \in Offers /\ offers[req[d].offer] # "absent"
    BY DEF IInv, CallInv, FoundInv
  <2>2. Known(req[d].offer) /\ req[d].offer \in Instructions
    BY <2>1, ReceivingAssumption DEF Known, Instructions
  <2> QED
    BY <1>4, <2>1, <2>2 DEF Known
<1>9. DoneInv(d)'
  <2> SUFFICES ASSUME pc[d] = "done"
               PROVE  /\ answer[d].code # "ok" => Mine(d) = {}
                      /\ answer[d].code = "ok" /\ Issues(req[d]) =>
                           Carries(answer[d].given, Mine(d)) /\ Mine(d) # {}
                      /\ \A i \in answer[d].given : Out(i)'
    BY <1>1, <1>2 DEF DoneInv, Carries, Issues
  <2> QED
    BY <1>4, <1>5 DEF IInv, CallInv, DoneInv
<1>10. FreshInv(d)'
  <2> SUFFICES ASSUME d \in fresh
               PROVE  /\ pc[d] = "done"
                      /\ Issues(req[d]) => \A i \in answer[d].given : Known(i)'
                      /\ Answered(d, "disable_offer", "ok") =>
                           /\ req[d].offer \in Offers
                           /\ offers'[req[d].offer] = "disabled"
                      /\ answer[d].code = "NotFound" =>
                           \/ req[d].method = "disable_offer" /\ Missing(req[d].offer)'
                           \/ req[d].method = "lookup_address" /\ Missing(req[d].address)'
    BY <1>1 DEF FreshInv, Answered, Issues, Missing, Out
  <2>1. FreshInv(d)
    BY DEF IInv, CallInv
  <2>2. \A i : Missing(i) => Missing(i)'
    BY FrameKeepsMissing DEF Missing
  <2> QED
    BY <1>4, <1>5, <2>1, <2>2 DEF FreshInv, Frame
<1> QED
  BY <1>6, <1>7, <1>8, <1>9, <1>10 DEF CallInv

LEMMA FrameIInv ==
  ASSUME IInv, TypeOK', NEW c \in Calls, Frame(c), StoresHoldIssued', CallInv(c)'
  PROVE  IInv'
BY FrameCallInv DEF IInv

(* The steps that issue and store nothing.                                 *)
LEMMA QuietFrame ==
  ASSUME IInv, NEW c \in Calls,
         UNCHANGED <<owner, offers, watched, issuing, uri>>,
         pc[c] # "done", pc'[c] # "storing",
         \A d \in Calls \ {c} :
           /\ pc'[d] = pc[d] /\ req'[d] = req[d] /\ todo'[d] = todo[d]
           /\ answer'[d] = answer[d],
         fresh' \in {fresh, fresh \cup {c}},
         Working(c)' => Working(c) \/ uri[c] = {},
         c \in fresh' /\ Issues(req'[c]) =>
           \A i \in answer'[c].given : Working(c) /\ i \in uri[c]
  PROVE  Frame(c) /\ StoresHoldIssued' /\ Mine(c)' = Mine(c)
<1>1. \A i : (Out(i) => Out(i)') /\ (Known(i) => Known(i)')
  <2>1. \A d \in Calls : pc'[d] = "storing" => pc[d] = "storing"
    OBVIOUS
  <2> QED
    BY <2>1 DEF Out, Known
<1>2. Frame(c)
  BY <1>1 DEF Frame
<1>3. StoresHoldIssued'
  BY <1>1 DEF IInv, StoresHoldIssued
<1> QED
  BY <1>2, <1>3 DEF Mine

LEMMA AbsentIsMissing ==
  ASSUME IInv, NEW x \in HandedOut, ~Known(x)
  PROVE  Missing(x)
<1>1. PICK d \in Calls : pc[d] = "done" /\ x \in answer[d].given
  BY DEF HandedOut
<1>2. Out(x)
  BY <1>1 DEF IInv, CallInv, DoneInv
<1>3. \A e \in Calls : Working(e) => x \notin uri[e]
  BY DEF IInv, CallInv, WorkInv
<1>4. \A e \in fresh : Issues(req[e]) => x \notin answer[e].given
  BY DEF IInv, TypeOK, CallInv, FreshInv
<1>5. x \in Instructions
  BY HandedOutLemma DEF IInv
<1> QED
  BY <1>2, <1>3, <1>4, <1>5 DEF Missing

(* A call that answers at once.                                            *)
LEMMA AnswerIInv ==
  ASSUME IInv, TypeOK', NEW c \in Calls, NEW r \in Requests, NEW a,
         pc[c] = "idle", Answer(c, a), req' = [req EXCEPT ![c] = r],
         UNCHANGED <<owner, offers, watched, todo, issuing, uri>>,
         Issues(r) => a.given = {} /\ a.code # "ok",
         \A i \in a.given : Out(i),
         r.method = "disable_offer" => a.code # "ok",
         a.code = "NotFound" =>
           \/ r.method = "disable_offer" /\ Missing(r.offer)
           \/ r.method = "lookup_address" /\ Missing(r.address)
  PROVE  IInv'
<1>1. /\ pc'[c] = "done" /\ req'[c] = r /\ answer'[c] = a
      /\ fresh' = fresh \cup {c}
      /\ \A d \in Calls \ {c} :
           /\ pc'[d] = pc[d] /\ req'[d] = req[d] /\ todo'[d] = todo[d]
           /\ answer'[d] = answer[d]
  BY DEF Answer, IInv, TypeOK
<1>2. Mine(c) = {} /\ uri[c] = {}
  BY DEF IInv, CallInv, NothingMade
<1>3. Frame(c) /\ StoresHoldIssued' /\ Mine(c)' = {}
  BY <1>1, <1>2, QuietFrame DEF Working
<1>4. \A i : Missing(i) => Missing(i)'
  BY <1>3, FrameKeepsMissing
<1>5. \A i \in a.given : Out(i)'
  <2>1. \A i \in Instructions : Out(i) => Out(i)'
    BY <1>3 DEF Frame
  <2>2. a.given \subseteq Instructions
    BY <1>1 DEF TypeOK
  <2> QED
    BY <2>1, <2>2
<1>6. CallInv(c)'
  BY <1>1, <1>3, <1>4, <1>5
     DEF CallInv, WorkInv, Working, NothingMade, FoundInv, DoneInv, FreshInv,
         Answered, Issues
<1> QED
  BY <1>3, <1>6, FrameIInv

LEMMA BeginIInv ==
  ASSUME IInv, TypeOK', NEW c \in Calls, NEW r \in Requests, Begin(c, r)
  PROVE  IInv'
<1>1. /\ pc[c] = "idle" /\ pc'[c] = "making" /\ req'[c] = r
      /\ todo'[c] = Wanted(r) /\ fresh' = fresh /\ Issues(r)
      /\ UNCHANGED <<owner, offers, watched, issuing, uri, answer>>
      /\ \A d \in Calls \ {c} :
           pc'[d] = pc[d] /\ req'[d] = req[d] /\ todo'[d] = todo[d]
  BY DEF Begin, stores, IInv, TypeOK
<1>2. Mine(c) = {} /\ uri[c] = {}
  BY <1>1 DEF IInv, CallInv, NothingMade
<1>3. c \notin fresh
  BY <1>1 DEF IInv, CallInv, FreshInv
<1>4. Frame(c) /\ StoresHoldIssued' /\ Mine(c)' = {}
  BY <1>1, <1>2, <1>3, QuietFrame
<1>5. r.method # "receive" => Len(Wanted(r)) <= 1
  BY <1>1, RequestLemma
<1>6. WorkInv(c)'
  <2>1. Carries(uri[c], Stored(c))'
    BY <1>1, <1>2, <1>4 DEF Stored, Carries
  <2>2. r.method # "receive" => Len(todo'[c]) <= 1
    BY <1>1, <1>5
  <2>3. uri'[c] = {} /\ Issues(req[c])'
    BY <1>1, <1>2 DEF Issues
  <2> QED
    BY <1>1, <1>4, <2>1, <2>2, <2>3 DEF WorkInv
<1> QED
  BY <1>1, <1>3, <1>4, <1>6, FrameIInv
     DEF CallInv, NothingMade, FoundInv, DoneInv, FreshInv

LEMMA FindOfferIInv ==
  ASSUME IInv, TypeOK', NEW c \in Calls, NEW r \in Requests, FindOffer(c, r)
  PROVE  IInv'
<1>1. /\ pc[c] = "idle" /\ r.method = "disable_offer" /\ r.offer \in HandedOut
      /\ UNCHANGED <<owner, offers, watched, todo, issuing, uri>>
      /\ req' = [req EXCEPT ![c] = r]
  BY DEF FindOffer, stores
<1>2. r.offer \in Offers /\ r.offer \in Instructions
  <2>1. r.offer \in Instructions
    BY <1>1, HandedOutLemma DEF IInv
  <2> QED
    BY <1>1, <2>1, RequestLemma, ReceivingAssumption
<1>3. CASE offers[r.offer] # "absent" /\ pc' = [pc EXCEPT ![c] = "found"]
           /\ UNCHANGED <<answer, fresh>>
  <2>1. /\ pc'[c] = "found" /\ req'[c] = r
        /\ \A d \in Calls \ {c} : pc'[d] = pc[d] /\ req'[d] = req[d]
    BY <1>1, <1>3 DEF IInv, TypeOK
  <2>2. Mine(c) = {} /\ uri[c] = {} /\ c \notin fresh
    BY <1>1 DEF IInv, CallInv, NothingMade, FreshInv
  <2>3. Frame(c) /\ StoresHoldIssued' /\ Mine(c)' = {}
    BY <1>1, <1>3, <2>1, <2>2, QuietFrame
  <2> QED
    BY <1>1, <1>2, <1>3, <2>1, <2>2, <2>3, FrameIInv
       DEF CallInv, WorkInv, Working, NothingMade, FoundInv, DoneInv, FreshInv
<1>4. CASE offers[r.offer] = "absent" /\ Answer(c, Err("NotFound"))
  <2>1. Missing(r.offer)
    BY <1>1, <1>2, <1>4, AbsentIsMissing DEF Known
  <2> QED
    BY <1>1, <1>4, <2>1, AnswerIInv DEF Err, Issues
<1> QED
  BY <1>3, <1>4 DEF FindOffer

LEMMA StartIInv ==
  ASSUME IInv, TypeOK', NEW c \in Calls, Start(c)
  PROVE  IInv'
<1> PICK r \in Requests :
      \/ Refuse(c, r) \/ Begin(c, r) \/ FindOffer(c, r) \/ LookupAddress(c, r)
      \/ ListOffers(c, r) \/ ListAddresses(c, r)
  BY DEF Start
<1>1. CASE Refuse(c, r)
  BY <1>1, AnswerIInv DEF Refuse, Err, stores
<1>2. CASE LookupAddress(c, r)
  <2>1. /\ pc[c] = "idle" /\ r.method = "lookup_address" /\ r.address \in HandedOut
        /\ UNCHANGED <<owner, offers, watched, todo, issuing, uri>>
        /\ req' = [req EXCEPT ![c] = r]
    BY <1>2 DEF LookupAddress, stores
  <2>2. r.address \in Addresses
    BY <2>1, RequestLemma
  <2>3. CASE r.address \in watched
    <3>1. Answer(c, Ok({r.address}))
      BY <1>2, <2>3 DEF LookupAddress
    <3>2. Out(r.address)
      BY <2>3 DEF IInv, StoresHoldIssued
    <3> QED
      BY <2>1, <3>1, <3>2, AnswerIInv DEF Ok, Issues
  <2>4. CASE r.address \notin watched
    <3>1. Answer(c, Err("NotFound"))
      BY <1>2, <2>4 DEF LookupAddress
    <3>2. Missing(r.address)
      BY <2>1, <2>2, <2>4, AbsentIsMissing DEF Known
    <3> QED
      BY <2>1, <3>1, <3>2, AnswerIInv DEF Err, Issues
  <2> QED
    BY <2>3, <2>4
<1>3. CASE ListOffers(c, r)
  <2> DEFINE g == { o \in Offers : \/ offers[o] = "active"
                                   \/ offers[o] = "disabled" /\ ~r.activeOnly }
  <2>1. /\ pc[c] = "idle" /\ r.method = "list_offers" /\ Answer(c, Ok(g))
        /\ UNCHANGED <<owner, offers, watched, todo, issuing, uri>>
        /\ req' = [req EXCEPT ![c] = r]
    BY <1>3 DEF ListOffers, stores
  <2>2. \A i \in g : Out(i)
    BY DEF IInv, StoresHoldIssued
  <2> HIDE DEF g
  <2> QED
    BY <2>1, <2>2, AnswerIInv DEF Ok, Issues
<1>4. CASE ListAddresses(c, r)
  BY <1>4, AnswerIInv DEF ListAddresses, Ok, Issues, stores, IInv, StoresHoldIssued
<1> QED
  BY <1>1, <1>2, <1>3, <1>4, BeginIInv, FindOfferIInv

LEMMA IssueIInv ==
  ASSUME IInv, TypeOK', NEW c \in Calls, Issue(c)
  PROVE  IInv'
<1>1. /\ pc[c] = "making" /\ todo[c] # <<>> /\ todo[c] \in Seq(Entries)
      /\ UNCHANGED <<offers, watched, req, answer, crashes, fresh>>
      /\ c # None /\ Working(c)
  BY ReceivingAssumption DEF Issue, stores, Working, IInv, TypeOK
<1>2. PICK i \in Instructions :
        /\ owner[i] = None
        /\ owner' = [owner EXCEPT ![i] = c]
        /\ IF i \in Invoices
           THEN /\ uri' = [uri EXCEPT ![c] = @ \cup {i}]
                /\ todo' = [todo EXCEPT ![c] = Tail(@)]
                /\ UNCHANGED <<pc, issuing>>
           ELSE /\ issuing' = [issuing EXCEPT ![c] = i]
                /\ pc' = [pc EXCEPT ![c] = "storing"]
                /\ UNCHANGED <<uri, todo>>
  <2>1. Head(todo[c]) \in Entries
    BY <1>1, TailLemma
  <2> QED
    BY <2>1, KindLemma DEF Issue, Instructions
<1>3. /\ owner'[i] = c /\ \A j \in Instructions \ {i} : owner'[j] = owner[j]
      /\ Mine(c)' = Mine(c) \cup {i} /\ i \notin Mine(c)
  BY <1>1, <1>2 DEF IInv, TypeOK, Mine
<1>4. \A d \in Calls \ {c} :
        /\ pc'[d] = pc[d] /\ req'[d] = req[d] /\ todo'[d] = todo[d]
        /\ issuing'[d] = issuing[d] /\ uri'[d] = uri[d] /\ answer'[d] = answer[d]
        /\ \A j \in Instructions : owner'[j] = d <=> owner[j] = d
        /\ d \in fresh' <=> d \in fresh
  BY <1>1, <1>2, <1>3, ReceivingAssumption DEF IInv, TypeOK
<1>5. WorkInv(c) /\ c \notin fresh /\ ~Out(i)
  BY <1>1, <1>2 DEF IInv, CallInv, FreshInv, Out
<1>6. \A j \in Instructions : (Out(j) => Out(j)') /\ (Known(j) => Known(j)')
  <2> TAKE j \in Instructions
  <2>1. ASSUME Out(j) PROVE Out(j)'
    <3>1. j # i /\ owner'[j] # None
      BY <1>2, <1>3, <2>1 DEF Out
    <3>2. ASSUME NEW d \in Calls, pc'[d] = "storing" PROVE issuing'[d] # j
      <4>1. CASE d = c
        BY <1>1, <1>2, <3>1, <3>2, <4>1 DEF IInv, TypeOK
      <4>2. CASE d # c
        BY <1>4, <2>1, <3>2, <4>2 DEF Out
      <4> QED
        BY <4>1, <4>2
    <3> QED
      BY <3>1, <3>2 DEF Out
  <2>2. Known(j) => Known(j)'
    BY <1>1 DEF Known
  <2> QED
    BY <2>1, <2>2
<1>7. StoresHoldIssued'
  BY <1>1, <1>6 DEF IInv, TypeOK, StoresHoldIssued, Instructions
<1>8. CASE i \in Invoices
  <2>1. pc'[c] = "making" /\ uri'[c] = uri[c] \cup {i} /\ todo'[c] = Tail(todo[c])
        /\ UNCHANGED <<pc, issuing>>
    BY <1>1, <1>2, <1>8 DEF IInv, TypeOK
  <2>2. Frame(c)
    BY <1>1, <1>4, <1>5, <1>6, <2>1 DEF Frame
  <2>3. Known(i)' /\ Out(i)'
    <3>1. Known(i)'
      BY <1>8, ReceivingAssumption DEF Known
    <3>2. \A d \in Calls : pc[d] = "storing" => issuing[d] # i
      BY <1>2, ReceivingAssumption DEF IInv, TypeOK
    <3> QED
      BY <1>1, <1>3, <2>1, <3>1, <3>2 DEF Out
  <2>4. \A j \in uri'[c] : Known(j)' /\ Out(j)'
    BY <1>1, <1>5, <1>6, <2>1, <2>3 DEF WorkInv, IInv, TypeOK
  <2>5. Carries(uri[c], Stored(c))'
    <3>1. Carries(uri[c], Mine(c)) /\ i \notin Addresses
      BY <1>1, <1>5, <1>8, ReceivingAssumption DEF WorkInv, Stored
    <3>2. Carries(uri[c] \cup {i}, Mine(c) \cup {i})
      BY <3>1 DEF Carries
    <3> QED
      BY <1>3, <2>1, <3>2 DEF Carries, Stored
  <2>6. req[c].method # "receive" => Len(todo'[c]) <= 1 /\ todo'[c] = <<>>
    BY <1>1, <1>5, <2>1, TailLemma DEF WorkInv
  <2>7. WorkInv(c)'
    BY <1>1, <1>5, <2>1, <2>4, <2>5, <2>6 DEF WorkInv, Issues
  <2> QED
    BY <1>1, <1>5, <1>7, <2>1, <2>2, <2>7, FrameIInv
       DEF CallInv, NothingMade, FoundInv, DoneInv, FreshInv
<1>9. CASE i \notin Invoices
  <2>1. pc'[c] = "storing" /\ issuing'[c] = i /\ UNCHANGED <<uri, todo>>
    BY <1>1, <1>2, <1>9 DEF IInv, TypeOK
  <2>2. Frame(c)
    BY <1>1, <1>4, <1>5, <1>6, <2>1 DEF Frame
  <2>3. Stored(c)' = Stored(c)
    BY <1>1, <1>3, <2>1 DEF Stored
  <2>4. \A j \in uri[c] : Known(j)' /\ Out(j)'
    BY <1>1, <1>5, <1>6 DEF WorkInv, IInv, TypeOK
  <2>5. WorkInv(c)'
    BY <1>1, <1>5, <2>1, <2>3, <2>4 DEF WorkInv, Carries, Issues
  <2> QED
    BY <1>1, <1>5, <1>7, <2>1, <2>2, <2>5, FrameIInv
       DEF CallInv, NothingMade, FoundInv, DoneInv, FreshInv
<1> QED
  BY <1>8, <1>9

LEMMA PushCarries ==
  ASSUME NEW made, NEW given, NEW i \in made, i \in Offers \cup Addresses,
         Carries(given, made \ {i})
  PROVE  Carries(Push(given, i), made)
<1>1. CASE i \in Addresses
  <2>1. Push(given, i) = (given \ Addresses) \cup {i}
    BY <1>1 DEF Push
  <2> QED
    BY <1>1, <2>1 DEF Carries
<1>2. CASE i \notin Addresses
  <2>1. Push(given, i) = given \cup {i}
    BY <1>2 DEF Push
  <2> QED
    BY <1>2, <2>1 DEF Carries
<1> QED
  BY <1>1, <1>2

LEMMA StoreIInv ==
  ASSUME IInv, TypeOK', NEW c \in Calls, Store(c)
  PROVE  IInv'
<1> DEFINE i == issuing[c]
<1>1. /\ pc[c] = "storing" /\ pc'[c] = "making" /\ Insert(i)
      /\ UNCHANGED <<owner, req, issuing, answer, fresh>>
      /\ uri'[c] = Push(uri[c], i) /\ todo'[c] = Tail(todo[c])
      /\ todo[c] # <<>> /\ todo[c] \in Seq(Entries)
      /\ i \in Offers \cup Addresses /\ i \in Mine(c) /\ Working(c)
      /\ \A d \in Calls \ {c} :
           pc'[d] = pc[d] /\ todo'[d] = todo[d] /\ uri'[d] = uri[d]
  BY DEF Store, Working, IInv, TypeOK, Mine, Instructions
<1>2. /\ Known(i)' /\ \A j \in Instructions : Known(j) => Known(j)'
      /\ \A o \in Offers \ {i} : offers'[o] = offers[o]
      /\ watched' = watched \cup ({i} \cap Addresses)
  BY <1>1 DEF Insert, Known, IInv, TypeOK
<1>3. ~Out(i) /\ WorkInv(c) /\ c \notin fresh
  BY <1>1 DEF Out, IInv, CallInv, FreshInv
<1>4. /\ \A j \in Instructions : Out(j) => Out(j)'
      /\ Out(i)'
  <2>1. \A d \in Calls : pc'[d] = "storing" => pc[d] = "storing" /\ d # c
    BY <1>1
  <2>2. \A d \in Calls \ {c} : pc[d] = "storing" => issuing[d] # i
    BY <1>1 DEF IInv, TypeOK, Mine
  <2>3. owner[i] # None
    BY <1>1, ReceivingAssumption DEF Mine
  <2> QED
    BY <1>1, <2>1, <2>2, <2>3 DEF Out
<1>5. \A o \in Offers : offers[o] = "disabled" => offers'[o] = "disabled"
  BY <1>1, <1>2, <1>3 DEF IInv, StoresHoldIssued
<1>6. \A j \in uri'[c] : j \in uri[c] \/ j = i
  BY <1>1 DEF Push
<1>7. Frame(c)
  BY <1>1, <1>2, <1>3, <1>4, <1>5, <1>6 DEF Frame
<1>8. StoresHoldIssued'
  <2>1. \A o \in Offers : offers'[o] # "absent" => o = i \/ Out(o)
    BY <1>2 DEF IInv, StoresHoldIssued
  <2>2. \A a \in watched' : a = i \/ Out(a)
    BY <1>2 DEF IInv, StoresHoldIssued
  <2> QED
    BY <1>1, <1>4, <2>1, <2>2 DEF StoresHoldIssued, IInv, TypeOK, Instructions
<1>9. Carries(uri[c], Stored(c))'
  <2>1. Carries(uri[c], Mine(c) \ {i})
    BY <1>1, <1>3 DEF WorkInv, Stored
  <2>2. Carries(uri'[c], Mine(c))
    BY <1>1, <2>1, PushCarries
  <2> QED
    BY <1>1, <2>2 DEF Carries, Stored, Mine
<1>10. \A j \in uri'[c] : Known(j)' /\ Out(j)'
  BY <1>1, <1>2, <1>3, <1>4, <1>6 DEF WorkInv, IInv, TypeOK
<1>11. req[c].method # "receive" => Len(todo'[c]) <= 1 /\ todo'[c] = <<>>
  BY <1>1, <1>3, TailLemma DEF WorkInv
<1>12. WorkInv(c)'
  BY <1>1, <1>3, <1>9, <1>10, <1>11 DEF WorkInv, Issues
<1> QED
  BY <1>1, <1>3, <1>7, <1>8, <1>12, FrameIInv
     DEF CallInv, NothingMade, FoundInv, DoneInv, FreshInv

LEMMA EndIInv ==
  ASSUME IInv, TypeOK', NEW c \in Calls, Skip(c) \/ Finish(c)
  PROVE  IInv'
<1>1. /\ pc[c] = "making" /\ Working(c) /\ todo[c] \in Seq(Entries)
      /\ UNCHANGED <<owner, offers, watched, req, issuing, uri>>
      /\ c \notin fresh /\ WorkInv(c)
      /\ Carries(uri[c], Mine(c)) /\ Issues(req[c])
  BY DEF Skip, Finish, stores, Working, IInv, TypeOK, CallInv, FreshInv, WorkInv, Stored
<1>2. CASE Skip(c) /\ req[c].method = "receive"
  <2>1. /\ todo' = [todo EXCEPT ![c] = Tail(@)]
        /\ UNCHANGED <<pc, answer, fresh>>
    BY <1>2 DEF Skip
  <2>2. \A d \in Calls \ {c} : todo'[d] = todo[d]
    BY <2>1 DEF IInv, TypeOK
  <2>3. Frame(c) /\ StoresHoldIssued' /\ Mine(c)' = Mine(c)
    BY <1>1, <2>1, <2>2, QuietFrame
  <2>4. \A j \in uri[c] : Known(j)' /\ Out(j)'
    BY <1>1, <2>3 DEF WorkInv, Frame, IInv, TypeOK
  <2>5. WorkInv(c)'
    BY <1>1, <1>2, <2>1, <2>3, <2>4 DEF WorkInv, Stored, Carries, Issues
  <2> QED
    BY <1>1, <2>1, <2>3, <2>5, FrameIInv
       DEF CallInv, NothingMade, FoundInv, DoneInv, FreshInv
<1>3. ASSUME NEW a, Answer(c, a), todo' = todo,
             \/ a = Ok(uri[c]) /\ Mine(c) # {}
             \/ a \in {Err("BadRequest"), Err("Internal")} /\ Mine(c) = {}
      PROVE  IInv'
  <2>1. /\ pc'[c] = "done" /\ answer'[c] = a /\ fresh' = fresh \cup {c}
        /\ \A d \in Calls \ {c} : pc'[d] = pc[d] /\ answer'[d] = answer[d]
    BY <1>3 DEF Answer, IInv, TypeOK
  <2>2. \A j \in a.given : j \in uri[c]
    BY <1>3 DEF Ok, Err
  <2>3. Frame(c) /\ StoresHoldIssued' /\ Mine(c)' = Mine(c)
    BY <1>1, <1>3, <2>1, <2>2, QuietFrame DEF Working
  <2>4. \A j \in a.given : Known(j)' /\ Out(j)'
    BY <1>1, <2>2, <2>3 DEF WorkInv, Frame, IInv, TypeOK
  <2>5. /\ a.code # "ok" => Mine(c) = {}
        /\ a.code = "ok" => Carries(a.given, Mine(c)) /\ Mine(c) # {}
        /\ a.code # "NotFound"
    BY <1>1, <1>3 DEF Ok, Err
  <2>6. req[c].method # "disable_offer"
    BY <1>1 DEF Issues
  <2>7. DoneInv(c)'
    BY <2>1, <2>3, <2>4, <2>5 DEF DoneInv, Carries
  <2>8. FreshInv(c)'
    BY <1>1, <2>1, <2>4, <2>5, <2>6 DEF FreshInv, Answered
  <2> QED
    BY <2>1, <2>3, <2>7, <2>8, FrameIInv
       DEF CallInv, WorkInv, Working, NothingMade, FoundInv
<1>4. CASE Skip(c) /\ req[c].method # "receive"
  BY <1>1, <1>3, <1>4 DEF Skip, WorkInv
<1>5. CASE Finish(c)
  <2>1. uri[c] = {} <=> Mine(c) = {}
    BY <1>1 DEF Carries
  <2> QED
    BY <1>3, <1>5, <2>1 DEF Finish
<1> QED
  BY <1>2, <1>4, <1>5

LEMMA DisableIInv ==
  ASSUME IInv, TypeOK', NEW c \in Calls, Disable(c)
  PROVE  IInv'
<1> DEFINE o == req[c].offer
<1>1. /\ pc[c] = "found" /\ pc'[c] = "done" /\ answer'[c] = Ok({})
      /\ fresh' = fresh \cup {c}
      /\ UNCHANGED <<owner, watched, req, todo, issuing, uri>>
      /\ \A d \in Calls \ {c} : pc'[d] = pc[d] /\ answer'[d] = answer[d]
      /\ offers' = [offers EXCEPT ![o] = "disabled"]
  BY DEF Disable, Answer, IInv, TypeOK
<1>2. o \in Offers /\ offers[o] # "absent" /\ req[c].method = "disable_offer"
      /\ Mine(c) = {}
  BY <1>1 DEF IInv, CallInv, FoundInv, NothingMade
<1>3. offers'[o] = "disabled" /\ \A q \in Offers \ {o} : offers'[q] = offers[q]
  BY <1>1, <1>2 DEF IInv, TypeOK
<1>4. \A j : (Out(j) => Out(j)') /\ (Known(j) => Known(j)')
  <2>1. \A d \in Calls : pc'[d] = "storing" => pc[d] = "storing"
    BY <1>1
  <2> QED
    BY <1>1, <1>3, <2>1 DEF Out, Known
<1>5. ~Issues(req[c])
  BY <1>2 DEF Issues
<1>6. Frame(c)
  BY <1>1, <1>3, <1>4, <1>5 DEF Frame, Working
<1>7. StoresHoldIssued'
  BY <1>1, <1>2, <1>3, <1>4 DEF IInv, StoresHoldIssued
<1>8. CallInv(c)'
  BY <1>1, <1>2, <1>3, <1>5
     DEF CallInv, WorkInv, Working, NothingMade, FoundInv, DoneInv, FreshInv,
         Answered, Ok, Mine, Issues
<1> QED
  BY <1>6, <1>7, <1>8, FrameIInv

LEMMA CrashIInv ==
  ASSUME IInv, TypeOK', Crash
  PROVE  IInv'
<1>1. /\ UNCHANGED <<owner, req, answer>> /\ fresh' = {} /\ watched' = {}
      /\ \A o \in Offers : offers'[o] = "absent"
      /\ \A c \in Calls :
           /\ pc'[c] = IF pc[c] \in {"idle", "done"} THEN pc[c] ELSE "lost"
           /\ uri'[c] = {}
  BY DEF Crash
<1>2. StoresHoldIssued'
  BY <1>1 DEF StoresHoldIssued
<1>3. \A i : Out(i) => Out(i)'
  BY <1>1 DEF Out
<1>4. ASSUME NEW c \in Calls PROVE CallInv(c)'
  <2>1. Mine(c)' = Mine(c)
    BY <1>1 DEF Mine
  <2>2. NothingMade(c) /\ DoneInv(c)
    BY DEF IInv, CallInv
  <2> QED
    BY <1>1, <1>3, <2>1, <2>2
       DEF CallInv, WorkInv, Working, NothingMade, FoundInv, DoneInv, FreshInv,
           Carries, Issues
<1> QED
  BY <1>2, <1>4 DEF IInv

(* No step of a call, payer or restart breaks the invariant.               *)
THEOREM StepIInv == IInv /\ [Next]_vars => IInv'
<1> SUFFICES ASSUME IInv, [Next]_vars PROVE IInv'
  OBVIOUS
<1>1. TypeOK'
  BY StepTypeOK DEF IInv
<1>2. ASSUME NEW c \in Calls, Act(c) PROVE IInv'
  BY <1>1, <1>2, IssueIInv, StoreIInv, EndIInv, DisableIInv DEF Act
<1>3. CASE UNCHANGED vars
  BY <1>1, <1>3
     DEF vars, stores, calls, IInv, StoresHoldIssued, Out, CallInv, WorkInv,
         Working, Carries, Stored, Mine, Known, Issues, NothingMade, FoundInv,
         DoneInv, FreshInv, Missing, Answered
<1> QED
  BY <1>1, <1>2, <1>3, StartIInv, CrashIInv DEF Next

(* The stores hold what was issued, and each call knows where it stands,   *)
(* for any number of calls.                                                *)
THEOREM Invariance == Spec => []IInv
BY InitIInv, StepIInv, PTL DEF Spec

-------------------------------------------------------------------------------
(* Whatever requests run side by side, what was handed out since the last  *)
(* start can be listed, looked up and disabled.                            *)
THEOREM WhatIsHandedOutIsKnown == Spec => []HandedOutIsKnown
<1>1. IInv => HandedOutIsKnown
  BY DEF IInv, CallInv, FreshInv, HandedOutIsKnown, Known, TypeOK
<1> QED
  BY <1>1, Invariance, PTL

(* No request fails after it has made something that could be paid.        *)
THEOREM ErrorsIssueNothing == Spec => []ErrorIssuesNothing
<1>1. IInv => ErrorIssuesNothing
  BY DEF IInv, CallInv, DoneInv, ErrorIssuesNothing
<1> QED
  BY <1>1, Invariance, PTL

(* What is made for a request goes into its response and no other.         *)
THEOREM WhatIsMadeIsHandedOut == Spec => []MadeIsHandedOut
<1>1. IInv => MadeIsHandedOut
  BY DEF IInv, CallInv, DoneInv, MadeIsHandedOut, Carries
<1> QED
  BY <1>1, Invariance, PTL

(* No request that runs beside a disable_offer undoes it.                  *)
THEOREM DisabledForThisLife == Spec => []DisabledStaysDisabled
<1>1. IInv => DisabledStaysDisabled
  BY DEF IInv, CallInv, FreshInv, DisabledStaysDisabled, TypeOK
<1> QED
  BY <1>1, Invariance, PTL

(* Without a restart nothing that was handed out is "not found".           *)
THEOREM NothingElseForgets == Spec => []OnlyRestartForgets
<1>1. IInv => OnlyRestartForgets
  BY DEF IInv, CallInv, FreshInv, Missing, OnlyRestartForgets, TypeOK
<1> QED
  BY <1>1, Invariance, PTL

===============================================================================
