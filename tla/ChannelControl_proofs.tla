------------------------- MODULE ChannelControl_proofs -------------------------
(* Theorems about ChannelControl, for any number of concurrent requests    *)
(* and channels.                                                           *)
EXTENDS ChannelControl, TLAPS

SetsFees(c, ch) == pc[c] = "found" /\ req[c].method = "set_fees" /\ req[c].ch = ch

(* A call that has found its channel serves a request that seeks one, and  *)
(* no channel that was ever listed is unused again.                        *)
FoundSeeks ==
  \A c \in Calls : pc[c] = "found" =>
    /\ req[c] \in Requests
    /\ Seeks(req[c])
    /\ req[c].ch \in Channels
    /\ stage[req[c].ch] # "none"

(* What a fee request has read lies in the window, like what is charged.   *)
SnapInWindow ==
  \A c \in Calls : \A ch \in Channels : SetsFees(c, ch) =>
    \A f \in Fields : snap[c][f] \in window[ch][f]

(* On a channel that is not muddled one fee request at a time is under     *)
(* way, and what it has read is what the node charges.                     *)
SnapIsCurrent ==
  \A ch \in Channels \ muddled : \A c \in Calls : SetsFees(c, ch) =>
    /\ snap[c] = fees[ch]
    /\ \A d \in Calls : SetsFees(d, ch) => d = c

IInv ==
  /\ TypesOK
  /\ FoundSeeks
  /\ SnapInWindow
  /\ SnapIsCurrent
  /\ FeesGoBackNoFurther
  /\ FeesFollowRequests

-------------------------------------------------------------------------------
LEMMA SeekingRequests ==
  ASSUME NEW r \in Requests, Seeks(r)
  PROVE  /\ r.ch \in Channels
         /\ r.method = "set_fees" => r.fees \in [Fields -> Nat \cup {None}]
<1>1. r \in CloseRequests \cup FeesRequests
  BY ControlAssumption
     DEF Seeks, RequestType, OpenRequests, PeerRequests, CloseRequests, FeesRequests
<1> QED
  BY <1>1 DEF Seeks, Refuses, CloseRequests, FeesRequests

(* A fee that fits is kept, one that does not is dropped; nothing is made  *)
(* up.                                                                     *)
LEMMA OverrideLemma ==
  ASSUME NEW old \in Fees, NEW asked \in [Fields -> Nat \cup {None}]
  PROVE  /\ Override(old, Narrowed(asked)) \in Fees
         /\ \A f \in Fields : Override(old, Narrowed(asked))[f]
              \in {old[f]} \cup ({asked[f]} \ {None})
         /\ Override(old, asked) \in [Fields -> Nat]
BY ControlAssumption DEF Override, Narrowed, Narrow, Fees

(* No call has begun, so nothing is sought or remembered yet.              *)
THEOREM InitIInv == Init => IInv
<1> SUFFICES ASSUME Init PROVE IInv
  OBVIOUS
<1>1. DefaultFees \in Fees /\ Fees \subseteq [Fields -> Nat]
  BY ControlAssumption DEF Fees
<1>2. TypesOK
  BY <1>1 DEF Init, TypesOK, Stages, Only
<1> QED
  BY <1>1, <1>2
     DEF Init, IInv, FoundSeeks, SnapInWindow, SnapIsCurrent, SetsFees,
         FeesGoBackNoFurther, FeesFollowRequests, Only

(* Steps that leave the fees and their history alone, and after which no   *)
(* more calls have found a channel than before.                            *)
LEMMA QuietIInv ==
  ASSUME IInv,
         stage' \in [Channels -> Stages],
         \A ch \in Channels : stage[ch] # "none" => stage'[ch] # "none",
         connected' \subseteq Peers,
         UNCHANGED <<fees, snap, history>>,
         \/ UNCHANGED <<pc, req, answer>>
         \/ \E c \in Calls, r \in Requests,
               a \in {"ok", "BadRequest", "ChannelFailed", "ConnectionFailed"} :
              Answer(c, r, a)
  PROVE  IInv'
<1>1. TypesOK'
  BY DEF IInv, TypesOK, Answer, history
<1>2. \A c \in Calls : pc'[c] = "found" => pc[c] = "found" /\ req'[c] = req[c]
  BY DEF Answer, IInv, TypesOK
<1>3. \A c \in Calls, ch \in Channels : SetsFees(c, ch)' => SetsFees(c, ch)
  BY <1>2 DEF SetsFees
<1>4. FoundSeeks'
  BY <1>2 DEF FoundSeeks, IInv, Seeks, Refuses
<1> QED
  BY <1>1, <1>3, <1>4
     DEF IInv, SnapInWindow, SnapIsCurrent, FeesGoBackNoFurther,
         FeesFollowRequests, history

-------------------------------------------------------------------------------
(* The steps other than Open, Find and SetFees leave the fees alone.       *)
LEMMA QuietSteps ==
  ASSUME IInv,
         \/ \E c \in Calls : \E r \in Requests :
              \/ Refuse(c, r) \/ Fail(c, r) \/ Connect(c, r)
              \/ Disconnect(c, r) \/ NotFound(c, r)
         \/ \E c \in Calls : ActFails(c) \/ Close(c)
         \/ \E ch \in Channels : Confirm(ch) \/ Vanish(ch)
         \/ \E p \in Peers : PeerMoves(p)
  PROVE  IInv'
<1> USE DEF IInv, node, history
<1>1. CASE \E c \in Calls : \E r \in Requests :
             \/ Refuse(c, r) \/ Fail(c, r) \/ Connect(c, r)
             \/ Disconnect(c, r) \/ NotFound(c, r)
  <2> PICK c \in Calls : \E r \in Requests :
             \/ Refuse(c, r) \/ Fail(c, r) \/ Connect(c, r)
             \/ Disconnect(c, r) \/ NotFound(c, r)
    BY <1>1
  <2> PICK r \in Requests :
             \/ Refuse(c, r) \/ Fail(c, r) \/ Connect(c, r)
             \/ Disconnect(c, r) \/ NotFound(c, r)
    OBVIOUS
  <2>1. /\ UNCHANGED <<stage, fees, history, snap>>
        /\ \E a \in {"ok", "BadRequest", "ChannelFailed", "ConnectionFailed"} :
             Answer(c, r, a)
    BY DEF Refuse, Fail, Connect, Disconnect, NotFound, Answer
  <2>2. r.method = "connect" => r.peer \in Peers
    BY ControlAssumption
       DEF RequestType, OpenRequests, CloseRequests, FeesRequests, PeerRequests
  <2>3. connected' \subseteq Peers
    BY <2>2 DEF Refuse, Fail, Connect, Disconnect, NotFound, TypesOK
  <2> QED
    BY <2>1, <2>3, QuietIInv DEF TypesOK
<1>2. CASE \E c \in Calls : ActFails(c) \/ Close(c)
  <2> PICK c \in Calls : ActFails(c) \/ Close(c)
    BY <1>2
  <2>1. req[c] \in Requests /\ req[c].ch \in Channels
    BY DEF ActFails, Close, FoundSeeks
  <2>2. /\ UNCHANGED <<fees, connected, history, snap>>
        /\ \E a \in {"ok", "BadRequest", "ChannelFailed", "ConnectionFailed"} :
             Answer(c, req[c], a)
    BY DEF ActFails, Close, Answer
  <2>3. /\ stage' \in [Channels -> Stages]
        /\ \A ch \in Channels : stage[ch] # "none" => stage'[ch] # "none"
    BY <2>1 DEF ActFails, Close, TypesOK, Stages
  <2> QED
    BY <2>1, <2>2, <2>3, QuietIInv DEF TypesOK
<1>3. CASE \E ch \in Channels : Confirm(ch) \/ Vanish(ch)
  <2> PICK ch \in Channels : Confirm(ch) \/ Vanish(ch)
    BY <1>3
  <2>1. /\ stage' \in [Channels -> Stages]
        /\ \A d \in Channels : stage[d] # "none" => stage'[d] # "none"
    BY DEF Confirm, Vanish, TypesOK, Stages
  <2>2. UNCHANGED <<fees, connected, pc, req, snap, answer, history>>
    BY DEF Confirm, Vanish
  <2> QED
    BY <2>1, <2>2, QuietIInv DEF TypesOK
<1>4. CASE \E p \in Peers : PeerMoves(p)
  BY <1>4, QuietIInv DEF PeerMoves, TypesOK
<1> QED
  BY <1>1, <1>2, <1>3, <1>4

(* A new channel has no request under way, so its fees and their history   *)
(* start afresh together.                                                  *)
LEMMA OpenStep ==
  ASSUME IInv, NEW c \in Calls, NEW r \in Requests, Open(c, r)
  PROVE  IInv'
<1> USE DEF IInv
<1> PICK new \in Channels :
       /\ stage[new] = "none"
       /\ stage' = [stage EXCEPT ![new] = "pending"]
       /\ fees' = [fees EXCEPT ![new] = DefaultFees]
       /\ latest' = [latest EXCEPT ![new] = DefaultFees]
       /\ window' = [window EXCEPT ![new] = Only(DefaultFees)]
  BY DEF Open
<1>0. r.peer \in Peers
  BY ControlAssumption
     DEF Open, RequestType, OpenRequests, CloseRequests, FeesRequests, PeerRequests
<1>1. DefaultFees \in Fees /\ Fees \subseteq [Fields -> Nat]
  BY ControlAssumption DEF Fees
<1>2. TypesOK'
  <2>1. Only(DefaultFees) \in [Fields -> SUBSET Nat]
    BY <1>1 DEF Only, Fees
  <2> QED
    BY <1>0, <1>1, <2>1 DEF Open, TypesOK, Answer, Stages
<1>3. \A d \in Calls : pc'[d] = "found" => pc[d] = "found" /\ req'[d] = req[d]
  BY DEF Open, Answer, TypesOK
<1>4. \A d \in Calls, ch \in Channels : SetsFees(d, ch)' => SetsFees(d, ch)
  BY <1>3 DEF SetsFees
<1>5. \A d \in Calls : ~SetsFees(d, new)
  BY DEF SetsFees, FoundSeeks
<1>6. UNCHANGED <<muddled, snap>>
  BY DEF Open, Answer
<1>7. FoundSeeks'
  BY <1>3 DEF FoundSeeks, Seeks, Refuses, TypesOK, Stages
<1>8. SnapInWindow' /\ SnapIsCurrent'
  BY <1>4, <1>5, <1>6 DEF SnapInWindow, SnapIsCurrent, TypesOK
<1>9. FeesGoBackNoFurther' /\ FeesFollowRequests'
  BY <1>1, <1>6 DEF FeesGoBackNoFurther, FeesFollowRequests, TypesOK, Only
<1> QED
  BY <1>2, <1>7, <1>8, <1>9

(* A call reads what the node charges; if another has read it before, the  *)
(* channel is muddled.                                                     *)
LEMMA FindStep ==
  ASSUME IInv, NEW c \in Calls, NEW r \in Requests, Find(c, r)
  PROVE  IInv'
<1> USE DEF IInv
<1>1. r.ch \in Channels
  BY SeekingRequests DEF Find
<1>2. /\ pc' = [pc EXCEPT ![c] = "found"]
      /\ req' = [req EXCEPT ![c] = r]
      /\ snap' = [snap EXCEPT ![c] = fees[r.ch]]
      /\ muddled \subseteq muddled'
      /\ window' = Opened(c, r)
      /\ UNCHANGED <<stage, fees, latest>>
  BY DEF Find, node
<1>a. /\ fees[r.ch] \in [Fields -> Nat]
      /\ Only(fees[r.ch]) \in [Fields -> SUBSET Nat]
      /\ \A f \in Fields : Only(fees[r.ch])[f] = {fees[r.ch][f]}
  BY <1>1, ControlAssumption DEF Only, TypesOK, Fees
<1>b. \A ch \in Channels :
        \/ window'[ch] = window[ch]
        \/ /\ ch = r.ch /\ r.method = "set_fees" /\ ~Overlaps(c, ch)
           /\ window'[ch] = Only(fees[ch])
  BY <1>1, <1>2 DEF Opened, TypesOK
<1>c. window' \in [Channels -> [Fields -> SUBSET Nat]]
  BY <1>1, <1>2, <1>a DEF Opened, TypesOK
<1>3. TypesOK'
  BY <1>1, <1>2, <1>c DEF Find, TypesOK, node
<1>4. FoundSeeks'
  BY <1>1, <1>2 DEF Find, FoundSeeks, Seeks, Refuses, Listed, TypesOK
<1>5. \A d \in Calls, ch \in Channels : SetsFees(d, ch)' =>
        IF d = c THEN ch = r.ch /\ r.method = "set_fees" /\ snap'[d] = fees[ch]
                 ELSE SetsFees(d, ch) /\ snap'[d] = snap[d]
  BY <1>2 DEF SetsFees, TypesOK
<1>6. SnapInWindow'
  <2> SUFFICES ASSUME NEW d \in Calls, NEW ch \in Channels, SetsFees(d, ch)',
                      NEW f \in Fields
               PROVE  snap'[d][f] \in window'[ch][f]
    BY DEF SnapInWindow
  <2>1. CASE d = c
    BY <1>5, <1>a, <1>b, <2>1 DEF FeesGoBackNoFurther
  <2>2. CASE d # c
    <3>1. SetsFees(d, ch) /\ snap'[d] = snap[d]
      BY <1>5, <2>2
    <3>2. Overlaps(c, ch)
      BY <2>2, <3>1 DEF Overlaps, SetsFees
    <3> QED
      BY <1>b, <3>1, <3>2 DEF SnapInWindow
  <2> QED
    BY <2>1, <2>2
<1>7. ASSUME r.method = "set_fees", r.ch \notin muddled',
             NEW d \in Calls, SetsFees(d, r.ch)
      PROVE  d = c
  BY <1>1, <1>7 DEF Find, Overlaps, SetsFees
<1>8. SnapIsCurrent'
  BY <1>2, <1>5, <1>7 DEF SnapIsCurrent
<1>9. FeesGoBackNoFurther' /\ FeesFollowRequests'
  BY <1>2, <1>a, <1>b DEF FeesGoBackNoFurther, FeesFollowRequests
<1> QED
  BY <1>3, <1>4, <1>6, <1>8, <1>9

(* The node is given the fees read in Find with the named ones replaced:   *)
(* on a channel that is not muddled, those are the current ones.           *)
LEMMA SetFeesStep ==
  ASSUME IInv, NEW c \in Calls, SetFees(c)
  PROVE  IInv'
<1> USE DEF IInv
<1> DEFINE ch == req[c].ch
           asked == req[c].fees
<1>1. /\ SetsFees(c, ch) /\ req[c] \in Requests /\ Seeks(req[c])
      /\ ch \in Channels /\ asked \in [Fields -> Nat \cup {None}]
  BY SeekingRequests DEF SetFees, SetsFees, FoundSeeks
<1>2. /\ fees' = [fees EXCEPT ![ch] = Override(snap[c], Narrowed(asked))]
      /\ window' = [window EXCEPT ![ch] = [f \in Fields |-> @[f] \cup ({asked[f]} \ {None})]]
      /\ latest' = [latest EXCEPT ![ch] = Override(@, asked)]
      /\ muddled \subseteq muddled' /\ muddled' \subseteq muddled \cup {ch}
      /\ ch \notin muddled' => Narrowed(asked) = asked
      /\ UNCHANGED <<stage, connected, snap>>
      /\ Answer(c, req[c], "ok")
  BY DEF SetFees, NewFees, Answer
<1>3. snap[c] \in Fees /\ fees[ch] \in Fees /\ latest[ch] \in [Fields -> Nat]
  BY <1>1 DEF TypesOK
<1>4. /\ Override(snap[c], Narrowed(asked)) \in Fees
      /\ \A f \in Fields : Override(snap[c], Narrowed(asked))[f]
           \in {snap[c][f]} \cup ({asked[f]} \ {None})
  BY <1>1, <1>3, OverrideLemma
<1>5. Override(latest[ch], asked) \in [Fields -> Nat]
  BY <1>1, <1>3, ControlAssumption DEF Override
<1>6. [f \in Fields |-> window[ch][f] \cup ({asked[f]} \ {None})]
        \in [Fields -> SUBSET Nat]
  <2>1. \A f \in Fields : window[ch][f] \in SUBSET Nat /\ {asked[f]} \ {None} \subseteq Nat
    BY <1>1 DEF TypesOK
  <2> QED
    BY <2>1
<1>7. TypesOK'
  BY <1>1, <1>2, <1>4, <1>5, <1>6 DEF TypesOK, Answer
<1>8. \A d \in Calls : pc'[d] = "found" => d # c /\ pc[d] = "found" /\ req'[d] = req[d]
  BY <1>2 DEF Answer, TypesOK
<1>9. \A d \in Calls, e \in Channels : SetsFees(d, e)' => d # c /\ SetsFees(d, e)
  BY <1>8 DEF SetsFees
<1>10. FoundSeeks'
  BY <1>2, <1>8 DEF FoundSeeks, Seeks, Refuses
<1>11. \A e \in Channels : \A f \in Fields :
         /\ window[e][f] \subseteq window'[e][f]
         /\ e = ch => window'[e][f] = window[e][f] \cup ({asked[f]} \ {None})
  BY <1>1, <1>2 DEF TypesOK
<1>12. SnapInWindow'
  BY <1>2, <1>9, <1>11 DEF SnapInWindow
<1>13. FeesGoBackNoFurther'
  <2>1. \A f \in Fields : fees'[ch][f] \in window'[ch][f]
    <3>1. \A f \in Fields : snap[c][f] \in window[ch][f]
      BY <1>1 DEF SnapInWindow
    <3>2. fees'[ch] = Override(snap[c], Narrowed(asked))
      BY <1>1, <1>2 DEF TypesOK
    <3> HIDE DEF ch, asked
    <3> QED
      BY <1>1, <1>4, <1>11, <3>1, <3>2
  <2>2. \A e \in Channels \ {ch} : fees'[e] = fees[e] /\ window'[e] = window[e]
    BY <1>2 DEF TypesOK
  <2> QED
    BY <2>1, <2>2 DEF FeesGoBackNoFurther
<1>14. SnapIsCurrent'
  BY <1>1, <1>2, <1>9 DEF SnapIsCurrent, TypesOK
<1>15. ASSUME ch \notin muddled'
       PROVE  fees'[ch] = latest'[ch]
  <2>1. ch \notin muddled /\ Narrowed(asked) = asked
    BY <1>2, <1>15
  <2>2. snap[c] = latest[ch]
    BY <1>1, <2>1 DEF SnapIsCurrent, FeesFollowRequests
  <2> QED
    BY <1>1, <1>2, <2>1, <2>2 DEF TypesOK
<1>16. FeesFollowRequests'
  BY <1>1, <1>2, <1>15 DEF FeesFollowRequests, TypesOK
<1> QED
  BY <1>7, <1>10, <1>12, <1>13, <1>14, <1>16

(* No step of a control call, of a peer or of ldk-node breaks the          *)
(* invariant.                                                              *)
THEOREM StepIInv == IInv /\ [Next]_vars => IInv'
<1> SUFFICES ASSUME IInv, [Next]_vars PROVE IInv'
  OBVIOUS
<1>1. CASE UNCHANGED vars
  BY <1>1, QuietIInv DEF vars, node, IInv, TypesOK
<1>2. CASE Next
  <2>1. ASSUME NEW c \in Calls, NEW r \in Requests, Open(c, r) PROVE IInv'
    BY <2>1, OpenStep
  <2>2. ASSUME NEW c \in Calls, NEW r \in Requests, Find(c, r) PROVE IInv'
    BY <2>2, FindStep
  <2>3. ASSUME NEW c \in Calls, SetFees(c) PROVE IInv'
    BY <2>3, SetFeesStep
  <2> QED
    BY <1>2, <2>1, <2>2, <2>3, QuietSteps DEF Next, Start, Act
<1> QED
  BY <1>1, <1>2

(* Fees that a request has read or a channel charges lie in its window,    *)
(* and each call has found the channel it seeks, however many there are.   *)
THEOREM Invariance == Spec => []IInv
BY InitIInv, StepIInv, PTL DEF Spec

(* Overlapping fee requests undo nothing that was settled before the first *)
(* of them began, and charge nothing that nobody asked for.                *)
THEOREM OverlapUndoesNoMore == Spec => []FeesGoBackNoFurther
<1>1. IInv => FeesGoBackNoFurther
  BY DEF IInv
<1> QED
  BY <1>1, Invariance, PTL

(* Requests for a channel that do not overlap add up field by field.       *)
THEOREM FeesFollow == Spec => []FeesFollowRequests
<1>1. IInv => FeesFollowRequests
  BY DEF IInv
<1> QED
  BY <1>1, Invariance, PTL

-------------------------------------------------------------------------------
(* A channel that is closing or gone never leaves those two stages: what   *)
(* ldk-node's channel can still do once control.rs has asked to close it.  *)
LEMMA ClosingLasts ==
  ASSUME IInv, [Next]_vars, NEW ch \in Channels, stage[ch] \in {"closing", "gone"}
  PROVE  stage'[ch] \in {"closing", "gone"}
BY DEF IInv, TypesOK, FoundSeeks, Next, Start, Act, vars, node, history,
   Refuse, Fail, Open, Connect, Disconnect, NotFound, Find, ActFails, Close,
   SetFees, Confirm, Vanish, PeerMoves, Listed

AnswersHold ==
  \A c \in Calls :
    /\ pc[c] # "done" => answer[c] = "none"
    /\ answer[c] = "ok" /\ req[c].method = "close" =>
         req[c].ch \in Channels /\ stage[req[c].ch] \in {"closing", "gone"}
    /\ answer[c] = "ok" /\ req[c].method = "set_fees" =>
         req[c].ch # None /\ ~req[c].htlc

(* No request, and nothing that happens to a channel, undoes a close that  *)
(* was answered "ok", and no request that was partly honoured is answered  *)
(* so: AnswersHold is inductive relative to IInv.                          *)
LEMMA AnswersStep == IInv /\ AnswersHold /\ [Next]_vars => AnswersHold'
<1> SUFFICES ASSUME IInv, AnswersHold, [Next]_vars PROVE AnswersHold'
  OBVIOUS
<1>1. ASSUME NEW c \in Calls, UNCHANGED <<pc[c], req[c], answer[c]>>
      PROVE  /\ (pc[c] # "done" => answer[c] = "none")'
             /\ (answer[c] = "ok" /\ req[c].method = "close" =>
                   req[c].ch \in Channels /\ stage[req[c].ch] \in {"closing", "gone"})'
             /\ (answer[c] = "ok" /\ req[c].method = "set_fees" =>
                   req[c].ch # None /\ ~req[c].htlc)'
  BY <1>1, ClosingLasts DEF AnswersHold
<1>2. ASSUME NEW c \in Calls, NEW r \in Requests,
             Refuse(c, r) \/ Fail(c, r) \/ Open(c, r) \/ Connect(c, r)
               \/ Disconnect(c, r) \/ NotFound(c, r)
      PROVE  AnswersHold'
  <2>1. /\ \A d \in Calls \ {c} : UNCHANGED <<pc[d], req[d], answer[d]>>
        /\ pc'[c] = "done"
        /\ answer'[c] = "ok" => req'[c].method \notin {"close", "set_fees"}
    BY <1>2 DEF Refuse, Fail, Open, Connect, Disconnect, NotFound, Answer, IInv, TypesOK
  <2> QED
    BY <1>1, <2>1 DEF AnswersHold
<1>3. ASSUME NEW c \in Calls, NEW r \in Requests, Find(c, r) PROVE AnswersHold'
  <2>1. /\ \A d \in Calls \ {c} : UNCHANGED <<pc[d], req[d], answer[d]>>
        /\ answer'[c] = "none"
    BY <1>3 DEF Find, IInv, TypesOK, AnswersHold
  <2> QED
    BY <1>1, <2>1 DEF AnswersHold
<1>4. ASSUME NEW c \in Calls, ActFails(c) \/ SetFees(c) PROVE AnswersHold'
  <2>1. /\ \A d \in Calls \ {c} : UNCHANGED <<pc[d], req[d], answer[d]>>
        /\ pc'[c] = "done"
        /\ answer'[c] = "ok" => /\ req'[c].method # "close"
                                /\ req'[c].ch # None /\ ~req'[c].htlc
    BY <1>4 DEF ActFails, SetFees, Answer, IInv, TypesOK, FoundSeeks, Seeks, Refuses
  <2> QED
    BY <1>1, <2>1 DEF AnswersHold
<1>5. ASSUME NEW c \in Calls, Close(c) PROVE AnswersHold'
  <2>1. /\ \A d \in Calls \ {c} : UNCHANGED <<pc[d], req[d], answer[d]>>
        /\ pc'[c] = "done" /\ req'[c] = req[c] /\ req[c].method = "close"
    BY <1>5 DEF Close, Answer, IInv, TypesOK
  <2>2. req[c].ch \in Channels /\ stage[req[c].ch] # "none"
    BY <1>5 DEF Close, IInv, FoundSeeks
  <2>3. stage'[req[c].ch] \in {"closing", "gone"}
    BY <1>5, <2>2 DEF Close, Listed, Stages, IInv, TypesOK
  <2> QED
    BY <1>1, <2>1, <2>2, <2>3 DEF AnswersHold
<1>6. CASE (\E ch \in Channels : Confirm(ch) \/ Vanish(ch)) \/ (\E p \in Peers : PeerMoves(p))
  BY <1>1, <1>6 DEF Confirm, Vanish, PeerMoves, AnswersHold
<1>7. CASE UNCHANGED vars
  BY <1>1, <1>7 DEF vars, AnswersHold
<1> QED
  BY <1>2, <1>3, <1>4, <1>5, <1>6, <1>7 DEF Next, Start, Act

(* A close that was answered "ok" is under way or done, whatever requests  *)
(* and news of the network come after it (close_channel in control.rs).    *)
THEOREM ClosedForGood == Spec => []ClosedIsClosed
<1>1. Init => AnswersHold
  BY DEF Init, AnswersHold
<1>2. AnswersHold => ClosedIsClosed
  BY DEF AnswersHold, ClosedIsClosed
<1> QED
  BY <1>1, <1>2, AnswersStep, Invariance, PTL DEF Spec

(* The type invariant: whatever happens beside it, a call acts on a        *)
(* channel that was opened, and no fee request is honoured in part.        *)
THEOREM TypeCorrect == Spec => []TypeOK
<1>1. Init => AnswersHold
  BY DEF Init, AnswersHold
<1>2. IInv /\ AnswersHold => TypeOK
  BY DEF IInv, FoundSeeks, AnswersHold, TypeOK
<1> QED
  BY <1>1, <1>2, AnswersStep, Invariance, PTL DEF Spec

===============================================================================
