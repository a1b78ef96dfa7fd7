----------------------------- MODULE ChannelControl -----------------------------
(***************************************************************************)
(* The channel and peer methods of the control service (src/src/control.rs)*)
(* over LdkService (src/src/lightning/ldk_service.rs).                     *)
(*                                                                         *)
(* close_channel and set_channel_fees look the channel up in a copy of     *)
(* ldk-node's list and then act on what they found, in two calls; other    *)
(* requests, and the network, may act in between.  The channels and peers  *)
(* themselves are ldk-node's (external).                                   *)
(***************************************************************************)
EXTENDS Naturals

CONSTANTS
  Calls,       \* the requests of one run, one handler activation each
  Channels,    \* channels this node may ever have
  Peers,
  Requests,    \* the requests a controller may send
  DefaultFees, \* what ldk-node charges on a new channel
  FeeLimit,    \* the largest fee of the node's configuration, u32::MAX
  None

Fields == {"base", "rate"}
Fees == [Fields -> 0 .. FeeLimit]
Hosts == {"given", "missing", "malformed"}

OpenRequests == [method : {"open"}, peer : Peers, host : Hosts]
CloseRequests == [method : {"close"}, ch : Channels, force : BOOLEAN]
FeesRequests == [method : {"set_fees"}, ch : Channels \cup {None},
                 fees : [Fields -> Nat \cup {None}], htlc : BOOLEAN]
PeerRequests == [method : {"connect"}, peer : Peers, host : Hosts]
                  \cup [method : {"disconnect"}, peer : Peers]
RequestType == OpenRequests \cup CloseRequests \cup FeesRequests \cup PeerRequests

ASSUME ControlAssumption ==
  /\ FeeLimit \in Nat
  /\ DefaultFees \in Fees
  /\ Requests \subseteq RequestType
  /\ None \notin Nat \cup Channels

-------------------------------------------------------------------------------
VARIABLES
  stage,      \* ldk-node: what has become of each channel
  fees,       \* ldk-node: the forwarding fees of each channel
  connected,  \* ldk-node: the peers it is connected to
  pc,         \* where each call's handler is
  req,        \* the request a call serves
  snap,       \* the fees of the copy of the channel a call found
  answer,     \* what the handler returned
  window,     \* history: the values that a fee may have, see Find
  latest,     \* history: the fees as the accepted requests, in order, ask
  muddled     \* history: channels whose fee requests overlapped or lost a field

node == <<stage, fees, connected>>
history == <<window, latest, muddled>>
vars == <<node, pc, req, snap, answer, history>>

Stages == {"none", "pending", "ready", "closing", "gone"}
Listed(ch) == stage[ch] \in {"pending", "ready", "closing"}

Answer(c, r, a) ==
  /\ pc' = [pc EXCEPT ![c] = "done"]
  /\ req' = [req EXCEPT ![c] = r]
  /\ answer' = [answer EXCEPT ![c] = a]
  /\ UNCHANGED snap

-------------------------------------------------------------------------------
(* Seeded defect: HTLC bounds are ignored, the fees beside them taken.     *)
RefusesNoBounds(r) ==
  \/ r.method \in {"open", "connect"} /\ r.host = "missing"
  \/ r.method = "set_fees" /\ r.ch = None

(* What the handlers refuse before they call LdkService: no host, no       *)
(* channel id, or HTLC bounds, which LDK cannot set.                       *)
Refuses(r) ==
  \/ r.method \in {"open", "connect"} /\ r.host = "missing"
  \/ r.method = "set_fees" /\ (r.ch = None \/ r.htlc)

Refuse(c, r) ==
  /\ pc[c] = "idle"
  /\ Refuses(r)
  /\ Answer(c, r, "BadRequest")
  /\ UNCHANGED <<node, history>>

(* ldk-node or the parser of the peer's address reports an error.          *)
Fail(c, r) ==
  /\ pc[c] = "idle"
  /\ ~Refuses(r) /\ r.method \in {"open", "connect", "disconnect"}
  /\ Answer(c, r, IF r.method = "open" THEN "ChannelFailed" ELSE "ConnectionFailed")
  /\ UNCHANGED <<node, history>>

(* The window in which a fee can only be what it is.                       *)
Only(f) == [x \in Fields |-> {f[x]}]

(* open_channel acknowledges; the channel is pending until it confirms.    *)
Open(c, r) ==
  /\ pc[c] = "idle"
  /\ r.method = "open" /\ r.host = "given"
  /\ \E ch \in Channels :
       /\ stage[ch] = "none"
       /\ stage' = [stage EXCEPT ![ch] = "pending"]
       /\ fees' = [fees EXCEPT ![ch] = DefaultFees]
       /\ latest' = [latest EXCEPT ![ch] = DefaultFees]
       /\ window' = [window EXCEPT ![ch] = Only(DefaultFees)]
  /\ connected' = connected \cup {r.peer}
  /\ Answer(c, r, "ok")
  /\ UNCHANGED muddled

Connect(c, r) ==
  /\ pc[c] = "idle"
  /\ r.method = "connect" /\ r.host = "given"
  /\ connected' = connected \cup {r.peer}
  /\ Answer(c, r, "ok")
  /\ UNCHANGED <<stage, fees, history>>

Disconnect(c, r) ==
  /\ pc[c] = "idle"
  /\ r.method = "disconnect"
  /\ connected' = connected \ {r.peer}
  /\ Answer(c, r, "ok")
  /\ UNCHANGED <<stage, fees, history>>

-------------------------------------------------------------------------------
(* close_channel and set_channel_fees: look up, then act.                  *)
Seeks(r) == r.method \in {"close", "set_fees"} /\ ~Refuses(r)

NotFound(c, r) ==
  /\ pc[c] = "idle"
  /\ Seeks(r) /\ ~Listed(r.ch)
  /\ Answer(c, r, "ChannelFailed")
  /\ UNCHANGED <<node, history>>

(* Another fee request has read this channel and has yet to write it.      *)
Overlaps(c, ch) ==
  \E d \in Calls \ {c} :
    pc[d] = "found" /\ req[d].method = "set_fees" /\ req[d].ch = ch

(* A fee request that overlaps no other opens a window on the channel's    *)
(* fees: until the next such request, they should go back no further than  *)
(* to what they are now.                                                   *)
Opened(c, r) ==
  IF r.method # "set_fees" THEN window
  ELSE IF Overlaps(c, r.ch) THEN window
  ELSE [window EXCEPT ![r.ch] = Only(fees[r.ch])]

(* Seeded defect: the list of channels is kept from an earlier request.    *)
FindCached(c, r) ==
  /\ pc[c] = "idle"
  /\ Seeks(r) /\ Listed(r.ch)
  /\ pc' = [pc EXCEPT ![c] = "found"]
  /\ req' = [req EXCEPT ![c] = r]
  /\ \E d \in Calls :
       /\ d # c => pc[d] = "done" /\ req[d].method = "set_fees" /\ req[d].ch = r.ch
       /\ snap' = [snap EXCEPT ![c] = IF d = c THEN fees[r.ch] ELSE snap[d]]
  /\ window' = Opened(c, r)
  /\ muddled' = IF r.method = "set_fees" /\ Overlaps(c, r.ch)
                THEN muddled \cup {r.ch} ELSE muddled
  /\ UNCHANGED <<node, answer, latest>>

Find(c, r) ==
  /\ pc[c] = "idle"
  /\ Seeks(r) /\ Listed(r.ch)
  /\ pc' = [pc EXCEPT ![c] = "found"]
  /\ req' = [req EXCEPT ![c] = r]
  /\ snap' = [snap EXCEPT ![c] = fees[r.ch]]
  /\ window' = Opened(c, r)
  /\ muddled' = IF r.method = "set_fees" /\ Overlaps(c, r.ch)
                THEN muddled \cup {r.ch} ELSE muddled
  /\ UNCHANGED <<node, answer, latest>>

(* ldk-node reports an error, for whatever reason: it no longer knows the  *)
(* channel, will not close it in its present state, or cannot take or      *)
(* store the configuration.                                                *)
ActFails(c) ==
  /\ pc[c] = "found"
  /\ Answer(c, req[c], "ChannelFailed")
  /\ UNCHANGED <<node, history>>

(* Seeded defect: an error of ldk-node's close is not passed on.           *)
CloseUnchecked(c) ==
  /\ pc[c] = "found" /\ req[c].method = "close"
  /\ stage' \in {stage, [stage EXCEPT ![req[c].ch] =
                          IF req[c].force THEN "gone" ELSE "closing"]}
  /\ Answer(c, req[c], "ok")
  /\ UNCHANGED <<fees, connected, history>>

(* A forced close takes the channel off the list; a cooperative one has to *)
(* be negotiated first.  A channel that has gone since it was found needs  *)
(* no closing: ldk-node may answer either way.                             *)
Close(c) ==
  /\ pc[c] = "found" /\ req[c].method = "close"
  /\ stage' = [stage EXCEPT ![req[c].ch] =
                 IF ~Listed(req[c].ch) THEN @
                 ELSE IF req[c].force THEN "gone" ELSE "closing"]
  /\ Answer(c, req[c], "ok")
  /\ UNCHANGED <<fees, connected, history>>

(* Seeded defect: a cast, v as u32.                                        *)
NarrowByCast(v) == IF v = None THEN None ELSE v % (FeeLimit + 1)

(* u32::try_from(v).ok(): a fee that does not fit is no fee at all.        *)
Narrow(v) == IF v \in 0 .. FeeLimit THEN v ELSE None

Override(old, asked) ==
  [f \in Fields |-> IF asked[f] = None THEN old[f] ELSE asked[f]]

Narrowed(asked) == [f \in Fields |-> Narrow(asked[f])]

(* Seeded defect: the fields not named go back to their defaults.          *)
NewFeesFromDefaults(c) == Override(DefaultFees, Narrowed(req[c].fees))

NewFees(c) == Override(snap[c], Narrowed(req[c].fees))

(* update_channel_config: the whole configuration, as read in Find, with   *)
(* the named fields replaced.  That a channel which has left the list      *)
(* takes no configuration is ldk-node's own check.                         *)
SetFees(c) ==
  /\ pc[c] = "found" /\ req[c].method = "set_fees"
  /\ Listed(req[c].ch)
  /\ fees' = [fees EXCEPT ![req[c].ch] = NewFees(c)]
  /\ window' = [window EXCEPT ![req[c].ch] =
                 [f \in Fields |-> @[f] \cup ({req[c].fees[f]} \ {None})]]
  /\ latest' = [latest EXCEPT ![req[c].ch] = Override(@, req[c].fees)]
  /\ muddled' = IF Narrowed(req[c].fees) # req[c].fees
                THEN muddled \cup {req[c].ch} ELSE muddled
  /\ Answer(c, req[c], "ok")
  /\ UNCHANGED <<stage, connected>>

-------------------------------------------------------------------------------
(* The network: funding confirms, channels close from the other side or by *)
(* agreement, peers come and go.                                           *)
Confirm(ch) ==
  /\ stage[ch] = "pending"
  /\ stage' = [stage EXCEPT ![ch] = "ready"]
  /\ UNCHANGED <<fees, connected, pc, req, snap, answer, history>>

Vanish(ch) ==
  /\ Listed(ch)
  /\ stage' = [stage EXCEPT ![ch] = "gone"]
  /\ UNCHANGED <<fees, connected, pc, req, snap, answer, history>>

PeerMoves(p) ==
  /\ connected' \in {connected \cup {p}, connected \ {p}}
  /\ connected' # connected
  /\ UNCHANGED <<stage, fees, pc, req, snap, answer, history>>

-------------------------------------------------------------------------------
Init ==
  /\ stage = [ch \in Channels |-> "none"]
  /\ fees = [ch \in Channels |-> DefaultFees]
  /\ connected = {}
  /\ pc = [c \in Calls |-> "idle"]
  /\ req = [c \in Calls |-> None]
  /\ snap = [c \in Calls |-> DefaultFees]
  /\ answer = [c \in Calls |-> "none"]
  /\ window = [ch \in Channels |-> Only(DefaultFees)]
  /\ latest = [ch \in Channels |-> DefaultFees]
  /\ muddled = {}

Start(c) ==
  \E r \in Requests :
    \/ Refuse(c, r) \/ Fail(c, r) \/ Open(c, r) \/ Connect(c, r)
    \/ Disconnect(c, r) \/ NotFound(c, r) \/ Find(c, r)

Act(c) == ActFails(c) \/ Close(c) \/ SetFees(c)

Next ==
  \/ \E c \in Calls : Start(c) \/ Act(c)
  \/ \E ch \in Channels : Confirm(ch) \/ Vanish(ch)
  \/ \E p \in Peers : PeerMoves(p)

Spec == Init /\ [][Next]_vars

-------------------------------------------------------------------------------
TypesOK ==
  /\ stage \in [Channels -> Stages]
  /\ fees \in [Channels -> Fees]
  /\ connected \subseteq Peers
  /\ pc \in [Calls -> {"idle", "found", "done"}]
  /\ req \in [Calls -> Requests \cup {None}]
  /\ snap \in [Calls -> Fees]
  /\ answer \in [Calls -> {"none", "ok", "BadRequest", "ChannelFailed",
                           "ConnectionFailed"}]
  /\ window \in [Channels -> [Fields -> SUBSET Nat]]
  /\ latest \in [Channels -> [Fields -> Nat]]
  /\ muddled \subseteq Channels

(* Every variable keeps its type.  A call that has found a channel seeks   *)
(* one that was opened, and a fee request is answered "ok" only where it   *)
(* asks for nothing but the fees of one channel: one that names HTLC       *)
(* bounds too is refused, not partly honoured (set_channel_fees).          *)
TypeOK ==
  /\ TypesOK
  /\ \A c \in Calls :
       /\ pc[c] = "found" => Seeks(req[c]) /\ stage[req[c].ch] # "none"
       /\ (answer[c] = "ok" /\ req[c].method = "set_fees")
            => req[c].ch # None /\ ~req[c].htlc

(* However fee requests interleave, they undo no more than each other: a   *)
(* fee is what it was when the first of the requests now overlapping began *)
(* or what one accepted since then named, never a value from before that   *)
(* and never one that nobody asked for.                                    *)
FeesGoBackNoFurther ==
  \A ch \in Channels : \A f \in Fields : fees[ch][f] \in window[ch][f]

(* Where no two fee requests for a channel overlap and every fee fits, the *)
(* channel charges what the accepted requests, taken in order, ask: a      *)
(* request that names one field leaves the other as it was.                *)
FeesFollowRequests ==
  \A ch \in Channels \ muddled : fees[ch] = latest[ch]

(* A close that was answered "ok" has taken effect, and stays so.          *)
ClosedIsClosed ==
  \A c \in Calls : answer[c] = "ok" /\ req[c].method = "close" =>
    stage[req[c].ch] \in {"closing", "gone"}

-------------------------------------------------------------------------------
(* A claim of the source's comments: control.rs:227-231, a request that    *)
(* the node cannot honour whole "is refused rather than partly honoured.   *)
(* Silently ignoring half a fee policy is how a node ends up charging what *)
(* nobody asked it to".  Where every fee of the accepted requests fits,    *)
(* they are, in order, what the channel charges.                           *)
AcceptedFeesAreCharged ==
  (\A c \in Calls : answer[c] = "ok" /\ req[c].method = "set_fees" =>
     Narrowed(req[c].fees) = req[c].fees)
  => \A ch \in Channels : fees[ch] = latest[ch]

===============================================================================
