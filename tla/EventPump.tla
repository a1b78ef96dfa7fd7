------------------------------- MODULE EventPump -------------------------------
(***************************************************************************)
(* The event pump of service::run (src/src/service.rs) and events::handle  *)
(* (src/src/events.rs).                                                    *)
(*                                                                         *)
(* One task takes the head of ldk-node's event queue, handles it and marks *)
(* it handled.  The queue is ldk-node's: a copy in memory, written whole   *)
(* to disk at every change, reread at start.  The process may crash        *)
(* between any two steps.  (The queue, the channels and the signer are     *)
(* external; so is the delivery of a notification.)                        *)
(***************************************************************************)
EXTENDS Naturals, Sequences

CONSTANTS
  Channels,        \* channels that open and close
  Forwards,        \* payments this node forwards
  Notices,         \* PaymentReceived, PaymentSuccessful, PaymentClaimable
  Others,          \* events the pump has no arm for
  HasSigner,       \* a VLS keys manager is configured
  MaxCrashes,      \* bound: crashes in one behaviour
  MaxMarkFailures  \* bound: failed event_handled calls in one life

Events ==
  [kind : {"ready", "closed"}, of : Channels] \cup [kind : {"forwarded"}, of : Forwards]
    \cup [kind : {"notice"}, of : Notices] \cup [kind : {"other"}, of : Others]

ASSUME PumpAssumption ==
  /\ HasSigner \in BOOLEAN
  /\ MaxCrashes \in Nat
  /\ MaxMarkFailures \in Nat

VARIABLES
  emitted,      \* the events ldk-node has queued so far
  live,         \* the ready channels of ldk-node's list_channels
  queue,        \* the event queue in memory
  disk,         \* the event queue on disk
  pump,         \* where the pump is
  asked,        \* the channels the signer was asked about for this event
  history,      \* forwarding_store: how often each forward is recorded
  markFailures, \* failed event_handled calls in this life of the process
  crashes,
  attempted,    \* history: events handled, whatever became of the delivery
  delivered,    \* history: notifications that reached the transport
  lost,         \* history: events whose latest notification did not
  lastWord      \* history: what the controller last heard of each channel

external == <<emitted, live>>
ghosts == <<attempted, delivered, lost, lastWord>>
vars == <<external, queue, disk, pump, asked, history, markFailures, crashes, ghosts>>

Ready(ch) == [kind |-> "ready", of |-> ch]
Closed(ch) == [kind |-> "closed", of |-> ch]

InQueue(e, q) == \E i \in 1 .. Len(q) : q[i] = e

-------------------------------------------------------------------------------
(* ldk-node.  A channel becomes ready once and closes once, before or      *)
(* after it was ready; the event is on disk before anything else sees it.  *)
Emit(e) ==
  /\ pump # "down"
  /\ e \notin emitted
  /\ e.kind = "ready" => Closed(e.of) \notin emitted
  /\ emitted' = emitted \cup {e}
  /\ live' = IF e.kind = "ready" THEN live \cup {e.of}
             ELSE live \ {ch \in Channels : e = Closed(ch)}
  /\ queue' = Append(queue, e)
  /\ disk' = Append(queue, e)
  /\ UNCHANGED <<pump, asked, history, markFailures, crashes, ghosts>>

-------------------------------------------------------------------------------
(* The pump.                                                               *)

(* Seeded defect: ready channels are announced before the signer is asked  *)
(* about them.                                                             *)
FirstStepUnsigned(e) ==
  IF e.kind = "forwarded" THEN "recording" ELSE "announcing"

(* The arm of `handle` an event enters.                                    *)
FirstStep(e) ==
  CASE e.kind = "ready"     -> "signing"
    [] e.kind = "forwarded" -> "recording"
    [] e.kind = "other"     -> "handled"
    [] OTHER                -> "announcing"

(* Seeded defect: an event is marked before it is handled.                 *)
TakeAndMark ==
  /\ pump = "waiting" /\ queue # <<>>
  /\ pump' = FirstStep(Head(queue))
  /\ disk' = Tail(queue)
  /\ attempted' = IF FirstStep(Head(queue)) = "handled"
                  THEN attempted \cup {Head(queue)} ELSE attempted
  /\ asked' = {}
  /\ UNCHANGED <<external, queue, history, markFailures, crashes,
                 delivered, lost, lastWord>>

(* next_event_async: the head of the queue, which stays where it is.       *)
Take ==
  /\ pump = "waiting" /\ queue # <<>>
  /\ pump' = FirstStep(Head(queue))
  /\ attempted' = IF FirstStep(Head(queue)) = "handled"
                  THEN attempted \cup {Head(queue)} ELSE attempted
  /\ asked' = {}
  /\ UNCHANGED <<external, queue, disk, history, markFailures, crashes,
                 delivered, lost, lastWord>>

(* notify_channel_ready: nothing without a keys manager; a failure of the  *)
(* signer is printed, and the handling goes on as after a success.         *)
NotifySigner ==
  /\ pump = "signing"
  /\ asked' = IF HasSigner THEN {Head(queue).of} ELSE {}
  /\ pump' = "announcing"
  /\ UNCHANGED <<external, queue, disk, history, markFailures, crashes,
                 attempted, delivered, lost, lastWord>>

(* What the controller has heard, by whether a notification reached it.    *)
Reaches(e) ==
  /\ delivered' = delivered \cup {e}
  /\ lost' = lost \ {e}
  /\ lastWord' = IF e.kind \in {"ready", "closed"}
                 THEN [lastWord EXCEPT ![e.of] = e.kind] ELSE lastWord

IsLost(e) ==
  /\ lost' = lost \cup {e}
  /\ UNCHANGED <<delivered, lastWord>>

(* Announcement of a payment, or of a channel that opened or closed.  A    *)
(* failure to build or to deliver it is logged and no more: the controller *)
(* hears nothing, and the handling ends as after a delivery.               *)
Announce ==
  /\ pump = "announcing"
  /\ attempted' = attempted \cup {Head(queue)}
  /\ Reaches(Head(queue)) \/ IsLost(Head(queue))
  /\ pump' = "handled"
  /\ UNCHANGED <<external, queue, disk, asked, history, markFailures, crashes>>

(* record_forward, into the memory of this process.                        *)
RecordForward ==
  /\ pump = "recording"
  /\ history' = [history EXCEPT ![Head(queue).of] = @ + 1]
  /\ attempted' = attempted \cup {Head(queue)}
  /\ pump' = "handled"
  /\ UNCHANGED <<external, queue, disk, asked, markFailures, crashes,
                 delivered, lost, lastWord>>

(* Seeded defect: the event is not removed when it has been handled.       *)
MarkNothing ==
  /\ pump = "handled"
  /\ pump' = "waiting"
  /\ UNCHANGED <<external, queue, disk, asked, history, markFailures, crashes, ghosts>>

(* Seeded defect: the newest event is removed, not the one handled.        *)
MarkNewest ==
  /\ pump = "handled"
  /\ pump' = "waiting"
  /\ queue' = SubSeq(queue, 1, Len(queue) - 1)
  /\ disk' = SubSeq(queue, 1, Len(queue) - 1)
  /\ UNCHANGED <<external, asked, history, markFailures, crashes, ghosts>>

(* event_handled: drop the head and write the queue.                       *)
MarkHandled ==
  /\ pump = "handled"
  /\ pump' = "waiting"
  /\ queue' = Tail(queue)
  /\ disk' = Tail(queue)
  /\ UNCHANGED <<external, asked, history, markFailures, crashes, ghosts>>

(* Seeded defect: a failed mark is tried again on the spot, although the   *)
(* head may be gone.                                                       *)
MarkRetries ==
  /\ pump = "handled"
  /\ markFailures < MaxMarkFailures
  /\ markFailures' = markFailures + 1
  /\ queue' \in {queue, Tail(queue)}
  /\ UNCHANGED <<external, pump, disk, asked, history, crashes, ghosts>>

(* event_handled fails: the head may already be gone from memory, the disk *)
(* still has it.  The pump logs it and goes on.                            *)
MarkFails ==
  /\ pump = "handled"
  /\ markFailures < MaxMarkFailures
  /\ markFailures' = markFailures + 1
  /\ pump' = "waiting"
  /\ queue' \in {queue, Tail(queue)}
  /\ UNCHANGED <<external, disk, asked, history, crashes, ghosts>>

Pump == Take \/ NotifySigner \/ Announce \/ RecordForward \/ MarkHandled \/ MarkFails

-------------------------------------------------------------------------------
(* The process dies (ctrl-c included: main leaves without stopping the     *)
(* node) and comes back with what was on disk.                             *)
Crash ==
  /\ pump # "down" /\ crashes < MaxCrashes
  /\ crashes' = crashes + 1
  /\ pump' = "down"
  /\ queue' = <<>>
  /\ asked' = {}
  /\ history' = [f \in Forwards |-> 0]
  /\ markFailures' = 0
  /\ UNCHANGED <<external, disk, ghosts>>

Restart ==
  /\ pump = "down"
  /\ pump' = "waiting"
  /\ queue' = disk
  /\ UNCHANGED <<external, disk, asked, history, markFailures, crashes, ghosts>>

-------------------------------------------------------------------------------
Init ==
  /\ emitted = {} /\ live = {}
  /\ queue = <<>> /\ disk = <<>>
  /\ pump = "waiting" /\ asked = {}
  /\ history = [f \in Forwards |-> 0]
  /\ markFailures = 0 /\ crashes = 0
  /\ attempted = {} /\ delivered = {} /\ lost = {}
  /\ lastWord = [ch \in Channels |-> "none"]

Next ==
  \/ \E e \in Events : Emit(e)
  \/ Pump \/ Crash \/ Restart

(* The pump's task is scheduled whenever it can run, and a node that has   *)
(* crashed is started again; nothing makes events happen.                  *)
Spec == Init /\ [][Next]_vars /\ WF_vars(Pump) /\ WF_vars(Restart)

-------------------------------------------------------------------------------
(* Every variable keeps its type, and while the pump is busy the event it  *)
(* works on is still the head of the queue.                                *)
Busy == pump \in {"signing", "announcing", "recording", "handled"}
TypeOK ==
  /\ emitted \subseteq Events
  /\ live \subseteq Channels
  /\ queue \in Seq(Events) /\ disk \in Seq(Events)
  /\ pump \in {"waiting", "signing", "announcing", "recording", "handled", "down"}
  /\ asked \subseteq Channels
  /\ history \in [Forwards -> Nat]
  /\ markFailures \in 0 .. MaxMarkFailures
  /\ crashes \in 0 .. MaxCrashes
  /\ attempted \subseteq Events /\ delivered \subseteq Events /\ lost \subseteq Events
  /\ lastWord \in [Channels -> {"none", "ready", "closed"}]
  /\ Busy => queue # <<>>
  /\ pump = "signing" => Head(queue).kind = "ready"
  /\ pump = "recording" => Head(queue).kind = "forwarded"

(* An event that a restart would not bring back has been handled: crashes  *)
(* and failed marks may repeat an event, they never lose one.              *)
HandledBeforeDropped ==
  \A e \in emitted : InQueue(e, disk) \/ e \in attempted

(* Notifications may come late and twice, never in an order that leaves    *)
(* the wrong impression: when the last the controller heard of a channel   *)
(* is that it opened, and it has closed since, the closing is still to be  *)
(* announced, whatever crashes and failed marks repeat.  The one exception *)
(* is a closing whose own notification was not delivered: the handler only *)
(* logs that, and nothing tells the controller later.                      *)
OpenedIsCorrected ==
  \A ch \in Channels : (lastWord[ch] = "ready" /\ ch \notin live) =>
    InQueue(Closed(ch), disk) \/ Closed(ch) \in lost

(* get_forwarding_history never shows a forward twice, redelivery          *)
(* included, except where marking the event failed in this very life.      *)
ForwardsCountedOnce ==
  \A f \in Forwards : history[f] <= 1 + markFailures

(* channel_opened goes out only after the signer was asked to check and    *)
(* lock the funding, in the same handling of the event.                    *)
SignerAskedFirst ==
  \A ch \in Channels :
    (HasSigner /\ pump = "announcing" /\ Head(queue) = Ready(ch)) => ch \in asked

(* Every event is eventually handled, crashes notwithstanding.             *)
EventuallyHandled == \A e \in Events : e \in emitted ~> e \in attempted

-------------------------------------------------------------------------------
(* What the pump promises: AtLeastOnce.  What is kept is what is on disk.  *)
Promise == INSTANCE AtLeastOnce WITH kept <- disk, done <- attempted

(* Crashes and failed marks notwithstanding, no event overtakes another,   *)
(* none is forgotten before it was handled, and all are handled.           *)
KeepsEvents == Promise!Spec

-------------------------------------------------------------------------------
(* A claim of the source's comments.                                       *)

(* service.rs:56-57, "a delivery failure does not silently drop the event  *)
(* from LDK's queue": a notification that the queue has let go of was      *)
(* delivered.                                                              *)
DeliveryFailureKeepsEvent ==
  \A e \in emitted : e.kind \in {"ready", "closed", "notice"} =>
    InQueue(e, disk) \/ e \in delivered

===============================================================================
