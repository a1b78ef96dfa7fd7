------------------------------ MODULE AtLeastOnce ------------------------------
(***************************************************************************)
(* What the node promises of ldk-node's events, whatever crashes: an event *)
(* is kept until it has been handled, events are handled for the first     *)
(* time in the order in which they were kept, and each of them is, in the  *)
(* end.  An event may be handled again for as long as it is kept.          *)
(***************************************************************************)
EXTENDS Naturals, Sequences

CONSTANT Events

VARIABLES
  kept,  \* the events that would survive a crash, oldest first
  done   \* the events that have been handled

vars == <<kept, done>>

(* Of the events kept, the first n have been handled.                      *)
DonePrefix(n) == \A i \in 1 .. n : kept[i] \in done

Rest(n) == SubSeq(kept, n + 1, Len(kept))

Init == kept = <<>> /\ done = {}

(* A new event is kept; what was handled may be forgotten on this occasion *)
(* as on any other.                                                        *)
Keep(e) ==
  /\ e \notin done
  /\ \A i \in 1 .. Len(kept) : kept[i] # e
  /\ \E n \in 0 .. Len(kept) : DonePrefix(n) /\ kept' = Append(Rest(n), e)
  /\ UNCHANGED done

(* The oldest event that has not been handled is.                          *)
Handle ==
  /\ \E n \in 1 .. Len(kept) :
       /\ DonePrefix(n - 1) /\ kept[n] \notin done
       /\ done' = done \cup {kept[n]}
  /\ UNCHANGED kept

Forget ==
  /\ \E n \in 1 .. Len(kept) : DonePrefix(n) /\ kept' = Rest(n)
  /\ UNCHANGED done

Next == (\E e \in Events : Keep(e)) \/ Handle \/ Forget

Spec == Init /\ [][Next]_vars /\ WF_vars(Handle)

===============================================================================
