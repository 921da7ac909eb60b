-------------------------------- MODULE Feed --------------------------------
(***************************************************************************)
(* What the portal's signalling timeline promises one browser: it shows    *)
(* nothing but events the portal has recorded, each of them once, and the  *)
(* events of one container's log in the order of that log.                 *)
(***************************************************************************)
EXTENDS Naturals, Sequences

CONSTANT Logs \* the values of an event's "from" that name a log

VARIABLES
  recorded, \* the events the portal has recorded
  shown     \* the events the browser has shown, in this order

Shown == {shown[i] : i \in 1..Len(shown)}

Init == recorded = {} /\ shown = <<>>

Record ==
  /\ \E e \in recorded' \ recorded : recorded' = recorded \cup {e}
  /\ UNCHANGED shown

Show ==
  /\ \E e \in recorded \ Shown :
       /\ e.from \in Logs => \A f \in Shown : f.from = e.from => f.ts < e.ts
       /\ shown' = Append(shown, e)
  /\ UNCHANGED recorded

Spec == Init /\ [][Record \/ Show]_<<recorded, shown>>
=============================================================================
