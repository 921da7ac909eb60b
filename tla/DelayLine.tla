----------------------------- MODULE DelayLine -----------------------------
(***************************************************************************)
(* What a link with a delay promises for each of its lines: what comes in  *)
(* goes out in the same order, nothing twice, nothing left out in between, *)
(* and nothing before the delay it was given, at most MaxDelay, is over.   *)
(***************************************************************************)
EXTENDS Naturals, Sequences

CONSTANTS Lines, Chunks, MaxDelay

VARIABLES
  now,
  accepted, \* each line: what came in, with the time it is due
  passed    \* each line: what went out

Init ==
  /\ now = 0
  /\ accepted = [l \in Lines |-> <<>>] /\ passed = [l \in Lines |-> <<>>]

Accept(l) ==
  /\ \E chunk \in Chunks, delay \in 0..MaxDelay :
       accepted' = [accepted EXCEPT ![l] = Append(@, [due |-> now + delay, chunk |-> chunk])]
  /\ UNCHANGED <<now, passed>>

Pass(l) ==
  LET next == Len(passed[l]) + 1
  IN  /\ next <= Len(accepted[l]) /\ accepted[l][next].due <= now
      /\ passed' = [passed EXCEPT ![l] = Append(@, accepted[l][next].chunk)]
      /\ UNCHANGED <<now, accepted>>

Tick == now' = now + 1 /\ UNCHANGED <<accepted, passed>>

Spec == Init /\ [][Tick \/ \E l \in Lines : Accept(l) \/ Pass(l)]_<<now, accepted, passed>>
=============================================================================
