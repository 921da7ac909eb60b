----------------------------- MODULE VideoStore -----------------------------
(***************************************************************************)
(* What the gallery promises about its videos: a listed video is one       *)
(* upload of that name, in full; it stays until another upload of the name *)
(* takes its place, in one step; and an upload gets there at most once,    *)
(* not at all when it was refused or the portal died.  Names that two      *)
(* uploads were sending at once are out of the promise for good.           *)
(***************************************************************************)
CONSTANTS Names, Uploads

VARIABLES
  listed, \* what is under each name: an upload, "none", or "shared" without a promise
  owner,  \* the name each upload is for
  spent   \* the uploads that have ended

vars == <<listed, owner, spent>>

Init == listed = [n \in Names |-> "none"] /\ owner \in [Uploads -> Names] /\ spent = {}

\* An upload that nobody disturbed is complete.
Put(u) ==
  /\ u \notin spent /\ spent' = spent \cup {u}
  /\ listed[owner[u]] # "shared" /\ listed' = [listed EXCEPT ![owner[u]] = u]
  /\ UNCHANGED owner

\* Uploads are refused, fail, or are cut off by a restart.
Drop == spent \subseteq spent' /\ spent' # spent /\ UNCHANGED <<listed, owner>>

\* A second upload of a name starts while one is being sent.
Share(n) ==
  /\ UNCHANGED <<spent, owner>>
  /\ listed[n] # "shared" /\ listed' = [listed EXCEPT ![n] = "shared"]

Next == (\E u \in Uploads : Put(u)) \/ Drop \/ (\E n \in Names : Share(n))

Spec == Init /\ [][Next]_vars
=============================================================================
