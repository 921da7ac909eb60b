------------------------- MODULE PhoneControlClaims -------------------------
(***************************************************************************)
(* What comments, docs and the user interface say of the phone's control   *)
(* and portal/app.py does not keep.  Each claim has a run of its own, in   *)
(* which TLC shows a behaviour of PhoneControl that breaks it.             *)
(***************************************************************************)
EXTENDS PhoneControl

\* The reconcile loop reconciles reality with the operator's intent
\* (portal/app.py:69): a stream does not go on while the camera is switched off.
CameraOffStops == Streaming /\ ~desired.camera ~> ~Streaming \/ desired.camera

\* A phone that has been switched off stays off (portal/app.py:405): the probe
\* loop's re-attach never begins on a phone whose power-off is complete.
ReattachOnlyWhenOn ==
  [][At("op", "begin") /\ opName' = "Re-attach" => policy # "no"]_vars
=============================================================================
