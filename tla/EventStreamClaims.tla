------------------------- MODULE EventStreamClaims -------------------------
(***************************************************************************)
(* What docs/demo.md says of the signalling timeline and the code does not *)
(* do.                                                                     *)
(***************************************************************************)
EXTENDS EventStream

\* "The signalling timeline replays the real attach, event by event": what the
\* portal has in EVENTS for good is shown in the end.  After a restart of the
\* portal ids begin again at 1, and the page, which stayed, drops every event
\* whose id is not above the last one it had before (api_events, onmessage).
ShownInTheEnd == <>[]Retained
=============================================================================
