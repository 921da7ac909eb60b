----------------------------- MODULE EdgeAlerts -----------------------------
(***************************************************************************)
(* The alert rules over the real edge ingest: RuleEngine's scene, there a  *)
(* free input, is what Ingest publishes while the edge service can be      *)
(* reached, a model's answer and a snapshot need a frame, and the frame    *)
(* may be of a stream that is gone.                                        *)
(***************************************************************************)
EXTENDS RuleEngine

CONSTANTS ZoneRules, CountRules, Pictures, DetectEvery

ASSUME EdgeAssumption ==
  /\ VisionRules = ZoneRules \cup CountRules /\ ZoneRules \cap CountRules = {}
  /\ Pictures \subseteq SUBSET VisionRules
  /\ DetectEvery \in Nat \ {0}

VARIABLES source, view, reader, connected, fps, frame, labels, boxes, framed,
          busy, workers, current,
          reachable  \* do the portal's requests to the edge service get through

Edge == INSTANCE Ingest

engineVars == <<mode, evalVars, logVars, loopVars>>
ingestVars == <<source, view, reader, connected, fps, frame, labels, boxes, framed,
                busy, workers, current, reachable>>
edgeVars   == <<vars, ingestVars>>

\* What vision_loop fetches now; of a fetch that fails it makes nothing.
Fetched == IF reachable THEN Edge!Published ELSE {}

EdgeInit == Init /\ Edge!Init /\ reachable = TRUE /\ scene = Fetched

\* /api/ask answers 409 and /frame.jpg 404 before the first frame.
FrameServed == (reachable /\ framed) \/ (answered' \subseteq answered /\ snapshots' \subseteq snapshots)

EngineStep == (Request \/ VisionStep \/ AskStep \/ Tick) /\ FrameServed /\ UNCHANGED ingestVars

Keeps(A) == A /\ UNCHANGED <<engineVars, reachable>> /\ scene' = Fetched'

IngestStep == Keeps(Edge!Next)

\* The edge service stops answering the portal, or answers again; its own
\* threads go on.
Reach ==
  /\ reachable' = ~reachable
  /\ UNCHANGED <<engineVars, source, view, reader, connected, fps, frame, labels, boxes,
                 framed, busy, workers, current>>
  /\ scene' = Fetched'

EdgeNext == EngineStep \/ IngestStep \/ Reach

\* The reader runs; frames come while the stream is on, and seconds pass.
EdgeSpec ==
  /\ EdgeInit /\ [][EdgeNext]_edgeVars
  /\ WF_edgeVars(VisionStep /\ FrameServed /\ UNCHANGED ingestVars)
  /\ WF_edgeVars(AskStep /\ FrameServed /\ UNCHANGED ingestVars)
  /\ WF_edgeVars(Keeps(Edge!Open \/ Edge!ReadFails))
  /\ WF_edgeVars(Keeps(Edge!Frame(FALSE))) /\ WF_edgeVars(Keeps(Edge!CaptionEnds))

----------------------------------------------------------------------------
(* Properties.                                                             *)

EdgeTypeOK == TypeOK /\ Edge!TypeOK /\ reachable \in BOOLEAN /\ scene = Fetched

\* A zone rule is judged on what a detection found in the connection that was
\* open when the state was fetched, never on boxes of an earlier stream.
NoStaleZones ==
  [][pc["vision"] = "idle" /\ pc'["vision"] = "eval" => seen' \cap ZoneRules \subseteq current]_edgeVars

\* A vision rule is active in the end when the stream stays on, the edge service
\* answers and the picture keeps meeting the rule, and released in the end when
\* the picture stays one that does not, when the stream is off or frozen for
\* good, although the labels of the last picture are then still published, or
\* when the edge service does not answer any more.
RulesFollowPicture ==
  \A r \in VisionRules :
    /\ <>[](mode[r] = "on" /\ source = "on" /\ r \in view /\ reachable) => <>[](st[r].active)
    /\ <>[](mode[r] = "on" /\ source = "on" /\ r \notin view) => <>[](~st[r].active)
    /\ <>[](mode[r] = "on" /\ source # "on") => <>[](~st[r].active)
    /\ <>[](mode[r] = "on" /\ ~reachable) => <>[](~st[r].active)
=============================================================================
