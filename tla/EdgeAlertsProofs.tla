-------------------------- MODULE EdgeAlertsProofs --------------------------
(***************************************************************************)
(* Theorems about the alert rules over the real ingest, for any rules,     *)
(* pictures and detection interval.  The ingest gives the engine no scene  *)
(* that RuleEngine does not allow, so what is proved there holds here.     *)
(***************************************************************************)
EXTENDS EdgeAlerts, RuleEngineProofs

----------------------------------------------------------------------------
(* The ingest.                                                             *)

\* One caption worker runs exactly while the flag is up, and the boxes are
\* those of the connection's last detection.
IngestInv ==
  /\ Edge!TypeOK
  /\ workers = IF busy THEN 1 ELSE 0
  /\ boxes \subseteq current

LEMMA IngestInit == Edge!Init => IngestInv
<1> SUFFICES ASSUME Edge!Init PROVE IngestInv
  OBVIOUS
<1>1. connected \in BOOLEAN /\ fps \in BOOLEAN /\ framed \in BOOLEAN /\ busy \in BOOLEAN
      /\ workers = IF busy THEN 1 ELSE 0
  BY DEF Edge!Init
<1>2. frame \in 0..DetectEvery - 1
  BY EdgeAssumption DEF EdgeAssumption, Edge!Init
<1>3. QED
  BY <1>1, <1>2 DEF Edge!Init, Edge!TypeOK, IngestInv

LEMMA IngestNext == IngestInv /\ Edge!Next => IngestInv'
<1> SUFFICES ASSUME IngestInv, Edge!Next PROVE IngestInv'
  OBVIOUS
<1> USE DEF IngestInv, Edge!TypeOK
<1>1. ASSUME NEW slow \in BOOLEAN, Edge!Frame(slow) PROVE IngestInv'
  <2>1. frame' \in 0..DetectEvery - 1
    BY <1>1, EdgeAssumption DEF EdgeAssumption, Edge!Frame
  <2>2. view \subseteq ZoneRules \cup CountRules
    BY EdgeAssumption DEF EdgeAssumption
  <2>3. /\ labels' \subseteq CountRules /\ boxes' \subseteq ZoneRules
        /\ current' \subseteq ZoneRules \cup CountRules /\ boxes' \subseteq current'
    BY <1>1, <2>2 DEF Edge!Frame
  <2>4. /\ busy' \in BOOLEAN /\ workers' \in 0..1
        /\ workers' = IF busy' THEN 1 ELSE 0
    <3>1. CASE ~busy /\ busy' = TRUE /\ workers' = workers + 1
      BY <3>1
    <3>2. CASE UNCHANGED <<busy, workers>>
      BY <3>2
    <3>3. QED
      BY <1>1, <3>1, <3>2 DEF Edge!Frame, Edge!VlmFree
  <2>5. fps' \in BOOLEAN /\ framed' \in BOOLEAN
    BY <1>1 DEF Edge!Frame
  <2>6. QED
    BY <1>1, <2>1, <2>3, <2>4, <2>5 DEF Edge!Frame
<1>2. CASE Edge!Open
  BY <1>2 DEF Edge!Open
<1>3. CASE Edge!ReadFails
  BY <1>3 DEF Edge!ReadFails, Edge!RateAfter, Edge!BoxesAfter
<1>4. CASE Edge!CaptionEnds
  <2>1. workers > 0 /\ workers' = workers - 1 /\ busy' = FALSE
    BY <1>4 DEF Edge!CaptionEnds
  <2>2. busy' \in BOOLEAN
    BY <2>1
  <2>3. workers' = 0 /\ workers' \in 0..1
    BY <2>1
  <2>4. QED
    BY <1>4, <2>1, <2>2, <2>3 DEF Edge!CaptionEnds
<1>5. CASE Edge!SourceChanges \/ Edge!ViewChanges
  BY <1>5 DEF Edge!SourceChanges, Edge!ViewChanges
<1>6. QED
  BY <1>1, <1>2, <1>3, <1>4, <1>5 DEF Edge!Next

----------------------------------------------------------------------------
(* The composition.                                                        *)

EdgeInv == IngestInv /\ TypeInv /\ reachable \in BOOLEAN /\ scene = Fetched

\* What is fetched is a scene of the engine's.
LEMMA FetchedType ==
  /\ IngestInv => Fetched \subseteq VisionRules
  /\ IngestInv' => Fetched' \subseteq VisionRules
  BY EdgeAssumption DEF EdgeAssumption, IngestInv, Edge!TypeOK, Edge!Published, Fetched

\* The ingest stands still while its reachability changes.
LEMMA IngestFrame ==
  IngestInv /\ UNCHANGED <<source, view, reader, connected, fps, frame, labels, boxes, framed,
                           busy, workers, current>>
    => IngestInv' /\ Edge!Published' = Edge!Published
  BY DEF IngestInv, Edge!TypeOK, Edge!Published

LEMMA EdgeStep == EdgeInv /\ [EdgeNext]_edgeVars => EdgeInv' /\ [Next]_vars
<1> SUFFICES ASSUME EdgeInv, [EdgeNext]_edgeVars PROVE EdgeInv' /\ [Next]_vars
  OBVIOUS
<1>1. CASE EngineStep
  <2>1. UNCHANGED ingestVars /\ Next
    BY <1>1 DEF EngineStep, Next
  <2>2. IngestInv' /\ reachable' \in BOOLEAN /\ Fetched' = Fetched
    BY <2>1, IngestFrame DEF ingestVars, EdgeInv, Fetched
  <2>3. UNCHANGED scene
    BY <1>1 DEF EngineStep, Request, Add, Update, Delete, ClearAlerts, VisionStep, VisionRound,
                VisionEval, AskStep, AskRound, AskModel, AskAnswer, AskJudge, EndRound, Snap,
                Log, LogRaces, Tick
  <2>4. QED
    BY <2>1, <2>2, <2>3, TypeStep DEF EdgeInv
<1>2. CASE IngestStep \/ Reach
  <2>1. /\ IngestInv' /\ reachable' \in BOOLEAN /\ scene' = Fetched'
        /\ UNCHANGED engineVars
    BY <1>2, IngestNext, IngestFrame DEF IngestStep, Keeps, Reach, EdgeInv
  <2>2. scene' \subseteq VisionRules
    BY <2>1, FetchedType
  <2>3. SceneChanges \/ UNCHANGED vars
    BY <2>1, <2>2 DEF SceneChanges, engineVars, vars, evalVars, logVars, loopVars
  <2>4. QED
    BY <2>1, <2>3, TypeStep DEF EdgeInv, Next
<1>3. CASE UNCHANGED edgeVars
  <2>1. UNCHANGED vars /\ UNCHANGED ingestVars
    BY <1>3 DEF edgeVars
  <2>2. QED
    BY <2>1, TypeStep, IngestFrame DEF vars, ingestVars, EdgeInv, Fetched
<1>4. QED
  BY <1>1, <1>2, <1>3 DEF EdgeNext

LEMMA EdgeAlways == EdgeSpec => []EdgeInv /\ Init /\ [][Next]_vars
<1>1. EdgeInit => EdgeInv /\ Init
  BY IngestInit, TypeInit DEF EdgeInit, EdgeInv
<1>2. QED
  BY <1>1, EdgeStep, PTL DEF EdgeSpec

\* Every variable of the composition has its type, at most one frame is with the
\* language model, and the rules see exactly what the ingest publishes, or nothing
\* while it does not answer
\* (_ingest_loop, _vlm_worker, vision_loop's fetch of /api/state).
THEOREM EdgeTypeCorrect == EdgeSpec => []EdgeTypeOK
<1>1. EdgeInv => EdgeTypeOK
  BY DEF EdgeInv, IngestInv, TypeInv, EdgeTypeOK
<1>2. QED
  BY <1>1, EdgeAlways, PTL

\* Over the real ingest the engine takes no step that it does not take over a
\* scene that changes at will: each of its safety properties is one of the
\* composition too.
THEOREM EdgeRunsTheEngine == EdgeSpec => Init /\ [][Next]_vars
  BY EdgeAlways, PTL

\* A rule keeps its cooldown over the real ingest too (_set).
THEOREM EdgeCooldown == EdgeSpec => CooldownRespected
<1>1. Init => CoolInv
  BY DEF Init, CoolInv, Fresh
<1>2. TypeInv /\ CoolInv /\ [Next]_vars => CoolInv'
  BY CoolNext
<1>3. TypeInv /\ CoolInv /\ [Next]_vars =>
        [\A t \in Threads : pc[t] # "snap" /\ pc'[t] = "snap"
           => \A a \in flight'[t] : quiet[a.rule] = 0]_vars
  BY CoolNext DEF CoolStep
<1>4. EdgeInv => TypeInv
  BY DEF EdgeInv
<1>5. QED
  BY <1>1, <1>2, <1>3, <1>4, EdgeAlways, PTL DEF CooldownRespected

\* The images belong to listed alerts over the real ingest too, where a snapshot
\* may also fail because no frame has come yet (_fire, /frame.jpg).
THEOREM EdgeSnapshots == EdgeSpec => []SnapshotsListed
<1>1. Init => SnapshotsListed
  BY DEF Init, SnapshotsListed
<1>2. EdgeInv => TypeInv
  BY DEF EdgeInv
<1>3. QED
  BY <1>1, <1>2, SnapshotsStep, EdgeAlways, PTL

\* A rule is released after RELEASE_CHECKS false evaluations in a row, no sooner
\* and no later, while captions and boxes come and go with the stream (_set).
THEOREM EdgeRelease == EdgeSpec => StaysActive /\ []ReleasedInTime
<1>1. Init => StreakInv
  BY DEF Init, StreakInv, Fresh, Rules
<1>2. TypeInv /\ StreakInv /\ [Next]_vars => StreakInv'
  BY StreakStep DEF StreakInv, StreakKept
<1>3. TypeInv /\ StreakInv /\ [Next]_vars =>
        [\A r \in VisionRules :
           st[r].active /\ ~st'[r].active /\ st'[r].known => falses'[r] = ReleaseChecks]_vars
  BY StreakStep DEF Released
<1>4. TypeInv /\ StreakInv => ReleasedInTime
  BY DEF TypeInv, ClearInv, StreakInv, ReleasedInTime, Rules
<1>5. EdgeInv => TypeInv
  BY DEF EdgeInv
<1>6. QED
  BY <1>1, <1>2, <1>3, <1>4, <1>5, EdgeAlways, PTL DEF StaysActive

----------------------------------------------------------------------------
(* No boxes of a stream that is gone.                                      *)

\* Only VisionRound starts a round.
LEMMA RoundStarts ==
  ASSUME TypeInv, Next, pc["vision"] = "idle", pc'["vision"] = "eval"
  PROVE  VisionRound
<1>1. pc \in [Threads -> Labels] /\ "vision" \in Threads /\ "ask" \in Threads
  BY DEF TypeInv, TypeOK, Threads
<1>2. CASE Request \/ Tick \/ SceneChanges
  BY <1>2 DEF Request, Add, Update, Delete, ClearAlerts, Tick, SceneChanges, loopVars
<1>3. CASE VisionStep
  BY <1>1, <1>3 DEF VisionStep, VisionEval, EndRound, Snap, Log, LogRaces
<1>4. CASE AskStep
  BY <1>1, <1>4 DEF AskStep, AskRound, AskModel, AskAnswer, AskJudge, Evaluate, EndRound,
                    Snap, Log, LogRaces, Other, Go
<1>5. QED
  BY <1>2, <1>3, <1>4 DEF Next

\* A round never judges a zone rule on boxes of an earlier connection: what it
\* fetched of them is in the last detection of this one (_ingest_loop clears
\* the boxes when the stream ends, vision_loop reads no state without a stream).
THEOREM ZonesAreFresh == EdgeSpec => NoStaleZones
<1> DEFINE Zones == pc["vision"] = "idle" /\ pc'["vision"] = "eval"
                      => seen' \cap ZoneRules \subseteq current
<1>1. EdgeInv /\ [Next]_vars => [Zones]_edgeVars
  <2> SUFFICES ASSUME EdgeInv, [Next]_vars, pc["vision"] = "idle", pc'["vision"] = "eval"
               PROVE  seen' \cap ZoneRules \subseteq current
    OBVIOUS
  <2>1. seen' = scene
    BY RoundStarts DEF EdgeInv, vars, VisionRound
  <2>2. scene \subseteq labels \cup boxes
    BY DEF EdgeInv, Edge!Published, Fetched
  <2>3. labels \cap ZoneRules = {} /\ boxes \subseteq current
    BY EdgeAssumption DEF EdgeAssumption, EdgeInv, IngestInv, Edge!TypeOK
  <2>4. QED
    BY <2>1, <2>2, <2>3
<1>2. QED
  BY <1>1, EdgeAlways, EdgeStep, PTL DEF NoStaleZones, EdgeSpec
=============================================================================
