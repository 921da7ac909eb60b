------------------------------- MODULE Ingest -------------------------------
(***************************************************************************)
(* The edge ingest (edge/ingest/app.py): its reader opens the RTSP stream, *)
(* reads frames, runs the detector on every Nth of them and publishes what *)
(* /api/state serves.  A detection is abstracted to the zone rules its     *)
(* boxes would meet and the count rules its labels would meet.             *)
(***************************************************************************)
EXTENDS Naturals

CONSTANTS
  ZoneRules, CountRules,
  Pictures,   \* what the camera may show: sets of the rules a picture meets
  DetectEvery \* DETECT_EVERY_N_FRAMES

VARIABLES
  source,    \* the stream at the gateway: "off", "on", or "frozen" without frames
  view,      \* the picture
  reader,    \* "open", "read", or "lost": it reads from a stream that has ended
  connected, \* _state["connected"]
  fps,       \* _live["ingest_fps"] > 0
  frame,     \* frame_idx modulo DetectEvery
  labels,    \* _live["labels"]: the count rules they meet
  boxes,     \* _live["boxes"]: the zone rules they meet
  framed,    \* _latest_jpeg and _latest_raw are there, of whatever age
  busy,      \* _vlm_busy
  workers,   \* running _vlm_worker threads
  current    \* history: what the last detection in this connection found

vars == <<source, view, reader, connected, fps, frame, labels, boxes, framed, busy, workers, current>>

TypeOK ==
  /\ source \in {"off", "on", "frozen"} /\ view \in Pictures
  /\ reader \in {"open", "read", "lost"}
  /\ connected \in BOOLEAN /\ fps \in BOOLEAN /\ framed \in BOOLEAN /\ busy \in BOOLEAN
  /\ frame \in 0..DetectEvery - 1
  /\ labels \subseteq CountRules /\ boxes \subseteq ZoneRules
  /\ workers \in 0..1 /\ current \subseteq ZoneRules \cup CountRules

Init ==
  /\ source = "off" /\ view \in Pictures
  /\ reader = "open" /\ connected = FALSE /\ fps = FALSE /\ frame = 0
  /\ labels = {} /\ boxes = {} /\ framed = FALSE
  /\ busy = FALSE /\ workers = 0 /\ current = {}

\* What the rule engine makes of /api/state: nothing without a live stream.
Published == IF connected /\ fps THEN labels \cup boxes ELSE {}

----------------------------------------------------------------------------
(* _ingest_loop.                                                           *)

\* A stream can be opened; its frames may still not come.
Open ==
  /\ reader = "open" /\ source # "off"
  /\ reader' = "read" /\ connected' = TRUE
  /\ UNCHANGED <<source, view, fps, frame, labels, boxes, framed, busy, workers, current>>

\* Mutant: the busy flag is not looked at.
AnyTime == TRUE
\* A frame goes to the vision-language model only while no other one is there.
VlmFree == ~busy

\* A frame is read.  ~slow: it completes a second, and the rate is set; the
\* first frame after an outage may do that at once, as fps_t0 is old.
Frame(slow) ==
  /\ reader = "read" /\ source = "on"
  /\ frame' = (frame + 1) % DetectEvery
  /\ fps' = (fps \/ ~slow)
  /\ IF frame' = 0
     THEN /\ labels' = view \cap CountRules /\ boxes' = view \cap ZoneRules
          /\ current' = view
     ELSE UNCHANGED <<labels, boxes, current>>
  /\ \/ VlmFree /\ busy' = TRUE /\ workers' = workers + 1
     \/ UNCHANGED <<busy, workers>> \* not yet VLM_INTERVAL_SECONDS, or busy
  /\ framed' = TRUE
  /\ UNCHANGED <<source, view, reader, connected>>

\* Mutant: the boxes stay, as the labels do.
BoxesStay == boxes
BoxesAfter == {}

\* Mutant: the rate stays.
RateStays == fps
RateAfter == FALSE

\* read() fails: at the end of the stream, or when it times out.
ReadFails ==
  /\ reader = "lost" \/ (reader = "read" /\ source = "frozen")
  /\ reader' = "open" /\ connected' = FALSE /\ fps' = RateAfter /\ boxes' = BoxesAfter
  /\ current' = {}
  /\ UNCHANGED <<source, view, frame, labels, framed, busy, workers>>

\* _vlm_worker is done, with a caption or with an error.
CaptionEnds ==
  /\ workers > 0 /\ workers' = workers - 1 /\ busy' = FALSE
  /\ UNCHANGED <<source, view, reader, connected, fps, frame, labels, boxes, framed, current>>

----------------------------------------------------------------------------
\* The camera's stream comes, freezes, goes on or ends; one that ended is lost
\* for a reader that has it open even if another one comes.
SourceChanges ==
  /\ \E s \in {"off", "on", "frozen"} \ {source} :
       /\ source' = s
       /\ reader' = IF s = "off" /\ reader = "read" THEN "lost" ELSE reader
  /\ UNCHANGED <<view, connected, fps, frame, labels, boxes, framed, busy, workers, current>>

ViewChanges ==
  /\ \E v \in Pictures : v # view /\ view' = v
  /\ UNCHANGED <<source, reader, connected, fps, frame, labels, boxes, framed, busy, workers, current>>

Next ==
  \/ Open \/ ReadFails \/ CaptionEnds \/ \E slow \in BOOLEAN : Frame(slow)
  \/ SourceChanges \/ ViewChanges
=============================================================================
