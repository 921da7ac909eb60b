---------------------------- MODULE PowerButton ----------------------------
(***************************************************************************)
(* What the portal promises about the phone's power, whatever its threads  *)
(* do: one operation at a time; the phone is booted or shut down by an     *)
(* operation made for it and by nothing else the portal does, for a phone  *)
(* that goes down otherwise has crashed, which the record of what went     *)
(* wrong outside the portal shows; the phone plays a video only while it   *)
(* is on; and a power-off ends with the phone off and silent, unless it    *)
(* met one that has crashed and that Docker brings back by itself.         *)
(***************************************************************************)
EXTENDS Naturals, Sequences

VARIABLES
  power,   \* "on", "off", or "crashed" until Docker brings it back
  playing, \* does the phone play a video
  task,    \* the operation the portal has accepted, "none" between two
  excused, \* the phone is "crashed", or was during this task
  deaths,  \* how often the portal has died
  faults   \* what has gone wrong outside the portal, in order

vars == <<power, playing, task, excused, deaths, faults>>

Tasks    == {"Power on", "Power off", "Re-attach", "Camera", "Path switch"}
Troubles == {"stall", "ghost", "drop", "apt"}

Init ==
  power = "on" /\ ~playing /\ task = "none" /\ ~excused /\ deaths = 0 /\ faults = <<>>

Accept ==
  /\ task = "none" /\ task' \in Tasks
  /\ UNCHANGED <<power, playing, excused, deaths, faults>>

\* An operation that is made for it boots the phone or shuts it down.
Switch ==
  /\ \/ task \in {"Power on", "Re-attach"} /\ power' \in {"on", "off"}
     \/ task = "Power off" /\ power = "on" /\ power' = "off"
  /\ ~playing'
  /\ UNCHANGED <<task, excused, deaths, faults>>

\* A video starts or ends, at any time and by any thread.
Play ==
  /\ playing' = ~playing /\ (playing' => power = "on")
  /\ UNCHANGED <<power, task, excused, deaths, faults>>

\* The phone's own software ends, for good or until Docker restarts it.
Crash ==
  /\ faults' = Append(faults, "crash")
  /\ power = "on" /\ power' \in {"off", "crashed"} /\ ~playing'
  /\ excused' = (power' = "crashed" \/ excused)
  /\ UNCHANGED <<task, deaths>>

\* Anything else that goes wrong leaves the power alone; a video may end by it.
Trouble ==
  /\ \E kind \in Troubles : faults' = Append(faults, kind)
  /\ playing' => playing
  /\ UNCHANGED <<power, task, excused, deaths>>

ComeBack ==
  /\ power = "crashed" /\ power' = "on" /\ excused' = (excused /\ task # "none")
  /\ UNCHANGED <<playing, task, deaths, faults>>

Finish ==
  /\ task # "none" /\ task' = "none"
  /\ task = "Power off" => excused \/ (power = "off" /\ ~playing)
  /\ excused' = (power = "crashed")
  /\ UNCHANGED <<power, playing, deaths, faults>>

Die ==
  /\ deaths' = deaths + 1 /\ task' = "none" /\ excused' = (power = "crashed")
  /\ UNCHANGED <<power, playing, faults>>

Next == Accept \/ Switch \/ Play \/ Crash \/ Trouble \/ ComeBack \/ Finish \/ Die

Spec == Init /\ [][Next]_vars
=============================================================================
