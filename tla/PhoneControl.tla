---------------------------- MODULE PhoneControl ----------------------------
(***************************************************************************)
(* The portal's control of the phone (portal/app.py).  Three threads act   *)
(* on it: the runner of the one user operation _run_op admits, the         *)
(* reconcile loop, and the probe loop that re-attaches a stalled phone.    *)
(* They share the operator's intent (desired), the last poll (snapshot)    *)
(* and op["name"], and meet only at op_lock and _ffmpeg_lock.              *)
(*                                                                         *)
(* op_lock is held exactly while pc["op"] is not "idle"; op["name"] is set *)
(* only by the runner's first step and cleared before the lock is.         *)
(* _ffmpeg_lock is held exactly while a starter's label is "install".      *)
(***************************************************************************)
EXTENDS Phone

CONSTANTS
  Gallery,     \* the video files that exist
  TestPattern, \* the generated source, never a file
  FirstVideo,  \* desired["video"] as load_desired finds it; its file may be gone by now
  SavedCamera, \* what it may find of desired["camera"]
  FailLimit,   \* failed pings before a re-attach (3 in the code)
  SlowAttach,  \* may a wait for the tunnels time out on a good cell?
  Requests,    \* which of AllRequests the browser sends
  MaxRequests, \* bound on how many requests a behaviour contains
  MaxCrashes   \* bound on how many times the portal is restarted

AllRequests == {"power on", "power off", "camera", "path"}

ASSUME ControlAssumption ==
  /\ Gallery \subseteq Videos /\ TestPattern \in Videos \ Gallery
  /\ FirstVideo \in Videos /\ SavedCamera \subseteq BOOLEAN
  /\ FailLimit \in Nat \ {0}
  /\ SlowAttach \in BOOLEAN
  /\ Requests \subseteq AllRequests
  /\ MaxRequests \in Nat /\ MaxCrashes \in Nat

Intent == [camera : BOOLEAN, video : Videos, mode : Modes]
Jobs   == {"none", "Power on", "Power off", "Re-attach", "Camera", "Path switch"}
StartLabels == {"app", "install", "pick", "kill", "exec"}
OpLabels == {"idle", "begin", "boot", "attach", "cellStop", "cellReset", "cellBoot",
             "cellWait", "routes", "resume", "off", "pin", "deregister", "halt", "camera", "path",
             "clear", "release"} \cup StartLabels
RecLabels   == {"poll", "publish", "decide"} \cup StartLabels
ProbeLabels == {"watch", "ping", "exec", "sleep", "dead"}
Poll == [running : BOOLEAN, tun : [Dnns -> Tunnels \cup {"none"}], streaming : BOOLEAN]

VARIABLES
  desired,   \* the operator's intent
  saved,     \* its copy in .portal-state.json
  opName,    \* op["name"], "none" when the portal reports no operation
  job,       \* what the runner was started for, and a path switch's mode
  bounced,   \* history: the phone is "restarting", or was during this operation
  pc,        \* the next step of the runner ("op") and the reconcile loop ("rec")
  picked,    \* the stream a starter has read from desired and is starting
  seen,      \* what _poll_once has read and not published yet
  snapshot,  \* the last published poll
  backoff,   \* restart_backoff["until"] lies in the future
  probePc,   \* the next step of the probe loop
  edgeIf,    \* the interface the probe is pinging over
  edgeFail,  \* probe["edge_fail"], capped at FailLimit
  requests,  \* how many requests the browser has sent, bounded by MaxRequests
  crashes    \* how many times the portal was restarted, bounded by MaxCrashes

probeVars  == <<probePc, edgeIf, edgeFail>>
recVars    == <<seen, snapshot, backoff>>
opVars     == <<opName, job, bounced>>
intentVars == <<desired, saved>>
boundVars  == <<requests, crashes>>
vars == <<phoneVars, intentVars, opVars, pc, picked, recVars, probeVars, boundVars>>

NoPoll == [running |-> FALSE, tun |-> NoTuns, streaming |-> FALSE]
NoJob  == [name |-> "none", mode |-> "edge"]
NoPick == [s \in Starters |-> {}]

IntentOK == desired \in Intent /\ saved \in Intent
OpOK == opName \in Jobs /\ job \in [name : Jobs, mode : Modes] /\ bounced \in BOOLEAN
PcOK ==
  /\ pc \in [Starters -> OpLabels \cup RecLabels]
  /\ pc["op"] \in OpLabels /\ pc["rec"] \in RecLabels
PickedOK == picked \in [Starters -> SUBSET Stream]
RecOK   == seen \in Poll /\ snapshot \in Poll /\ backoff \in BOOLEAN
ProbeOK == probePc \in ProbeLabels /\ edgeIf \in Tunnels \cup {"none"} /\ edgeFail \in 0..FailLimit
BoundOK == requests \in 0..MaxRequests /\ crashes \in 0..MaxCrashes

TypeOK ==
  PhoneTypeOK /\ IntentOK /\ OpOK /\ PcOK /\ PickedOK /\ RecOK /\ ProbeOK /\ BoundOK

\* The portal starts with the defaults, or with a camera that was left on.
Init ==
  /\ PhoneInit
  /\ desired \in [camera : SavedCamera, video : {FirstVideo}, mode : {"edge"}]
  /\ saved = desired
  /\ opName = "none" /\ job = NoJob /\ bounced = FALSE
  /\ pc = [s \in Starters |-> IF s = "op" THEN "idle" ELSE "poll"]
  /\ picked = NoPick
  /\ seen = NoPoll /\ snapshot = NoPoll /\ backoff = FALSE
  /\ probePc = "watch" /\ edgeIf = "none" /\ edgeFail = 0
  /\ requests = 0 /\ crashes = 0

At(t, label) == pc[t] = label
Go(t, label) == pc' = [pc EXCEPT ![t] = label]

\* Mutant: an exception of start_stream escapes the reconcile loop.
HomeEscapes(t) == IF t = "op" THEN "clear" ELSE "dead"

\* Where a starter goes when it is done or an exception ends it: the runner to
\* its finally clause, the reconcile loop to its next round.
Home(t) == IF t = "op" THEN "clear" ELSE "poll"

\* Mutant: the lock is not tried.
LockUntried == TRUE

\* op_lock is free.
LockFree == At("op", "idle")

\* _run_op takes the lock without waiting; the runner thread starts later.
Launch(name, mode) ==
  /\ job' = [name |-> name, mode |-> mode]
  /\ Go("op", "begin")

----------------------------------------------------------------------------
(* The browser's requests.  A handler runs to its end on the event loop.   *)

Request(kind) ==
  /\ kind \in Requests /\ requests < MaxRequests
  /\ requests' = requests + 1
  /\ UNCHANGED crashes

\* A refused power request (409) changes nothing.
ApiPower(on) ==
  /\ Request(IF on THEN "power on" ELSE "power off")
  /\ LockFree
  /\ Launch(IF on THEN "Power on" ELSE "Power off", "edge")
  /\ UNCHANGED <<phoneVars, intentVars, opName, bounced, picked, recVars, probeVars>>

\* The intent is written before the lock is tried; a video that is no file
\* and not the test pattern was refused (404) first.
ApiCamera(on, video) ==
  /\ Request("camera")
  /\ video \in Gallery \cup {TestPattern}
  /\ desired' = [desired EXCEPT !.camera = on, !.video = video]
  /\ saved' = desired'
  /\ IF LockFree THEN Launch("Camera", "edge") ELSE UNCHANGED <<job, pc>>
  /\ UNCHANGED <<phoneVars, opName, bounced, picked, recVars, probeVars>>

ApiPath(mode) ==
  /\ Request("path")
  /\ mode # desired.mode /\ LockFree
  /\ Launch("Path switch", mode)
  /\ UNCHANGED <<phoneVars, intentVars, opName, bounced, picked, recVars, probeVars>>

----------------------------------------------------------------------------
(* The runner of a user operation.                                         *)

Entry(name) ==
  CASE name = "Power on"  -> "boot"
    [] name = "Power off" -> "off"
    [] name = "Camera"    -> "camera"
    [] name = "Path switch" -> "path"
    [] OTHER -> "cellStop"

\* The runner's first statement: only now does op["name"] say it is busy.
OpBegin ==
  /\ At("op", "begin")
  /\ opName' = job.name
  /\ Go("op", Entry(job.name))
  /\ UNCHANGED <<phoneVars, intentVars, job, bounced, picked, recVars, probeVars, boundVars>>

\* power_on without a cell reset: start or restart the phone.
Boot ==
  /\ At("op", "boot") /\ Container("running", "unless-stopped")
  /\ Go("op", "attach")
  /\ UNCHANGED <<cell, app, faults, intentVars, opVars, picked, recVars, probeVars, boundVars>>

\* _wait(lambda: len(ue_tunnels()) >= 2): the tunnels are there, or time is up.
WaitOver == Attached \/ SlowAttach \/ status # "running" \/ cell = "ghost"

\* Wait for both tunnels; at the timeout fall back to resetting the cell.
AttachWait ==
  /\ At("op", "attach") /\ WaitOver
  /\ Go("op", IF Attached THEN "routes" ELSE "cellStop")
  /\ UNCHANGED <<phoneVars, intentVars, opVars, picked, recVars, probeVars, boundVars>>

\* Mutant: the phone is left running while the cell restarts.
CellStopSkipped ==
  /\ At("op", "cellStop") /\ Go("op", "cellReset")
  /\ UNCHANGED <<phoneVars, intentVars, opVars, picked, recVars, probeVars, boundVars>>

\* _reset_cell_and_boot: stop the phone, restart the cell, start the phone.
CellStop ==
  /\ At("op", "cellStop") /\ Container("exited", "unless-stopped")
  /\ Go("op", "cellReset")
  /\ UNCHANGED <<cell, app, faults, intentVars, opVars, picked, recVars, probeVars, boundVars>>

CellReset ==
  /\ At("op", "cellReset") /\ cell' = "ok"
  /\ Go("op", "cellBoot")
  /\ UNCHANGED <<status, policy, app, faults, ueVars, intentVars, opVars, picked,
                 recVars, probeVars, boundVars>>

CellBoot ==
  /\ At("op", "cellBoot") /\ Container("running", policy)
  /\ Go("op", "cellWait")
  /\ UNCHANGED <<cell, app, faults, intentVars, opVars, picked, recVars, probeVars, boundVars>>

\* Mutant: the wait has no timeout.
CellWaitForever ==
  /\ At("op", "cellWait") /\ Attached /\ Go("op", "routes")
  /\ UNCHANGED <<phoneVars, intentVars, opVars, picked, recVars, probeVars, boundVars>>

\* Wait for both tunnels; at the timeout the operation fails.
CellWait ==
  /\ At("op", "cellWait") /\ WaitOver
  /\ Go("op", IF Attached THEN "routes" ELSE "clear")
  /\ UNCHANGED <<phoneVars, intentVars, opVars, picked, recVars, probeVars, boundVars>>

OpRoutes ==
  /\ At("op", "routes") /\ EnsureRoutes(tun) /\ Go("op", "resume")
  /\ UNCHANGED <<status, policy, cell, app, faults, tun, cam, apt, stalled, intentVars,
                 opVars, picked, recVars, probeVars, boundVars>>

\* After _attach_summary, which may wait for log lines, the camera switch is read.
OpResume ==
  /\ At("op", "resume") /\ Go("op", IF desired.camera THEN "app" ELSE "clear")
  /\ UNCHANGED <<phoneVars, intentVars, opVars, picked, recVars, probeVars, boundVars>>

\* Mutant: power_off leaves the restart policy as it is.
PolicyKept == policy

\* power_off sets this policy so that Docker does not bring the phone back.
PolicyWhenOff == "no"

\* power_off returns at once when the container is not running.
PowerOff ==
  /\ At("op", "off")
  /\ StopStream
  /\ Go("op", IF status = "running" THEN "pin" ELSE "clear")
  /\ UNCHANGED <<status, policy, cell, app, faults, tun, route, apt, stalled, intentVars,
                 opVars, picked, recVars, probeVars, boundVars>>

\* A call of its own: a container that has crashed since is "restarting" by now.
PinPolicy ==
  /\ At("op", "pin") /\ policy' = PolicyWhenOff /\ Go("op", "deregister")
  /\ UNCHANGED <<status, cell, app, faults, ueVars, intentVars, opVars, picked,
                 recVars, probeVars, boundVars>>

\* The switch-off deregistration ends the UE process, or nr-cli fails.
Deregister ==
  /\ At("op", "deregister") /\ Go("op", "halt")
  /\ \/ status = "running" /\ ProcessExits
     \/ UNCHANGED <<status, policy, ueVars>>
  /\ UNCHANGED <<cell, app, faults, intentVars, opVars, picked, recVars, probeVars, boundVars>>

\* The wait for the container to leave "running"; at its timeout, docker stop.
Halt ==
  /\ At("op", "halt") /\ Go("op", "clear")
  /\ IF status = "running" THEN Container("exited", policy)
                           ELSE UNCHANGED <<status, policy, ueVars>>
  /\ UNCHANGED <<cell, app, faults, intentVars, opVars, picked, recVars, probeVars, boundVars>>

\* Mutant: switching the camera off stops the container the ffmpeg runs in.
CameraHalts ==
  /\ At("op", "camera")
  /\ IF ~desired.camera THEN Container("exited", policy) /\ Go("op", "clear")
     ELSE IF AnyTun(tun)
     THEN EnsureRoutes(tun) /\ Go("op", "app") /\ UNCHANGED <<status, policy, tun, cam, apt, stalled>>
     ELSE Go("op", "clear") /\ UNCHANGED <<status, policy, ueVars>>
  /\ UNCHANGED <<cell, app, faults, intentVars, opVars, picked, recVars, probeVars, boundVars>>

\* The handler's lambda reads desired["camera"] only now.
CameraOp ==
  /\ At("op", "camera")
  /\ IF ~desired.camera THEN StopStream /\ UNCHANGED route /\ Go("op", "clear")
     ELSE IF AnyTun(tun) THEN EnsureRoutes(tun) /\ UNCHANGED cam /\ Go("op", "app")
     ELSE UNCHANGED <<route, cam>> /\ Go("op", "clear")
  /\ UNCHANGED <<status, policy, cell, app, faults, tun, apt, stalled, intentVars,
                 opVars, picked, recVars, probeVars, boundVars>>

SwitchMode ==
  /\ At("op", "path")
  /\ desired' = [desired EXCEPT !.mode = job.mode]
  /\ saved' = desired'
  /\ Go("op", IF desired.camera /\ AnyTun(tun) THEN "app" ELSE "clear")
  /\ UNCHANGED <<phoneVars, opVars, picked, recVars, probeVars, boundVars>>

\* The finally clause, in its two steps.
OpClear ==
  /\ At("op", "clear") /\ opName' = "none" /\ Go("op", "release")
  /\ UNCHANGED <<phoneVars, intentVars, job, bounced, picked, recVars, probeVars, boundVars>>

OpRelease ==
  /\ At("op", "release") /\ Go("op", "idle") /\ job' = NoJob
  /\ bounced' = (status = "restarting")
  /\ UNCHANGED <<phoneVars, intentVars, opName, picked, recVars, probeVars, boundVars>>

----------------------------------------------------------------------------
(* start_stream, by the runner or by the reconcile loop.                   *)

\* Mutant: ensure_ffmpeg without its lock.
FfmpegUnlocked(t) == t \in Starters

\* _ffmpeg_lock is free for t.
FfmpegLockFree(t) == \A s \in Starters \ {t} : pc[s] # "install"

\* ensure_ffmpeg: nothing to do, or apt starts, or the phone is off and it raises.
EnsureFfmpeg(t) ==
  /\ At(t, "app") /\ FfmpegLockFree(t)
  /\ IF status # "running" THEN Go(t, Home(t)) /\ UNCHANGED apt
     ELSE IF app = "ready" THEN Go(t, "pick") /\ UNCHANGED apt
     ELSE Go(t, "install") /\ apt' = apt \cup {t}
  /\ UNCHANGED <<status, policy, cell, app, faults, tun, route, cam, stalled, intentVars,
                 opVars, picked, recVars, probeVars, boundVars>>

\* apt-get is done, or failed, or ended with the container it ran in.
AptDone(t) ==
  /\ At(t, "install")
  /\ apt' = apt \ {t}
  /\ \/ t \in apt /\ app' = "ready" /\ Go(t, "pick") /\ UNCHANGED faults
     \/ t \in apt /\ Fault("apt") /\ Go(t, Home(t)) /\ UNCHANGED app
     \/ t \notin apt /\ Go(t, Home(t)) /\ UNCHANGED <<app, faults>>
  /\ UNCHANGED <<status, policy, cell, tun, route, cam, stalled, intentVars,
                 opVars, picked, recVars, probeVars, boundVars>>

\* Read the intent and copy the video: an exception if the file is gone.
PickStream(t) ==
  /\ At(t, "pick")
  /\ IF desired.video \in Gallery \cup {TestPattern}
     THEN /\ picked' = [picked EXCEPT ![t] = {[video |-> desired.video, mode |-> desired.mode]}]
          /\ Go(t, "kill")
     ELSE Go(t, Home(t)) /\ UNCHANGED picked
  /\ UNCHANGED <<phoneVars, intentVars, opVars, recVars, probeVars, boundVars>>

\* The copy takes its time; only then is whatever streams stopped.
StopOld(t) ==
  /\ At(t, "kill") /\ StopStream /\ Go(t, "exec")
  /\ UNCHANGED <<status, policy, cell, app, faults, tun, route, apt, stalled, intentVars,
                 opVars, picked, recVars, probeVars, boundVars>>

\* ue_detach: ffmpeg starts if the phone is running by now.
StartNew(t) ==
  /\ At(t, "exec") /\ Go(t, Home(t))
  /\ cam' = IF status = "running" THEN [cam EXCEPT ![t] = picked[t]] ELSE cam
  /\ picked' = [picked EXCEPT ![t] = {}]
  /\ UNCHANGED <<status, policy, cell, app, faults, tun, route, apt, stalled, intentVars,
                 opVars, recVars, probeVars, boundVars>>

StartStream(t) == EnsureFfmpeg(t) \/ AptDone(t) \/ PickStream(t) \/ StopOld(t) \/ StartNew(t)

----------------------------------------------------------------------------
(* The reconcile loop.                                                     *)

\* _poll_once reads the container list and the tunnels first ...
RecPoll ==
  /\ At("rec", "poll") /\ Go("rec", "publish")
  /\ seen' = [running |-> status = "running", tun |-> tun, streaming |-> FALSE]
  /\ UNCHANGED <<phoneVars, intentVars, opVars, picked, snapshot, backoff, probeVars, boundVars>>

\* ... and ffmpeg last, after several HTTP calls, then publishes all of it.
RecPublish ==
  /\ At("rec", "publish") /\ Go("rec", "decide")
  /\ snapshot' = [seen EXCEPT !.streaming = seen.running /\ Streaming]
  /\ seen' = NoPoll
  /\ UNCHANGED <<phoneVars, intentVars, opVars, picked, backoff, probeVars, boundVars>>

RecMayAct == opName = "none" /\ snapshot.running /\ AnyTun(snapshot.tun)
RecStarts == desired.camera /\ ~snapshot.streaming /\ ~backoff

\* The loop's last branch, stop_stream when the camera is not wanted, comes
\* after `elif ue["streaming"]` and is never reached, so it has no action.
RecDecide ==
  /\ At("rec", "decide")
  /\ IF RecMayAct
     THEN /\ EnsureRoutes(snapshot.tun)
          /\ Go("rec", IF RecStarts THEN "app" ELSE "poll")
          /\ backoff' = IF RecStarts THEN TRUE
                        ELSE IF snapshot.streaming THEN FALSE ELSE backoff
     ELSE Go("rec", "poll") /\ UNCHANGED <<route, backoff>>
  /\ UNCHANGED <<status, policy, cell, app, faults, tun, cam, apt, stalled, intentVars,
                 opVars, picked, seen, snapshot, probeVars, boundVars>>

\* Mutant: the loop tests restart_backoff["n"], which only streaming resets.
BackoffHeld ==
  /\ backoff /\ snapshot.streaming /\ backoff' = FALSE
  /\ UNCHANGED <<phoneVars, intentVars, opVars, pc, picked, seen, snapshot, probeVars, boundVars>>

\* The clock passes restart_backoff["until"].
BackoffExpires ==
  /\ backoff /\ backoff' = FALSE
  /\ UNCHANGED <<phoneVars, intentVars, opVars, pc, picked, seen, snapshot, probeVars, boundVars>>

----------------------------------------------------------------------------
(* The probe loop.                                                         *)

\* Count the ping and, at the limit with no operation reported, re-attach:
\* _run_op refuses silently when the lock is held all the same.
Verdict(alive) ==
  LET fails == IF alive THEN 0 ELSE IF edgeFail < FailLimit THEN edgeFail + 1 ELSE FailLimit
      stall == fails = FailLimit /\ opName = "none"
  IN  /\ edgeFail' = IF stall THEN 0 ELSE fails
      /\ IF stall /\ LockFree THEN Launch("Re-attach", "edge") ELSE UNCHANGED <<job, pc>>
      /\ probePc' = "sleep" /\ edgeIf' = "none"

\* A round begins when the last poll saw a tunnel and no operation is reported.
ProbeWatch ==
  /\ probePc = "watch" /\ AnyTun(snapshot.tun) /\ opName = "none"
  /\ probePc' = "ping"
  /\ UNCHANGED <<phoneVars, intentVars, opVars, pc, picked, recVars, edgeIf, edgeFail, boundVars>>

\* After the HTTP probes: take the edge interface from the last poll and, in
\* ue_sh, look whether the container is running.
ProbePing ==
  /\ probePc = "ping"
  /\ IF snapshot.tun["edge"] # "none" /\ status = "running"
     THEN edgeIf' = snapshot.tun["edge"] /\ probePc' = "exec" /\ UNCHANGED <<edgeFail, job, pc>>
     ELSE Verdict(FALSE)
  /\ UNCHANGED <<phoneVars, intentVars, opName, bounced, picked, recVars, boundVars>>

\* exec_run: on a container that stopped since, docker raises, nothing in the
\* loop catches it, and the thread is gone until the portal restarts.
ProbeExec ==
  /\ probePc = "exec"
  /\ IF status = "running" THEN \E alive \in PingAnswers(edgeIf) : Verdict(alive)
     ELSE probePc' = "dead" /\ edgeIf' = "none" /\ UNCHANGED <<edgeFail, job, pc>>
  /\ UNCHANGED <<phoneVars, intentVars, opName, bounced, picked, recVars, boundVars>>

\* Three seconds are enough for a runner launched before to take its first step.
ProbeSleep ==
  /\ probePc = "sleep" /\ ~At("op", "begin")
  /\ probePc' = "watch"
  /\ UNCHANGED <<phoneVars, intentVars, opVars, pc, picked, recVars, edgeIf, edgeFail, boundVars>>

----------------------------------------------------------------------------
(* The portal is restarted: all but the state file and the phone is lost.  *)

\* _adopt_current_state: a running ffmpeg overrides what load_desired read.
Adopted ==
  LET streams == UNION {cam[s] : s \in Starters}
      files   == {s.video : s \in streams} \cap Gallery
      mode    == IF \E s \in streams : s.mode = "central" THEN "central" ELSE "edge"
  IN  IF ~Streaming THEN {saved}
      ELSE {[camera |-> TRUE, video |-> v, mode |-> mode] :
              v \in IF files = {} THEN {saved.video} ELSE files}

PortalRestart ==
  /\ crashes < MaxCrashes /\ crashes' = crashes + 1
  /\ desired' \in Adopted
  /\ opName' = "none" /\ job' = NoJob /\ bounced' = (status = "restarting")
  /\ pc' = [s \in Starters |-> IF s = "op" THEN "idle" ELSE "poll"]
  /\ picked' = NoPick
  /\ seen' = NoPoll /\ snapshot' = NoPoll /\ backoff' = FALSE
  /\ probePc' = "watch" /\ edgeIf' = "none" /\ edgeFail' = 0
  /\ apt' = IF apt = {} THEN {} ELSE {"orphan"}
  /\ UNCHANGED <<status, policy, cell, app, faults, tun, route, cam, stalled, saved, requests>>

----------------------------------------------------------------------------
Browser ==
  \/ \E on \in BOOLEAN : ApiPower(on)
  \/ \E on \in BOOLEAN, v \in Videos : ApiCamera(on, v)
  \/ \E m \in Modes : ApiPath(m)

OpStep ==
  \/ OpBegin \/ Boot \/ AttachWait \/ CellStop \/ CellReset \/ CellBoot \/ CellWait
  \/ OpRoutes \/ OpResume \/ PowerOff \/ PinPolicy \/ Deregister \/ Halt \/ CameraOp \/ SwitchMode
  \/ OpClear \/ OpRelease \/ StartStream("op")

RecStep   == RecPoll \/ RecPublish \/ RecDecide \/ StartStream("rec")
ProbeStep == ProbeWatch \/ ProbePing \/ ProbeExec \/ ProbeSleep

Environment ==
  /\ PhoneStep
  /\ bounced' = (status' = "restarting" \/ (bounced /\ ~LockFree))
  /\ UNCHANGED <<intentVars, opName, job, pc, picked, recVars, probeVars, boundVars>>

Next == Browser \/ OpStep \/ RecStep \/ BackoffExpires \/ ProbeStep \/ PortalRestart \/ Environment

\* Threads are scheduled, the clock advances, sessions come up on a good cell
\* and Docker restarts what it should; nobody is obliged to press a button, and
\* no fault or restart has to happen.
Fairness ==
  /\ WF_vars(OpStep) /\ WF_vars(RecStep) /\ WF_vars(ProbeStep)
  /\ WF_vars(BackoffExpires)
  /\ PhoneFairness

Spec == Init /\ [][Next]_vars /\ Fairness

----------------------------------------------------------------------------
(* Safety.                                                                 *)

\* The phone boots only on a fresh cell: when _reset_cell_and_boot is about to
\* start it, it has stayed off since before the gNB restart and no ghost
\* context is left (the comment in _reset_cell_and_boot).
CellResetSafe == At("op", "cellBoot") => status = "exited" /\ cell = "ok"

\* One apt-get at a time, from whichever thread, until the portal is restarted
\* in the middle of one (ensure_ffmpeg's comment).
AptSerialised == crashes = 0 => \A a, b \in apt : a = b

\* When a power-off ends, the phone is off for good and nothing streams from
\* it: Docker will not bring it back and the reconcile loop has not restarted
\* the camera behind the operation's back; unless Docker was restarting a
\* crashed phone when power_off looked, or has had to before the policy was set.
PowerOffHolds ==
  job.name = "Power off" /\ ~bounced /\ pc["op"] \in {"clear", "release"}
     => status = "exited" /\ ~Streaming /\ apt = {}

\* All this keeps what PowerButton promises: whichever thread acts, on however
\* old a poll, the container changes its status in an operation made for it
\* (power_on, _reset_cell_and_boot, power_off), by a crash that is among the
\* faults, by Docker's restart after one, and in no other way; operations come
\* one at a time; and a power-off that did not meet a crashed phone ends with
\* it off and silent.
Power  == [running |-> "on", exited |-> "off", restarting |-> "crashed"]
Button == INSTANCE PowerButton
            WITH power <- Power[status], playing <- Streaming, task <- job.name,
                 excused <- bounced, deaths <- crashes, faults <- faults
ButtonKept == Button!Spec

----------------------------------------------------------------------------
(* Liveness.                                                               *)

\* An operation the portal has accepted ends and gives the lock back.
OpsFinish == ~LockFree ~> LockFree

\* The probe notices a stalled radio link by itself, re-attaches the phone, and
\* a camera that was wanted streams again (docs/demo.md:65).
StallRecovers == stalled ~> ~stalled /\ Attached /\ (desired.camera => Streaming)

\* While the camera is wanted, a phone that stays attached does not stay
\* without a stream: what ends it, the reconcile loop or an operation restarts it.
StreamResumes == []<>(desired.camera /\ Attached => Streaming)

\* However interfaces are numbered after a re-attach, the host routes end up
\* on the tunnels of the sessions that are up.
RoutesConverge == []<>(\A d \in Dnns : tun[d] # "none" => route[d] = tun[d])
=============================================================================
