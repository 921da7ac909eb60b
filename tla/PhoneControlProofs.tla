------------------------- MODULE PhoneControlProofs -------------------------
(***************************************************************************)
(* Theorems about PhoneControl, for every set of videos, requests and      *)
(* faults and for every bound.                                             *)
(***************************************************************************)
EXTENDS PhoneControl, TLAPS

----------------------------------------------------------------------------
(* Type correctness, group of variables by group of variables.             *)

LEMMA PhoneInitType == PhoneInit => PhoneTypeOK
<1> SUFFICES ASSUME PhoneInit PROVE PhoneTypeOK
  OBVIOUS
<1>1. tun \in [Dnns -> Tunnels \cup {"none"}]
  BY DEF PhoneInit, Dnns, Tunnels
<1>2. faults \in Seq(AllFaults) /\ Len(faults) <= MaxFaults
  BY PhoneAssumption DEF PhoneAssumption, PhoneInit
<1>3. cam \in [Starters -> SUBSET Stream]
  BY DEF PhoneInit, NoCams
<1>4. QED
  BY <1>1, <1>2, <1>3 DEF PhoneInit, PhoneTypeOK, NoTuns, Statuses, Policies

LEMMA TypeInit == Init => TypeOK
<1> SUFFICES ASSUME Init PROVE TypeOK
  OBVIOUS
<1> USE ControlAssumption DEF ControlAssumption, Init
<1>1. IntentOK
  BY DEF IntentOK, Intent, Modes
<1>2. OpOK
  BY DEF OpOK, NoJob, Jobs, Modes
<1>3. PcOK
  BY DEF PcOK, Starters, OpLabels, RecLabels
<1>4. PickedOK /\ RecOK
  BY DEF PickedOK, NoPick, RecOK, NoPoll, NoTuns, Poll
<1>5. ProbeOK /\ BoundOK
  BY DEF ProbeOK, ProbeLabels, BoundOK
<1>6. QED
  BY <1>1, <1>2, <1>3, <1>4, <1>5, PhoneInitType DEF TypeOK

\* A group of variables a step leaves alone stays well typed.
LEMMA Frames ==
  TypeOK =>
    /\ UNCHANGED phoneVars => PhoneTypeOK'
    /\ UNCHANGED intentVars => IntentOK'
    /\ UNCHANGED opVars => OpOK'
    /\ UNCHANGED pc => PcOK'
    /\ UNCHANGED picked => PickedOK'
    /\ UNCHANGED recVars => RecOK'
    /\ UNCHANGED probeVars => ProbeOK'
    /\ UNCHANGED boundVars => BoundOK'
  BY DEF TypeOK, PhoneTypeOK, IntentOK, OpOK, PcOK, PickedOK, RecOK, ProbeOK, BoundOK,
         phoneVars, ueVars, intentVars, opVars, recVars, probeVars, boundVars

\* A thread that goes to one of its own labels.
LEMMA GoType ==
  ASSUME PcOK, NEW t \in Starters, NEW l, Go(t, l),
         t = "op" => l \in OpLabels, t = "rec" => l \in RecLabels
  PROVE  PcOK'
  BY DEF PcOK, Go, Starters

FaultsOK == faults \in Seq(AllFaults) /\ Len(faults) <= MaxFaults

\* A container that is started, stopped or has lost its process.
LEMMA ContainerType ==
  ASSUME PhoneTypeOK, NEW s \in Statuses, NEW p \in Policies, Container(s, p),
         UNCHANGED <<cell, app>>, FaultsOK'
  PROVE  PhoneTypeOK'
  BY DEF PhoneTypeOK, FaultsOK, Container, NoTuns, NoCams

LEMMA RouteType ==
  ASSUME PhoneTypeOK, NEW t, EnsureRoutes(t)
  PROVE  route' \in [Dnns -> Tunnels \cup {"none"}]
  BY DEF PhoneTypeOK, EnsureRoutes, Live

LEMMA FaultType == ASSUME PhoneTypeOK, NEW k, Fault(k) PROVE FaultsOK'
  BY PhoneAssumption DEF PhoneAssumption, PhoneTypeOK, FaultsOK, Fault

LEMMA ExitType == PhoneTypeOK => (IF policy = "no" THEN "exited" ELSE "restarting") \in Statuses
  BY DEF PhoneTypeOK, Statuses

LEMMA PhoneStepType == PhoneTypeOK /\ PhoneStep => PhoneTypeOK'
<1> SUFFICES ASSUME PhoneTypeOK, PhoneStep PROVE PhoneTypeOK'
  OBVIOUS
<1>1. ASSUME NEW d \in Dnns, SessionUp(d) PROVE PhoneTypeOK'
  BY <1>1 DEF SessionUp, PhoneTypeOK, Tunnels
<1>2. CASE Stall
  BY <1>2, FaultType DEF Stall, FaultsOK, PhoneTypeOK
<1>3. CASE GhostContext
  BY <1>3, FaultType DEF GhostContext, ueVars, FaultsOK, PhoneTypeOK
<1>4. ASSUME NEW s \in Starters, StreamDies(s) PROVE PhoneTypeOK'
  BY <1>4, FaultType DEF StreamDies, FaultsOK, PhoneTypeOK
<1>5. CASE PhoneCrashes
  <2>1. policy \in Policies
    BY DEF PhoneTypeOK
  <2>2. FaultsOK'
    BY <1>5, FaultType DEF PhoneCrashes
  <2>3. QED
    BY <1>5, <2>1, <2>2, ContainerType, ExitType DEF PhoneCrashes, ProcessExits
<1>6. CASE DockerRestarts
  BY <1>6, ContainerType DEF DockerRestarts, PhoneTypeOK, FaultsOK, Statuses
<1>7. CASE OrphanAptEnds
  BY <1>7 DEF OrphanAptEnds, PhoneTypeOK
<1>8. QED
  BY <1>1, <1>2, <1>3, <1>4, <1>5, <1>6, <1>7 DEF PhoneStep

LEMMA LaunchType ==
  ASSUME TypeOK, NEW n \in Jobs, NEW m \in Modes, Launch(n, m)
  PROVE  job' \in [name : Jobs, mode : Modes] /\ PcOK'
  BY GoType DEF TypeOK, Launch, Starters, OpLabels

LEMMA BrowserType == TypeOK /\ Browser => TypeOK'
<1> SUFFICES ASSUME TypeOK, Browser PROVE TypeOK'
  OBVIOUS
<1>1. ASSUME NEW k, Request(k) PROVE BoundOK'
  BY <1>1, ControlAssumption DEF ControlAssumption, Request, TypeOK, BoundOK
<1>2. ASSUME NEW on \in BOOLEAN, ApiPower(on) PROVE TypeOK'
  <2>1. OpOK' /\ PcOK'
    BY <1>2, LaunchType DEF ApiPower, TypeOK, OpOK, Jobs, Modes
  <2>2. QED
    BY <1>1, <1>2, <2>1, Frames DEF ApiPower, TypeOK
<1>3. ASSUME NEW on \in BOOLEAN, NEW v \in Videos, ApiCamera(on, v) PROVE TypeOK'
  <2>1. IntentOK'
    BY <1>3 DEF ApiCamera, TypeOK, IntentOK, Intent
  <2>2. OpOK' /\ PcOK'
    <3>1. CASE LockFree
      BY <1>3, <3>1, LaunchType DEF ApiCamera, TypeOK, OpOK, Jobs, Modes
    <3>2. CASE ~LockFree
      BY <1>3, <3>2, Frames DEF ApiCamera, opVars
    <3>3. QED
      BY <3>1, <3>2
  <2>3. QED
    BY <1>1, <1>3, <2>1, <2>2, Frames DEF ApiCamera, TypeOK
<1>4. ASSUME NEW m \in Modes, ApiPath(m) PROVE TypeOK'
  <2>1. OpOK' /\ PcOK'
    BY <1>4, LaunchType DEF ApiPath, TypeOK, OpOK, Jobs
  <2>2. QED
    BY <1>1, <1>4, <2>1, Frames DEF ApiPath, TypeOK
<1>5. QED
  BY <1>2, <1>3, <1>4 DEF Browser

LEMMA StartStreamType == \A t \in Starters : TypeOK /\ StartStream(t) => TypeOK'
<1> SUFFICES ASSUME NEW t \in Starters, TypeOK, StartStream(t) PROVE TypeOK'
  OBVIOUS
<1>1. ASSUME NEW l \in StartLabels \cup {Home(t)}, Go(t, l) PROVE PcOK'
  BY <1>1, GoType DEF Home, TypeOK, Starters, StartLabels, OpLabels, RecLabels
<1>2. CASE EnsureFfmpeg(t)
  <2>1. PhoneTypeOK'
    BY <1>2 DEF EnsureFfmpeg, TypeOK, PhoneTypeOK
  <2>2. PcOK'
    BY <1>1, <1>2 DEF EnsureFfmpeg, StartLabels
  <2>3. QED
    BY <1>2, <2>1, <2>2, Frames DEF EnsureFfmpeg, TypeOK
<1>3. CASE AptDone(t)
  <2>1. PhoneTypeOK'
    BY <1>3, FaultType DEF AptDone, TypeOK, FaultsOK, PhoneTypeOK
  <2>2. PcOK'
    BY <1>1, <1>3 DEF AptDone, StartLabels
  <2>3. QED
    BY <1>3, <2>1, <2>2, Frames DEF AptDone, TypeOK
<1>4. CASE StopOld(t)
  <2>1. PhoneTypeOK'
    BY <1>4 DEF StopOld, StopStream, NoCams, TypeOK, PhoneTypeOK
  <2>2. PcOK'
    BY <1>1, <1>4 DEF StopOld, StartLabels
  <2>3. QED
    BY <1>4, <2>1, <2>2, Frames DEF StopOld, TypeOK
<1>4a. CASE PickStream(t)
  <2>1. PcOK'
    BY <1>1, <1>4a DEF PickStream, StartLabels
  <2>2. PickedOK'
    BY <1>4a DEF PickStream, TypeOK, PickedOK, IntentOK, Intent, Stream
  <2>3. QED
    BY <1>4a, <2>1, <2>2, Frames DEF PickStream, TypeOK
<1>5. CASE StartNew(t)
  <2>1. PhoneTypeOK'
    BY <1>5 DEF StartNew, TypeOK, PhoneTypeOK, PickedOK
  <2>2. PcOK'
    BY <1>1, <1>5 DEF StartNew
  <2>3. PickedOK'
    BY <1>5 DEF StartNew, TypeOK, PickedOK
  <2>4. QED
    BY <1>5, <2>1, <2>2, <2>3, Frames DEF StartNew, TypeOK
<1>6. QED
  BY <1>2, <1>3, <1>4, <1>4a, <1>5 DEF StartStream

LEMMA OpStepType == TypeOK /\ OpStep => TypeOK'
<1> SUFFICES ASSUME TypeOK, OpStep PROVE TypeOK'
  OBVIOUS
<1>1. ASSUME NEW l \in OpLabels, Go("op", l) PROVE PcOK'
  BY <1>1, GoType DEF TypeOK, Starters
<1>2. \A n : Entry(n) \in OpLabels
  BY DEF Entry, OpLabels
<1> USE DEF OpLabels, StartLabels
<1>3. FaultsOK /\ (UNCHANGED faults => FaultsOK') /\ status \in Statuses /\ policy \in Policies
  BY DEF TypeOK, PhoneTypeOK, FaultsOK
<1>4. CASE OpBegin
  <2>1. OpOK' /\ PcOK'
    BY <1>1, <1>2, <1>4 DEF OpBegin, TypeOK, OpOK
  <2>2. QED
    BY <1>4, <2>1, Frames DEF OpBegin, TypeOK
<1>5. CASE Boot \/ CellStop \/ CellBoot
  <2>1. PcOK'
    BY <1>1, <1>5 DEF Boot, CellStop, CellBoot
  <2>2. PhoneTypeOK'
    BY <1>3, <1>5, ContainerType DEF Boot, CellStop, CellBoot, TypeOK, Statuses, Policies
  <2>3. QED
    BY <1>5, <2>1, <2>2, Frames DEF Boot, CellStop, CellBoot, TypeOK
<1>6. CASE AttachWait \/ CellWait
  <2>1. PcOK'
    BY <1>1, <1>6 DEF AttachWait, CellWait
  <2>2. QED
    BY <1>6, <2>1, Frames DEF AttachWait, CellWait, TypeOK
<1>7. CASE CellReset
  <2>1. PcOK' /\ PhoneTypeOK'
    BY <1>1, <1>7 DEF CellReset, TypeOK, PhoneTypeOK, ueVars
  <2>2. QED
    BY <1>7, <2>1, Frames DEF CellReset, TypeOK
<1>8. CASE OpRoutes
  <2>1. PcOK' /\ PhoneTypeOK'
    BY <1>1, <1>8, RouteType DEF OpRoutes, TypeOK, PhoneTypeOK
  <2>2. QED
    BY <1>8, <2>1, Frames DEF OpRoutes, TypeOK
<1>8a. CASE OpResume
  <2>1. PcOK'
    BY <1>1, <1>8a DEF OpResume
  <2>2. QED
    BY <1>8a, <2>1, Frames DEF OpResume, TypeOK
<1>9. CASE PowerOff
  <2>1. PcOK'
    BY <1>1, <1>9 DEF PowerOff
  <2>2. PhoneTypeOK'
    BY <1>9 DEF PowerOff, StopStream, NoCams, PolicyWhenOff, Policies, TypeOK, PhoneTypeOK
  <2>3. QED
    BY <1>9, <2>1, <2>2, Frames DEF PowerOff, TypeOK
<1>9a. CASE PinPolicy
  <2>1. PcOK' /\ PhoneTypeOK'
    BY <1>1, <1>9a DEF PinPolicy, PolicyWhenOff, Policies, TypeOK, PhoneTypeOK, ueVars
  <2>2. QED
    BY <1>9a, <2>1, Frames DEF PinPolicy, TypeOK
<1>10. CASE Deregister
  <2>1. PcOK'
    BY <1>1, <1>10 DEF Deregister
  <2>2. PhoneTypeOK'
    <3>1. CASE ProcessExits
      BY <1>3, <1>10, <3>1, ContainerType, ExitType DEF Deregister, ProcessExits, TypeOK
    <3>2. CASE UNCHANGED <<status, policy, ueVars>>
      BY <1>10, <3>2, Frames DEF Deregister, phoneVars
    <3>3. QED
      BY <1>10, <3>1, <3>2 DEF Deregister
  <2>3. QED
    BY <1>10, <2>1, <2>2, Frames DEF Deregister, TypeOK
<1>11. CASE Halt
  <2>1. PcOK'
    BY <1>1, <1>11 DEF Halt
  <2>2. PhoneTypeOK'
    <3>1. CASE status = "running"
      BY <1>3, <1>11, <3>1, ContainerType DEF Halt, Statuses, TypeOK
    <3>2. CASE status # "running"
      BY <1>11, <3>2, Frames DEF Halt, phoneVars
    <3>3. QED
      BY <3>1, <3>2
  <2>3. QED
    BY <1>11, <2>1, <2>2, Frames DEF Halt, TypeOK
<1>12. CASE CameraOp
  <2>1. PcOK'
    BY <1>1, <1>12 DEF CameraOp
  <2>2. PhoneTypeOK'
    BY <1>12, RouteType DEF CameraOp, StopStream, NoCams, TypeOK, PhoneTypeOK
  <2>3. QED
    BY <1>12, <2>1, <2>2, Frames DEF CameraOp, TypeOK
<1>13. CASE SwitchMode
  <2>1. PcOK'
    BY <1>1, <1>13 DEF SwitchMode
  <2>2. IntentOK'
    BY <1>13 DEF SwitchMode, TypeOK, IntentOK, Intent, OpOK
  <2>3. QED
    BY <1>13, <2>1, <2>2, Frames DEF SwitchMode, TypeOK
<1>14. CASE OpClear
  <2>1. PcOK'
    BY <1>1, <1>14 DEF OpClear
  <2>2. OpOK'
    BY <1>14 DEF OpClear, Jobs, TypeOK, OpOK
  <2>3. QED
    BY <1>14, <2>1, <2>2, Frames DEF OpClear, TypeOK
<1>15. CASE OpRelease
  <2>1. PcOK'
    BY <1>1, <1>15 DEF OpRelease
  <2>2. OpOK'
    <3>1. opName' \in Jobs
      BY <1>15 DEF OpRelease, TypeOK, OpOK
    <3>2. job' \in [name : Jobs, mode : Modes]
      <4>1. job' = [name |-> "none", mode |-> "edge"]
        BY <1>15 DEF OpRelease, NoJob
      <4>2. QED
        BY <4>1 DEF Jobs, Modes
    <3>3. bounced' \in BOOLEAN
      BY <1>15 DEF OpRelease
    <3>4. QED
      BY <3>1, <3>2, <3>3 DEF OpOK
  <2>3. QED
    BY <1>15, <2>1, <2>2, Frames DEF OpRelease, TypeOK
<1>16. CASE StartStream("op")
  BY <1>16, StartStreamType DEF Starters
<1>17. QED
  BY <1>4, <1>5, <1>6, <1>7, <1>8, <1>8a, <1>9, <1>9a, <1>10, <1>11, <1>12, <1>13, <1>14, <1>15,
     <1>16
  DEF OpStep

LEMMA RecStepType == TypeOK /\ (RecStep \/ BackoffExpires) => TypeOK'
<1> SUFFICES ASSUME TypeOK, RecStep \/ BackoffExpires PROVE TypeOK'
  OBVIOUS
<1>1. ASSUME NEW l \in RecLabels, Go("rec", l) PROVE PcOK'
  BY <1>1, GoType DEF TypeOK, Starters
<1> USE DEF RecLabels, StartLabels
<1>2. CASE RecPoll
  <2>1. PcOK' /\ RecOK'
    BY <1>1, <1>2 DEF RecPoll, TypeOK, PhoneTypeOK, RecOK, Poll
  <2>2. QED
    BY <1>2, <2>1, Frames DEF RecPoll, TypeOK
<1>3. CASE RecPublish
  <2>1. PcOK' /\ RecOK'
    BY <1>1, <1>3 DEF RecPublish, TypeOK, RecOK, Poll, NoPoll, NoTuns, Streaming
  <2>2. QED
    BY <1>3, <2>1, Frames DEF RecPublish, TypeOK
<1>4. CASE RecDecide
  <2>1. PcOK'
    BY <1>1, <1>4 DEF RecDecide
  <2>2. PhoneTypeOK'
    BY <1>4, RouteType DEF RecDecide, TypeOK, PhoneTypeOK
  <2>3. RecOK'
    BY <1>4 DEF RecDecide, TypeOK, RecOK
  <2>4. QED
    BY <1>4, <2>1, <2>2, <2>3, Frames DEF RecDecide, TypeOK
<1>5. CASE StartStream("rec")
  BY <1>5, StartStreamType DEF Starters
<1>6. CASE BackoffExpires
  <2>1. RecOK'
    BY <1>6 DEF BackoffExpires, TypeOK, RecOK
  <2>2. QED
    BY <1>6, <2>1, Frames DEF BackoffExpires, TypeOK
<1>7. QED
  BY <1>2, <1>3, <1>4, <1>5, <1>6 DEF RecStep

LEMMA VerdictType ==
  ASSUME TypeOK, NEW alive \in BOOLEAN, Verdict(alive), UNCHANGED <<opName, bounced>>
  PROVE  ProbeOK' /\ OpOK' /\ PcOK'
<1>1. ProbeOK'
  BY ControlAssumption DEF ControlAssumption, Verdict, TypeOK, ProbeOK, ProbeLabels
<1>2. CASE Launch("Re-attach", "edge")
  BY <1>1, <1>2, LaunchType DEF TypeOK, OpOK, Jobs, Modes
<1>3. CASE UNCHANGED <<job, pc>>
  BY <1>1, <1>3, Frames DEF opVars
<1>4. QED
  BY <1>2, <1>3 DEF Verdict

LEMMA ProbeStepType == TypeOK /\ ProbeStep => TypeOK'
<1> SUFFICES ASSUME TypeOK, ProbeStep PROVE TypeOK'
  OBVIOUS
<1>1. CASE ProbeWatch \/ ProbeSleep
  <2>1. ProbeOK'
    BY <1>1 DEF ProbeWatch, ProbeSleep, TypeOK, ProbeOK, ProbeLabels
  <2>2. QED
    BY <1>1, <2>1, Frames DEF ProbeWatch, ProbeSleep, TypeOK
<1>2. CASE ProbePing
  <2>1. ProbeOK' /\ OpOK' /\ PcOK'
    <3>1. CASE Verdict(FALSE)
      BY <1>2, <3>1, VerdictType DEF ProbePing
    <3>2. CASE edgeIf' = snapshot.tun["edge"] /\ probePc' = "exec" /\ UNCHANGED <<edgeFail, job, pc>>
      <4>1. ProbeOK'
        BY <3>2 DEF TypeOK, ProbeOK, ProbeLabels, RecOK, Poll, Dnns
      <4>2. QED
        BY <1>2, <3>2, <4>1, Frames DEF ProbePing, opVars
    <3>3. QED
      BY <1>2, <3>1, <3>2 DEF ProbePing
  <2>2. QED
    BY <1>2, <2>1, Frames DEF ProbePing, TypeOK
<1>3. CASE ProbeExec
  <2>1. ProbeOK' /\ OpOK' /\ PcOK'
    <3>1. CASE status = "running"
      <4>1. PICK alive \in PingAnswers(edgeIf) : Verdict(alive)
        BY <1>3, <3>1 DEF ProbeExec
      <4>2. alive \in BOOLEAN
        BY DEF PingAnswers, TypeOK, PhoneTypeOK
      <4>3. QED
        BY <1>3, <4>1, <4>2, VerdictType DEF ProbeExec
    <3>2. CASE status # "running"
      <4>1. ProbeOK'
        BY <1>3, <3>2 DEF ProbeExec, TypeOK, ProbeOK, ProbeLabels
      <4>2. QED
        BY <1>3, <3>2, <4>1, Frames DEF ProbeExec, opVars
    <3>3. QED
      BY <3>1, <3>2
  <2>2. QED
    BY <1>3, <2>1, Frames DEF ProbeExec, TypeOK
<1>4. QED
  BY <1>1, <1>2, <1>3 DEF ProbeStep

LEMMA RestartType == TypeOK /\ PortalRestart => TypeOK'
<1> SUFFICES ASSUME TypeOK, PortalRestart PROVE TypeOK'
  OBVIOUS
<1> USE DEF PortalRestart, TypeOK
<1>1. PhoneTypeOK'
  BY DEF PhoneTypeOK
<1>2. IntentOK'
  <2>1. \A s \in UNION {cam[t] : t \in Starters} : s \in Stream
    BY DEF PhoneTypeOK
  <2>2. \A i \in Adopted : i \in Intent
    <3>1. saved \in Intent
      BY DEF IntentOK
    <3>2. ASSUME NEW v \in Videos, NEW m \in Modes
          PROVE  [camera |-> TRUE, video |-> v, mode |-> m] \in Intent
      BY DEF Intent
    <3>3. \A v \in {s.video : s \in UNION {cam[t] : t \in Starters}} \cap Gallery : v \in Videos
      BY <2>1 DEF Stream
    <3>4. saved.video \in Videos
      BY <3>1 DEF Intent
    <3>5. QED
      BY <3>1, <3>2, <3>3, <3>4 DEF Adopted, Modes
  <2>3. QED
    BY <2>2 DEF IntentOK
<1>3. OpOK' /\ PickedOK' /\ RecOK'
  BY DEF OpOK, NoJob, Jobs, Modes, PickedOK, NoPick, RecOK, NoPoll, NoTuns, Poll
<1>4. PcOK'
  BY DEF PcOK, Starters, OpLabels, RecLabels
<1>5. ProbeOK' /\ BoundOK'
  BY ControlAssumption DEF ControlAssumption, ProbeOK, ProbeLabels, BoundOK
<1>6. QED
  BY <1>1, <1>2, <1>3, <1>4, <1>5

LEMMA TypeNext == TypeOK /\ [Next]_vars => TypeOK'
<1> SUFFICES ASSUME TypeOK, [Next]_vars PROVE TypeOK'
  OBVIOUS
<1>1. CASE Environment
  <2>1. PhoneTypeOK'
    BY <1>1, PhoneStepType DEF Environment, TypeOK
  <2>2. bounced' \in BOOLEAN
    BY <1>1 DEF Environment
  <2>3. OpOK'
    BY <1>1, <2>2 DEF Environment, TypeOK, OpOK
  <2>4. QED
    BY <1>1, <2>1, <2>3, Frames DEF Environment, TypeOK
<1>2. CASE UNCHANGED vars
  BY <1>2, Frames DEF vars, TypeOK
<1>3. QED
  BY <1>1, <1>2, BrowserType, OpStepType, RecStepType, ProbeStepType, RestartType DEF Next

\* The portal's variables and the phone's keep their types in every behaviour.
THEOREM TypeCorrect == Spec => []TypeOK
  BY TypeInit, TypeNext, PTL DEF Spec

----------------------------------------------------------------------------
(* What each thread leaves alone.                                          *)

\* A free portal has accepted an operation.
Launched ==
  /\ At("op", "idle") /\ job'.name \in Jobs \ {"none"}
  /\ pc'["op"] = "begin" /\ pc'["rec"] = pc["rec"]

\* A request and a probe round touch neither the phone nor the reconcile loop:
\* at most they start the runner of a free portal.
LEMMA LaunchFrame ==
  TypeOK /\ (Browser \/ ProbeStep)
    => /\ UNCHANGED <<phoneVars, bounced, crashes>>
       /\ UNCHANGED <<job, pc>> \/ Launched
<1> SUFFICES ASSUME TypeOK, Browser \/ ProbeStep
             PROVE  UNCHANGED <<phoneVars, bounced, crashes>> /\ (UNCHANGED <<job, pc>> \/ Launched)
  OBVIOUS
<1>1. ASSUME NEW n \in Jobs \ {"none"}, NEW m, LockFree, Launch(n, m) PROVE Launched
  BY <1>1 DEF Launched, LockFree, Launch, Go, TypeOK, PcOK, Starters
<1>2. ASSUME NEW alive, Verdict(alive) PROVE UNCHANGED <<job, pc>> \/ Launched
  BY <1>1, <1>2 DEF Verdict, Jobs
<1>3. CASE Browser
  BY <1>1, <1>3 DEF Browser, ApiPower, ApiCamera, ApiPath, Request, Jobs
<1>4. CASE ProbeStep
  <2>1. CASE ProbeWatch \/ ProbeSleep
    BY <2>1 DEF ProbeWatch, ProbeSleep, opVars, boundVars
  <2>2. CASE ProbePing
    BY <1>2, <2>2 DEF ProbePing, boundVars
  <2>3. CASE ProbeExec
    BY <1>2, <2>3 DEF ProbeExec, boundVars
  <2>4. QED
    BY <1>4, <2>1, <2>2, <2>3 DEF ProbeStep
<1>5. QED
  BY <1>3, <1>4

\* The reconcile loop touches neither the runner nor the containers.
LEMMA RecFrame ==
  TypeOK /\ (RecStep \/ BackoffExpires)
    => UNCHANGED <<status, policy, cell, tun, job, bounced, crashes>> /\ pc'["op"] = pc["op"]
<1> SUFFICES ASSUME TypeOK, RecStep \/ BackoffExpires
             PROVE  UNCHANGED <<status, policy, cell, tun, job, bounced, crashes>> /\ pc'["op"] = pc["op"]
  OBVIOUS
<1>1. ASSUME NEW l, Go("rec", l) PROVE pc'["op"] = pc["op"]
  BY <1>1 DEF Go, TypeOK, PcOK, Starters
<1> USE DEF phoneVars, ueVars, opVars, boundVars
<1>2. CASE RecPoll \/ RecPublish \/ BackoffExpires
  BY <1>1, <1>2 DEF RecPoll, RecPublish, BackoffExpires
<1>3. CASE RecDecide
  BY <1>1, <1>3 DEF RecDecide
<1>4. CASE EnsureFfmpeg("rec") \/ AptDone("rec")
  BY <1>1, <1>4 DEF EnsureFfmpeg, AptDone
<1>5. CASE PickStream("rec") \/ StopOld("rec") \/ StartNew("rec")
  BY <1>1, <1>5 DEF PickStream, StopOld, StartNew
<1>6. QED
  BY <1>2, <1>3, <1>4, <1>5 DEF RecStep, StartStream

\* The environment touches no thread.
LEMMA EnvironmentFrame == Environment => UNCHANGED <<pc, job, crashes>>
  BY DEF Environment, opVars, boundVars

----------------------------------------------------------------------------
(* The phone boots only on a fresh cell.                                   *)

ResetInv ==
  /\ pc["op"] \in {"cellReset", "cellBoot"} => status = "exited"
  /\ At("op", "cellBoot") => cell = "ok"

\* An exited phone stays exited and its cell stays good until somebody starts it.
LEMMA ExitedStays ==
  Environment /\ status = "exited" => status' = "exited" /\ (cell = "ok" => cell' = "ok")
  BY DEF Environment, PhoneStep, SessionUp, Stall, GhostContext, StreamDies, PhoneCrashes,
         DockerRestarts, OrphanAptEnds

LEMMA ResetNext == TypeOK /\ ResetInv /\ [Next]_vars => ResetInv'
<1> SUFFICES ASSUME TypeOK, ResetInv, [Next]_vars PROVE ResetInv'
  OBVIOUS
<1> USE DEF ResetInv, At
<1>1. ASSUME NEW l, Go("op", l) PROVE pc'["op"] = l
  BY <1>1 DEF Go, TypeOK, PcOK, Starters
<1>2. CASE Browser \/ ProbeStep
  BY <1>2, LaunchFrame DEF Launched, phoneVars
<1>3. CASE RecStep \/ BackoffExpires
  BY <1>3, RecFrame
<1>4. CASE Environment
  BY <1>4, EnvironmentFrame, ExitedStays
<1>5. CASE OpBegin
  BY <1>1, <1>5 DEF OpBegin, Entry
<1>6. CASE CellStop
  BY <1>1, <1>6 DEF CellStop, Container
<1>7. CASE CellReset
  BY <1>1, <1>7 DEF CellReset
<1>8. CASE Boot \/ AttachWait \/ CellBoot \/ CellWait \/ OpRoutes \/ OpResume
  BY <1>1, <1>8 DEF Boot, AttachWait, CellBoot, CellWait, OpRoutes, OpResume
<1>8a. CASE PowerOff \/ PinPolicy \/ Deregister \/ Halt
  BY <1>1, <1>8a DEF PowerOff, PinPolicy, Deregister, Halt
<1>9. CASE CameraOp \/ SwitchMode \/ OpClear \/ OpRelease
  BY <1>1, <1>9 DEF CameraOp, SwitchMode, OpClear, OpRelease
<1>10. CASE StartStream("op")
  <2>1. pc'["op"] \in StartLabels \cup {"clear"}
    BY <1>1, <1>10 DEF StartStream, EnsureFfmpeg, AptDone, PickStream, StopOld, StartNew, Home, StartLabels
  <2>2. QED
    BY <2>1 DEF StartLabels
<1>11. CASE PortalRestart
  BY <1>11 DEF PortalRestart, Starters
<1>12. CASE UNCHANGED vars
  BY <1>12 DEF vars, phoneVars
<1>13. QED
  BY <1>2, <1>3, <1>4, <1>5, <1>6, <1>7, <1>8, <1>8a, <1>9, <1>10, <1>11, <1>12
  DEF Next, OpStep

\* _reset_cell_and_boot starts the phone only when it has been off since before
\* the cell was restarted, whatever the other threads do meanwhile.
THEOREM CellResetIsSafe == Spec => []CellResetSafe
<1>1. Init => ResetInv
  BY DEF Init, ResetInv, At, Starters
<1>2. ResetInv => CellResetSafe
  BY DEF ResetInv, CellResetSafe, At
<1>3. QED
  BY <1>1, <1>2, ResetNext, TypeCorrect, PTL DEF Spec

----------------------------------------------------------------------------
(* One apt-get at a time.                                                  *)

\* While no portal has died, an apt run belongs to a thread that waits for it,
\* and only one thread does: the one inside _ffmpeg_lock.
AptInv ==
  crashes = 0 =>
    /\ \A t \in apt : t \in Starters /\ pc[t] = "install"
    /\ ~(pc["op"] = "install" /\ pc["rec"] = "install")

LEMMA GoFrame ==
  ASSUME TypeOK, NEW t \in Starters, NEW l, Go(t, l)
  PROVE  pc'[t] = l /\ \A s \in Starters \ {t} : pc'[s] = pc[s]
  BY DEF Go, TypeOK, PcOK

LEMMA EnvironmentApt == Environment => apt' \subseteq apt
  BY DEF Environment, PhoneStep, SessionUp, Stall, GhostContext, StreamDies, PhoneCrashes,
         DockerRestarts, OrphanAptEnds, ProcessExits, Container, ueVars

\* A thread that takes another step than EnsureFfmpeg and AptDone.
LEMMA AptOther ==
  ASSUME TypeOK, AptInv, NEW t \in Starters, NEW l, Go(t, l), l # "install", ~At(t, "install"),
         apt' \subseteq apt, UNCHANGED crashes
  PROVE  AptInv'
  BY GoFrame DEF AptInv, At, Starters

LEMMA AptStart ==
  ASSUME TypeOK, AptInv, NEW t \in Starters, StartStream(t)
  PROVE  AptInv'
<1> USE DEF boundVars
<1>1. CASE EnsureFfmpeg(t)
  <2>1. CASE Go(t, "install") /\ apt' = apt \cup {t}
    BY <1>1, <2>1, GoFrame DEF EnsureFfmpeg, FfmpegLockFree, AptInv, Starters
  <2>2. CASE (Go(t, "pick") \/ Go(t, Home(t))) /\ UNCHANGED apt
    BY <1>1, <2>2, AptOther DEF EnsureFfmpeg, At, Home
  <2>3. QED
    BY <1>1, <2>1, <2>2 DEF EnsureFfmpeg
<1>2. CASE AptDone(t)
  <2>1. \E l \in {"pick", Home(t)} : Go(t, l)
    BY <1>2 DEF AptDone
  <2>2. pc'[t] # "install" /\ \A s \in Starters \ {t} : pc'[s] = pc[s]
    BY <2>1, GoFrame DEF Home
  <2>3. QED
    BY <1>2, <2>2 DEF AptDone, AptInv, Starters
<1>3. CASE PickStream(t) \/ StopOld(t)
  BY <1>3, AptOther DEF PickStream, StopOld, phoneVars, ueVars, At, Home
<1>4. CASE StartNew(t)
  BY <1>4, AptOther DEF StartNew, At, Home
<1>5. QED
  BY <1>1, <1>2, <1>3, <1>4 DEF StartStream

LEMMA AptNext == TypeOK /\ AptInv /\ [Next]_vars => AptInv'
<1> SUFFICES ASSUME TypeOK, AptInv, [Next]_vars PROVE AptInv'
  OBVIOUS
<1> USE DEF phoneVars, ueVars, boundVars
<1>1. CASE Browser \/ ProbeStep
  BY <1>1, LaunchFrame DEF Launched, AptInv, At, Starters
<1>2. CASE RecPoll \/ RecPublish \/ RecDecide
  BY <1>2, AptOther DEF RecPoll, RecPublish, RecDecide, At, Starters
<1>3. CASE BackoffExpires
  BY <1>3 DEF BackoffExpires, AptInv
<1>4. CASE StartStream("op") \/ StartStream("rec")
  BY <1>4, AptStart DEF Starters
<1>5. CASE OpBegin
  BY <1>5, AptOther DEF OpBegin, Entry, At, Starters
<1>6. CASE Boot \/ CellStop \/ CellBoot
  BY <1>6, AptOther DEF Boot, CellStop, CellBoot, Container, At, Starters
<1>7. CASE AttachWait \/ CellReset \/ CellWait \/ OpRoutes \/ OpResume
  BY <1>7, AptOther DEF AttachWait, CellReset, CellWait, OpRoutes, OpResume, At, Starters
<1>8. CASE PowerOff \/ PinPolicy \/ Deregister \/ Halt
  BY <1>8, AptOther DEF PowerOff, PinPolicy, Deregister, Halt, ProcessExits, Container, At, Starters
<1>9. CASE CameraOp \/ SwitchMode \/ OpClear \/ OpRelease
  BY <1>9, AptOther DEF CameraOp, SwitchMode, OpClear, OpRelease, At, Starters
<1>10. CASE Environment
  BY <1>10, EnvironmentFrame, EnvironmentApt DEF AptInv
<1>11. CASE PortalRestart
  BY <1>11 DEF PortalRestart, AptInv, TypeOK, BoundOK
<1>12. CASE UNCHANGED vars
  BY <1>12 DEF vars, AptInv
<1>13. QED
  BY <1>1, <1>2, <1>3, <1>4, <1>5, <1>6, <1>7, <1>8, <1>9, <1>10, <1>11, <1>12
  DEF Next, OpStep, RecStep

\* The reconcile loop and a user operation never run apt at the same time.
THEOREM AptIsSerialised == Spec => []AptSerialised
<1>1. Init => AptInv
  BY DEF Init, PhoneInit, AptInv, Starters
<1>2. AptInv => AptSerialised
  BY DEF AptInv, AptSerialised, Starters
<1>3. QED
  BY <1>1, <1>2, AptNext, TypeCorrect, PTL DEF Spec

----------------------------------------------------------------------------
(* The operation under way.                                                *)

OffLabels == {"begin", "off", "pin", "deregister", "halt", "clear", "release"}

\* op_lock is held while there is a job, and the runner is at a label of its job.
JobInv ==
  /\ At("op", "idle") => job.name = "none"
  /\ job.name = "none" => At("op", "idle")
  /\ pc["op"] \in {"boot", "attach"} => job.name = "Power on"
  /\ pc["op"] \in {"cellStop", "cellReset", "cellBoot", "cellWait"}
       => job.name = "Power on" \/ job.name = "Re-attach"
  /\ pc["op"] \in {"off", "pin", "deregister", "halt"} => job.name = "Power off"
  /\ job.name = "Power off" => pc["op"] \in OffLabels

LEMMA JobFrame == JobInv /\ pc'["op"] = pc["op"] /\ job' = job => JobInv'
  BY DEF JobInv, At

LEMMA JobNext == TypeOK /\ JobInv /\ [Next]_vars => JobInv'
<1> SUFFICES ASSUME TypeOK, JobInv, [Next]_vars PROVE JobInv'
  OBVIOUS
<1>1. ASSUME NEW l, Go("op", l) PROVE pc'["op"] = l
  BY <1>1, GoFrame DEF Starters
<1>2. CASE Browser \/ ProbeStep
  <2>1. CASE UNCHANGED <<job, pc>>
    BY <2>1, JobFrame
  <2>2. CASE Launched
    BY <2>2 DEF Launched, JobInv, OffLabels, At
  <2>3. QED
    BY <1>2, <2>1, <2>2, LaunchFrame
<1>3. CASE RecStep \/ BackoffExpires
  BY <1>3, RecFrame, JobFrame
<1>4. CASE Environment
  BY <1>4, EnvironmentFrame, JobFrame
<1>12. CASE UNCHANGED vars
  BY <1>12, JobFrame DEF vars, opVars
<1>6. CASE Boot \/ AttachWait \/ CellStop \/ CellReset \/ CellBoot \/ CellWait
  <2>1. UNCHANGED job
    BY <1>6 DEF Boot, AttachWait, CellStop, CellReset, CellBoot, CellWait, opVars
  <2>2. job.name = "Power on" \/ job.name = "Re-attach"
    BY <1>6 DEF Boot, AttachWait, CellStop, CellReset, CellBoot, CellWait, JobInv, At
  <2>3. pc'["op"] \in {"attach", "cellStop", "cellReset", "cellBoot", "cellWait", "routes", "clear"}
    BY <1>1, <1>6 DEF Boot, AttachWait, CellStop, CellReset, CellBoot, CellWait
  <2>4. pc'["op"] = "attach" => job.name = "Power on"
    BY <1>1, <1>6 DEF Boot, AttachWait, CellStop, CellReset, CellBoot, CellWait, JobInv, At
  <2>5. QED
    BY <2>1, <2>2, <2>3, <2>4 DEF JobInv, At
<1> USE DEF JobInv, OffLabels, At
<1>5. CASE OpBegin
  <2>1. job.name \in Jobs
    BY DEF TypeOK, OpOK
  <2>2. QED
    BY <1>1, <1>5, <2>1 DEF OpBegin, Entry, Jobs
<1>6a. CASE OpRoutes \/ OpResume
  BY <1>1, <1>6a DEF OpRoutes, OpResume, opVars
<1>7. CASE PowerOff \/ PinPolicy \/ Deregister \/ Halt
  BY <1>1, <1>7 DEF PowerOff, PinPolicy, Deregister, Halt, opVars
<1>8. CASE CameraOp \/ SwitchMode \/ OpClear
  BY <1>1, <1>8 DEF CameraOp, SwitchMode, OpClear, opVars
<1>9. CASE OpRelease
  BY <1>1, <1>9 DEF OpRelease, NoJob
<1>10. CASE StartStream("op")
  BY <1>1, <1>10 DEF StartStream, EnsureFfmpeg, AptDone, PickStream, StopOld, StartNew, Home, opVars
<1>11. CASE PortalRestart
  BY <1>11 DEF PortalRestart, NoJob, Starters
<1>13. QED
  BY <1>2, <1>3, <1>4, <1>5, <1>6, <1>6a, <1>7, <1>8, <1>9, <1>10, <1>11, <1>12
  DEF Next, OpStep

----------------------------------------------------------------------------
(* When a power-off ends, the phone is off for good.                       *)

\* Nothing runs in a container that does not run.
EmptyInv == status # "running" => cam = NoCams /\ apt = {}

\* bounced says what it stands for, and no more between two operations.
BounceInv ==
  /\ status = "restarting" => bounced
  /\ At("op", "idle") /\ bounced => status = "restarting"

\* From power_off's update on the policy forbids Docker to restart the phone,
\* and at the end it is off.
OffInv ==
  /\ At("op", "deregister") => policy = "no"
  /\ ~bounced /\ job.name = "Power off" /\ (At("op", "clear") \/ At("op", "release"))
       => status = "exited"

LEMMA EmptyNext == TypeOK /\ EmptyInv /\ [Next]_vars => EmptyInv'
<1> SUFFICES ASSUME TypeOK, EmptyInv, [Next]_vars PROVE EmptyInv'
  OBVIOUS
<1> USE DEF phoneVars, ueVars, EmptyInv
<1>1. CASE Browser \/ ProbeStep
  BY <1>1, LaunchFrame DEF Launched
<1>2. CASE RecPoll \/ RecPublish \/ RecDecide \/ BackoffExpires
  BY <1>2 DEF RecPoll, RecPublish, RecDecide, BackoffExpires
<1>3. ASSUME NEW t \in Starters, StartStream(t) PROVE EmptyInv'
  BY <1>3 DEF StartStream, EnsureFfmpeg, AptDone, PickStream, StopOld, StartNew, StopStream
<1>4. CASE Boot \/ CellStop \/ CellBoot \/ Deregister \/ Halt
  BY <1>4 DEF Boot, CellStop, CellBoot, Deregister, Halt, ProcessExits, Container
<1>5. CASE OpBegin \/ AttachWait \/ CellReset \/ CellWait \/ OpRoutes \/ OpResume
  BY <1>5 DEF OpBegin, AttachWait, CellReset, CellWait, OpRoutes, OpResume
<1>5a. CASE PowerOff \/ PinPolicy
  BY <1>5a DEF PowerOff, PinPolicy, StopStream
<1>6. CASE CameraOp \/ SwitchMode \/ OpClear \/ OpRelease
  BY <1>6 DEF CameraOp, SwitchMode, OpClear, OpRelease, StopStream
<1>7. CASE Environment
  <2>1. CASE \E d \in Dnns : SessionUp(d)
    BY <2>1 DEF SessionUp
  <2>2. CASE Stall \/ GhostContext \/ OrphanAptEnds
    BY <2>2 DEF Stall, GhostContext, OrphanAptEnds
  <2>3. CASE \E s \in Starters : StreamDies(s)
    BY <2>3 DEF StreamDies, NoCams
  <2>4. CASE PhoneCrashes \/ DockerRestarts
    BY <2>4 DEF PhoneCrashes, DockerRestarts, ProcessExits, Container
  <2>5. QED
    BY <1>7, <2>1, <2>2, <2>3, <2>4 DEF Environment, PhoneStep
<1>8. CASE PortalRestart
  BY <1>8 DEF PortalRestart
<1>9. CASE UNCHANGED vars
  BY <1>9 DEF vars
<1>10. QED
  BY <1>1, <1>2, <1>3, <1>4, <1>5, <1>5a, <1>6, <1>7, <1>8, <1>9
  DEF Next, OpStep, RecStep, Starters

LEMMA OffFrame ==
  BounceInv /\ OffInv /\ UNCHANGED <<status, policy, job, bounced>> /\ pc'["op"] = pc["op"]
    => BounceInv' /\ OffInv'
<1> SUFFICES ASSUME BounceInv, OffInv, UNCHANGED <<status, policy, job, bounced>>,
                    pc'["op"] = pc["op"]
             PROVE  BounceInv' /\ OffInv'
  OBVIOUS
<1>1. BounceInv'
  BY DEF BounceInv, At
<1>2. OffInv'
  BY DEF OffInv, At
<1>3. QED
  BY <1>1, <1>2

LEMMA OffNext == TypeOK /\ JobInv /\ BounceInv /\ OffInv /\ [Next]_vars => BounceInv' /\ OffInv'
<1> SUFFICES ASSUME TypeOK, JobInv, BounceInv, OffInv, [Next]_vars PROVE BounceInv' /\ OffInv'
  OBVIOUS
<1>1. ASSUME NEW l, Go("op", l) PROVE pc'["op"] = l
  BY <1>1, GoFrame DEF Starters
<1>2. CASE Browser \/ ProbeStep
  <2>1. CASE UNCHANGED <<job, pc>>
    BY <1>2, <2>1, LaunchFrame, OffFrame DEF phoneVars
  <2>2. CASE Launched
    BY <1>2, <2>2, LaunchFrame DEF Launched, phoneVars, BounceInv, OffInv, At
  <2>3. QED
    BY <1>2, <2>1, <2>2, LaunchFrame
<1>3. CASE RecStep \/ BackoffExpires
  BY <1>3, RecFrame, OffFrame
<1> USE DEF BounceInv, OffInv, JobInv, OffLabels, At, phoneVars, ueVars, opVars
<1>4. CASE Environment
  <2>1. policy' = policy /\ (status = "exited" => status' = "exited")
    BY <1>4, ExitedStays DEF Environment, PhoneStep, SessionUp, Stall, GhostContext, StreamDies,
       PhoneCrashes, ProcessExits, Container, DockerRestarts, OrphanAptEnds
  <2>2. bounced' <=> status' = "restarting" \/ (bounced /\ pc["op"] # "idle")
    BY <1>4 DEF Environment, LockFree
  <2>3. UNCHANGED <<pc, job>>
    BY <1>4, EnvironmentFrame
  <2>4. QED
    BY <2>1, <2>2, <2>3
<1>5. CASE OpBegin
  BY <1>1, <1>5 DEF OpBegin, Entry
<1>6. CASE Boot \/ AttachWait \/ CellStop
  BY <1>1, <1>6 DEF Boot, AttachWait, CellStop, Container
<1>7. CASE CellReset \/ CellBoot \/ CellWait \/ OpRoutes \/ OpResume
  BY <1>1, <1>7 DEF CellReset, CellBoot, CellWait, OpRoutes, OpResume, Container
<1>8. CASE PowerOff \/ PinPolicy
  BY <1>1, <1>8 DEF PowerOff, PinPolicy, PolicyWhenOff, TypeOK, PhoneTypeOK, Statuses
<1>9. CASE Deregister
  BY <1>1, <1>9 DEF Deregister, ProcessExits, Container
<1>10. CASE Halt
  BY <1>1, <1>10 DEF Halt, Container, TypeOK, PhoneTypeOK, Statuses
<1>11. CASE CameraOp \/ SwitchMode
  BY <1>1, <1>11 DEF CameraOp, SwitchMode
<1>12. CASE OpClear
  BY <1>1, <1>12 DEF OpClear
<1>13. CASE OpRelease
  BY <1>1, <1>13 DEF OpRelease, NoJob
<1>14. CASE StartStream("op")
  BY <1>1, <1>14 DEF StartStream, EnsureFfmpeg, AptDone, PickStream, StopOld, StartNew, Home
<1>15. CASE PortalRestart
  BY <1>15 DEF PortalRestart, NoJob, Starters
<1>16. CASE UNCHANGED vars
  BY <1>16 DEF vars
<1>17. QED
  BY <1>2, <1>3, <1>4, <1>5, <1>6, <1>7, <1>8, <1>9, <1>10, <1>11, <1>12, <1>13, <1>14, <1>15,
     <1>16 DEF Next, OpStep

PowerInv == TypeOK /\ EmptyInv /\ JobInv /\ BounceInv /\ OffInv

THEOREM PowerIsInvariant == Spec => []PowerInv
<1>1. Init => EmptyInv /\ JobInv /\ BounceInv /\ OffInv
  BY DEF Init, PhoneInit, NoJob, EmptyInv, JobInv, BounceInv, OffInv, At, Starters
<1>2. QED
  BY <1>1, EmptyNext, JobNext, OffNext, TypeCorrect, PTL DEF Spec, PowerInv

\* Whatever the reconcile loop and the probe loop do during a power-off, at its
\* end the phone is off, streams nothing, and Docker will not start it again.
THEOREM PowerOffIsFinal == Spec => []PowerOffHolds
<1>1. PowerInv => PowerOffHolds
  BY DEF PowerInv, EmptyInv, OffInv, PowerOffHolds, Streaming, NoCams, At
<1>2. QED
  BY <1>1, PowerIsInvariant, PTL

----------------------------------------------------------------------------
(* PhoneControl keeps what PowerButton promises.                           *)

LEMMA PowerIs ==
  /\ Power["running"] = "on" /\ Power["exited"] = "off" /\ Power["restarting"] = "crashed"
  /\ \A s \in Statuses : /\ Power[s] = "on" <=> s = "running"
                         /\ Power[s] = "crashed" <=> s = "restarting"
  BY DEF Power, Statuses

\* A step that leaves the container alone, whatever ffmpeg it starts or ends.
LEMMA ButtonPlay ==
  ASSUME EmptyInv', UNCHANGED <<status, job, bounced, crashes, faults>>
  PROVE  [Button!Next]_(Button!vars)
<1>1. Streaming' => status = "running"
  BY DEF EmptyInv, Streaming, NoCams
<1>2. Streaming \in BOOLEAN /\ Streaming' \in BOOLEAN
  BY DEF Streaming
<1>3. CASE Streaming' = Streaming
  BY <1>3 DEF Button!vars
<1>4. CASE Streaming' = ~Streaming
  <2>1. Button!Play
    BY <1>1, <1>4, PowerIs DEF Button!Play
  <2>2. QED
    BY <2>1 DEF Button!Next
<1>5. QED
  BY <1>2, <1>3, <1>4

\* Something other than the phone's own software goes wrong.
LEMMA ButtonTrouble ==
  ASSUME UNCHANGED <<status, job, bounced, crashes>>, Streaming' => Streaming,
         \E k \in Button!Troubles : faults' = Append(faults, k)
  PROVE  Button!Next
<1>1. Button!Trouble
  BY DEF Button!Trouble
<1>2. QED
  BY <1>1 DEF Button!Next

\* An operation starts or stops the container.
LEMMA ButtonSwitch ==
  ASSUME NEW s, NEW p, Container(s, p), UNCHANGED <<job, bounced, crashes, faults>>,
         \/ job.name \in {"Power on", "Re-attach"} /\ s \in {"running", "exited"}
         \/ job.name = "Power off" /\ status = "running" /\ s = "exited"
  PROVE  Button!Next
<1>1. ~Streaming'
  BY DEF Container, Streaming, NoCams
<1>2. Power[status'] = Power[s]
  BY DEF Container
<1>3. Button!Switch
  BY <1>1, <1>2, PowerIs DEF Button!Switch
<1>4. QED
  BY <1>3 DEF Button!Next

\* A starter leaves the container, the job and the record of faults alone, but
\* for an apt run that fails.
LEMMA StarterFrame ==
  ASSUME NEW t \in Starters, StartStream(t)
  PROVE  /\ UNCHANGED <<status, job, bounced, crashes>>
         /\ \/ UNCHANGED faults
            \/ UNCHANGED cam /\ faults' = Append(faults, "apt")
<1> USE DEF opVars, boundVars, phoneVars
<1>1. CASE EnsureFfmpeg(t) \/ PickStream(t)
  BY <1>1 DEF EnsureFfmpeg, PickStream
<1>2. CASE AptDone(t)
  BY <1>2 DEF AptDone, Fault
<1>3. CASE StopOld(t) \/ StartNew(t)
  BY <1>3 DEF StopOld, StartNew
<1>4. QED
  BY <1>1, <1>2, <1>3 DEF StartStream

\* Whatever a starter does is the start or the end of a video, or trouble.
LEMMA ButtonStarter ==
  ASSUME EmptyInv', NEW t \in Starters, StartStream(t)
  PROVE  [Button!Next]_(Button!vars)
<1>1. CASE UNCHANGED faults
  BY <1>1, StarterFrame, ButtonPlay
<1>2. CASE UNCHANGED cam /\ faults' = Append(faults, "apt")
  BY <1>2, StarterFrame, ButtonTrouble DEF Button!Troubles, Streaming
<1>3. QED
  BY <1>1, <1>2, StarterFrame

LEMMA ButtonAccept ==
  ASSUME PowerInv, Launched, UNCHANGED <<phoneVars, bounced, crashes>>
  PROVE  Button!Next
<1>1. job.name = "none"
  BY DEF PowerInv, JobInv, Launched
<1>2. job'.name \in Button!Tasks
  BY DEF Launched, Jobs, Button!Tasks
<1>3. UNCHANGED <<status, cam, faults>>
  BY DEF phoneVars, ueVars
<1>4. Button!Accept
  BY <1>1, <1>2, <1>3 DEF Button!Accept, Streaming
<1>5. QED
  BY <1>4 DEF Button!Next

\* What the phone and Docker do by themselves.
LEMMA ButtonEnvironment ==
  ASSUME PowerInv, EmptyInv', Environment
  PROVE  [Button!Next]_(Button!vars)
<1>1. UNCHANGED <<job, crashes>> /\ (bounced' <=> status' = "restarting" \/ (bounced /\ ~LockFree))
  BY EnvironmentFrame DEF Environment
<1>2. bounced \in BOOLEAN /\ bounced' \in BOOLEAN /\ status \in Statuses
  BY DEF Environment, PowerInv, TypeOK, OpOK, PhoneTypeOK
<1>3. LockFree <=> job.name = "none"
  BY DEF PowerInv, JobInv, LockFree
<1>4. CASE PhoneCrashes
  <2>1. /\ status = "running" /\ status' \in {"exited", "restarting"} /\ cam' = NoCams
        /\ faults' = Append(faults, "crash")
    BY <1>4 DEF PhoneCrashes, Fault, ProcessExits, Container
  <2>2. bounced => ~LockFree
    BY <2>1 DEF PowerInv, BounceInv, LockFree
  <2>3. bounced' = (Power[status'] = "crashed" \/ bounced)
    BY <1>1, <1>2, <2>1, <2>2, PowerIs
  <2>4. Button!Crash
    BY <1>1, <2>1, <2>3, PowerIs DEF Button!Crash, Streaming, NoCams
  <2>5. QED
    BY <2>4 DEF Button!Next
<1>5. CASE DockerRestarts
  <2>1. /\ status = "restarting" /\ status' = "running" /\ cam' = NoCams /\ cam = NoCams
        /\ UNCHANGED faults
    BY <1>5 DEF DockerRestarts, Container, PowerInv, EmptyInv
  <2>2. bounced' = (bounced /\ job.name # "none")
    BY <1>1, <1>2, <1>3, <2>1
  <2>3. Button!ComeBack
    BY <1>1, <2>1, <2>2, PowerIs DEF Button!ComeBack, Streaming
  <2>4. QED
    BY <2>3 DEF Button!Next
<1>6. CASE UNCHANGED status
  <2>1. bounced' = bounced
    <3>1. status = "restarting" => bounced
      BY DEF PowerInv, BounceInv
    <3>2. LockFree /\ bounced => status = "restarting"
      BY DEF PowerInv, BounceInv, LockFree
    <3>3. QED
      BY <1>1, <1>2, <1>6, <3>1, <3>2
  <2>2. CASE UNCHANGED faults
    BY <1>1, <1>6, <2>1, <2>2, ButtonPlay
  <2>3. CASE (Streaming' => Streaming) /\ \E k \in Button!Troubles : faults' = Append(faults, k)
    BY <1>1, <1>6, <2>1, <2>3, ButtonTrouble
  <2>4. CASE Stall \/ GhostContext
    BY <2>3, <2>4 DEF Stall, GhostContext, Fault, Button!Troubles, Streaming, ueVars
  <2>5. CASE \E s \in Starters : StreamDies(s)
    <3>1. Streaming' => Streaming
      BY <1>3, <2>5 DEF StreamDies, Streaming, PowerInv, TypeOK, PhoneTypeOK
    <3>2. \E k \in Button!Troubles : faults' = Append(faults, k)
      BY <2>5 DEF StreamDies, Fault, Button!Troubles
    <3>3. QED
      BY <2>3, <3>1, <3>2
  <2>6. QED
    BY <1>6, <2>2, <2>4, <2>5, <1>4, <1>5 DEF Environment, PhoneStep, SessionUp, OrphanAptEnds
<1>7. QED
  BY <1>4, <1>5, <1>6 DEF Environment, PhoneStep, SessionUp, Stall, GhostContext, StreamDies,
     OrphanAptEnds

LEMMA ButtonFinish ==
  ASSUME PowerInv, OpRelease
  PROVE  Button!Next
<1>1. job.name # "none" /\ job'.name = "none"
  BY DEF PowerInv, JobInv, OpRelease, NoJob, At
<1>2. job.name = "Power off" => bounced \/ (status = "exited" /\ ~Streaming)
  BY DEF PowerInv, OffInv, EmptyInv, OpRelease, Streaming, NoCams
<1>3. bounced' = (Power[status] = "crashed")
  BY PowerIs DEF OpRelease, PowerInv, TypeOK, PhoneTypeOK
<1>4. UNCHANGED <<status, cam, crashes, faults>>
  BY DEF OpRelease, phoneVars, ueVars, boundVars
<1>5. Button!Finish
  BY <1>1, <1>2, <1>3, <1>4, PowerIs DEF Button!Finish, Streaming
<1>6. QED
  BY <1>5 DEF Button!Next

LEMMA ButtonDie ==
  ASSUME PowerInv, PortalRestart
  PROVE  Button!Next
<1>1. bounced' = (Power[status] = "crashed")
  BY PowerIs DEF PortalRestart, PowerInv, TypeOK, PhoneTypeOK
<1>2. job'.name = "none"
  BY DEF PortalRestart, NoJob
<1>3. Button!Die
  BY <1>1, <1>2 DEF Button!Die, PortalRestart, Streaming
<1>4. QED
  BY <1>3 DEF Button!Next

LEMMA ButtonOp ==
  ASSUME PowerInv, PowerInv', OpStep
  PROVE  [Button!Next]_(Button!vars)
<1>1. EmptyInv'
  BY DEF PowerInv
<1> USE DEF opVars, boundVars
<1>2. CASE Boot
  BY <1>2, ButtonSwitch DEF Boot, PowerInv, JobInv, At
<1>3. CASE CellStop
  BY <1>3, ButtonSwitch DEF CellStop, PowerInv, JobInv, At
<1>4. CASE CellBoot
  BY <1>4, ButtonSwitch DEF CellBoot, PowerInv, JobInv, At
<1>5. CASE Deregister \/ Halt
  <2>1. job.name = "Power off" /\ UNCHANGED <<job, bounced, crashes, faults>>
    BY <1>5 DEF Deregister, Halt, PowerInv, JobInv, At
  <2>2. CASE status = "running" /\ Container("exited", policy)
    BY <2>1, <2>2, ButtonSwitch
  <2>3. CASE UNCHANGED status
    BY <1>1, <2>1, <2>3, ButtonPlay
  <2>4. At("op", "deregister") => policy = "no"
    BY DEF PowerInv, OffInv
  <2>5. QED
    BY <1>5, <2>2, <2>3, <2>4 DEF Deregister, Halt, ProcessExits
<1>6. CASE OpBegin \/ AttachWait \/ CellReset \/ CellWait \/ OpRoutes \/ OpResume \/ OpClear
  BY <1>1, <1>6, ButtonPlay
  DEF OpBegin, AttachWait, CellReset, CellWait, OpRoutes, OpResume, OpClear, phoneVars
<1>7. CASE PowerOff \/ PinPolicy \/ CameraOp \/ SwitchMode
  BY <1>1, <1>7, ButtonPlay DEF PowerOff, PinPolicy, CameraOp, SwitchMode, phoneVars
<1>8. CASE StartStream("op")
  BY <1>1, <1>8, ButtonStarter DEF Starters
<1>9. CASE OpRelease
  BY <1>9, ButtonFinish
<1>10. QED
  BY <1>2, <1>3, <1>4, <1>5, <1>6, <1>7, <1>8, <1>9 DEF OpStep

LEMMA ButtonInit == Init => Button!Init
  BY PowerIs DEF Init, PhoneInit, NoJob, Streaming, NoCams, Button!Init

LEMMA ButtonNext == PowerInv /\ PowerInv' /\ [Next]_vars => [Button!Next]_(Button!vars)
<1> SUFFICES ASSUME PowerInv, PowerInv', [Next]_vars PROVE [Button!Next]_(Button!vars)
  OBVIOUS
<1>1. EmptyInv' /\ TypeOK
  BY DEF PowerInv
<1>2. CASE Browser \/ ProbeStep
  <2>1. UNCHANGED <<phoneVars, bounced, crashes>> /\ (UNCHANGED <<job, pc>> \/ Launched)
    BY <1>1, <1>2, LaunchFrame
  <2>2. CASE UNCHANGED <<job, pc>>
    BY <1>1, <2>1, <2>2, ButtonPlay DEF phoneVars
  <2>3. CASE Launched
    BY <2>1, <2>3, ButtonAccept
  <2>4. QED
    BY <2>1, <2>2, <2>3
<1>3. CASE RecStep \/ BackoffExpires
  <2>1. CASE StartStream("rec")
    BY <1>1, <2>1, ButtonStarter DEF Starters
  <2>2. CASE RecPoll \/ RecPublish \/ RecDecide \/ BackoffExpires
    <3>1. UNCHANGED faults
      BY <2>2 DEF RecPoll, RecPublish, RecDecide, BackoffExpires, phoneVars
    <3>2. QED
      BY <1>1, <1>3, <3>1, RecFrame, ButtonPlay
  <2>3. QED
    BY <1>3, <2>1, <2>2 DEF RecStep
<1>4. CASE UNCHANGED vars
  BY <1>1, <1>4, ButtonPlay DEF vars, phoneVars, opVars, boundVars
<1>5. QED
  BY <1>1, <1>2, <1>3, <1>4, ButtonOp, ButtonEnvironment, ButtonDie DEF Next

\* Every behaviour of the portal's threads, with any videos, requests, faults
\* and restarts, is one of PowerButton: no thread of the portal boots the phone
\* or shuts it down but in an operation made for it, for a phone that goes down
\* otherwise has a crash on the record; and a power-off keeps its promise.
THEOREM PowerIsKept == Spec => ButtonKept
<1>1. Spec => Button!Init /\ [][Button!Next]_(Button!vars)
  BY ButtonInit, ButtonNext, PowerIsInvariant, PTL DEF Spec
<1>2. QED
  BY <1>1 DEF ButtonKept, Button!Spec
=============================================================================
