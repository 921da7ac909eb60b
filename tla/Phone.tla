------------------------------- MODULE Phone -------------------------------
(***************************************************************************)
(* The simulated phone (the UE container of UERANSIM) and the radio cell   *)
(* (the gNB container), as the portal sees and drives them: a container    *)
(* with a Docker status and restart policy, up to two data tunnels, the    *)
(* routes laid over them, the ffmpeg processes that play the camera, and   *)
(* the apt run that installs ffmpeg.                                       *)
(*                                                                         *)
(* What UERANSIM and Docker do by themselves is an environment action      *)
(* here; what the portal does to the phone is an operator that the         *)
(* portal's threads (PhoneControl) use inside their own steps.             *)
(***************************************************************************)
EXTENDS Naturals, Sequences, FiniteSets

CONSTANTS
  Videos,      \* what desired["video"] may name: files and the test pattern
  FaultKinds,  \* which of AllFaults the environment may cause
  MaxFaults    \* bound on how many faults a behaviour contains

Dnns     == {"edge", "internet"}
Tunnels  == {"uesimtun0", "uesimtun1"}
Modes    == {"edge", "central"}
Statuses == {"running", "exited", "restarting"}
Policies == {"unless-stopped", "no"}
Stream   == [video : Videos, mode : Modes]
AllFaults == {"stall", "ghost", "drop", "crash", "apt"}

\* The two threads of the portal that start streams: the runner of a user
\* operation and the reconcile loop. "orphan" is an apt run whose portal died.
Starters == {"op", "rec"}

ASSUME PhoneAssumption ==
  /\ FaultKinds \subseteq AllFaults
  /\ MaxFaults \in Nat

VARIABLES
  status,   \* Docker status of the UE container
  policy,   \* its restart policy
  cell,     \* "ghost": leftover UE contexts in the gNB refuse a new attach
  stalled,  \* the RLS data path of the edge tunnel is frozen
  tun,      \* the interface of each DNN's tunnel, "none" before the session is up
  route,    \* the interface the host route of each DNN's peer points to
  cam,      \* the ffmpeg each starter has running, a set of at most one stream
  app,      \* is ffmpeg installed in the container
  apt,      \* whose apt-get runs in the container
  faults    \* the faults that have happened, in order; at most MaxFaults

ueVars    == <<tun, route, cam, apt, stalled>>
phoneVars == <<status, policy, cell, app, faults, ueVars>>

PhoneTypeOK ==
  /\ status \in Statuses
  /\ policy \in Policies
  /\ cell \in {"ok", "ghost"}
  /\ stalled \in BOOLEAN
  /\ tun \in [Dnns -> Tunnels \cup {"none"}]
  /\ route \in [Dnns -> Tunnels \cup {"none"}]
  /\ cam \in [Starters -> SUBSET Stream]
  /\ app \in {"absent", "ready"}
  /\ apt \subseteq Starters \cup {"orphan"}
  /\ faults \in Seq(AllFaults) /\ Len(faults) <= MaxFaults

NoTuns == [d \in Dnns |-> "none"]
NoCams == [s \in Starters |-> {}]

Attached  == \A d \in Dnns : tun[d] # "none"
AnyTun(t) == \E d \in Dnns : t[d] # "none"
Streaming == \E s \in Starters : cam[s] # {}
Live      == {tun[d] : d \in Dnns} \ {"none"}

\* The lab is up, as `lab.sh all up` leaves it before the portal starts: the
\* phone is attached, the edge session first, and no route is set.
PhoneInit ==
  /\ status = "running" /\ policy = "unless-stopped" /\ cell = "ok"
  /\ tun = [d \in Dnns |-> IF d = "edge" THEN "uesimtun0" ELSE "uesimtun1"]
  /\ stalled = FALSE /\ route = NoTuns /\ cam = NoCams
  /\ app \in {"absent", "ready"} /\ apt = {} /\ faults = <<>>

----------------------------------------------------------------------------
(* What the portal's threads do to the phone.                              *)

\* Mutant: `ip route add`, which leaves a route that exists.
AddRoutes(t) ==
  route' = [d \in Dnns |-> IF t[d] \in Live /\ route[d] = "none" THEN t[d] ELSE route[d]]

\* ensure_routes: `ip route replace` for each tunnel it was given; replacing
\* with an interface that no longer exists fails and leaves the old route.
EnsureRoutes(t) ==
  route' = [d \in Dnns |-> IF t[d] \in Live THEN t[d] ELSE route[d]]

\* stop_stream: pkill finds every ffmpeg, whoever started it.
StopStream == cam' = NoCams

\* The container's processes are gone: tunnels, routes, ffmpeg and apt with them.
Container(s, p) ==
  /\ status' = s /\ policy' = p
  /\ tun' = NoTuns /\ route' = NoTuns /\ cam' = NoCams
  /\ apt' = {} /\ stalled' = FALSE

\* The UE process ends by itself and Docker applies the restart policy.
ProcessExits == Container(IF policy = "no" THEN "exited" ELSE "restarting", policy)

\* Mutant: a ping that is not bound to the edge tunnel.
PingUnbound(ifc) == {ifc \in Tunnels}

\* `ping -I ifc` from the phone to the edge node: over the edge tunnel it is
\* answered unless the data path is stalled; over the other tunnel it may or
\* may not be; over an interface that is gone it never is.
PingAnswers(ifc) ==
  IF ifc = tun["edge"] THEN {~stalled}
  ELSE IF ifc \in Live THEN BOOLEAN ELSE {FALSE}

----------------------------------------------------------------------------
(* What happens to the phone by itself.                                    *)

Fault(kind) ==
  /\ kind \in FaultKinds /\ Len(faults) < MaxFaults
  /\ faults' = Append(faults, kind)

\* A PDU session comes up and takes the first free tunnel interface.
SessionUp(d) ==
  /\ status = "running" /\ cell = "ok" /\ tun[d] = "none"
  /\ tun' = [tun EXCEPT ![d] = IF "uesimtun0" \in Live THEN "uesimtun1" ELSE "uesimtun0"]
  /\ UNCHANGED <<status, policy, cell, app, faults, route, cam, apt, stalled>>

\* Upstream issue 757: the RLS data path freezes for good; the tunnel stays.
Stall ==
  /\ Fault("stall") /\ tun["edge"] # "none" /\ ~stalled
  /\ stalled' = TRUE
  /\ UNCHANGED <<status, policy, cell, app, tun, route, cam, apt>>

\* UE churn leaves a ghost context in the gNB: no new session comes up.
GhostContext ==
  /\ Fault("ghost") /\ status = "running" /\ cell = "ok"
  /\ cell' = "ghost"
  /\ UNCHANGED <<status, policy, app, ueVars>>

\* An ffmpeg process ends: the receiver restarted, the source ran dry.
StreamDies(s) ==
  /\ Fault("drop") /\ cam[s] # {}
  /\ cam' = [cam EXCEPT ![s] = {}]
  /\ UNCHANGED <<status, policy, cell, app, tun, route, apt, stalled>>

\* The UE process crashes.
PhoneCrashes ==
  /\ Fault("crash") /\ status = "running" /\ ProcessExits
  /\ UNCHANGED <<cell, app>>

\* Docker brings a crashed container back, as its restart policy said then: a
\* later change of the policy does not call a scheduled restart off.
DockerRestarts ==
  /\ status = "restarting" /\ Container("running", policy)
  /\ UNCHANGED <<cell, app, faults>>

\* An apt run whose portal died ends by itself and leaves ffmpeg installed.
OrphanAptEnds ==
  /\ "orphan" \in apt /\ apt' = apt \ {"orphan"} /\ app' = "ready"
  /\ UNCHANGED <<status, policy, cell, faults, tun, route, cam, stalled>>

PhoneStep ==
  \/ \E d \in Dnns : SessionUp(d)
  \/ Stall \/ GhostContext
  \/ \E s \in Starters : StreamDies(s)
  \/ PhoneCrashes \/ DockerRestarts \/ OrphanAptEnds

PhoneFairness ==
  /\ \A d \in Dnns : WF_phoneVars(SessionUp(d))
  /\ WF_phoneVars(DockerRestarts)

=============================================================================
