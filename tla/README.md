# A TLA+ model of the 5G edge AI lab

This directory specifies the parts of the lab that make decisions: the portal's control of the
simulated phone, its event timeline, its relay and its files (`portal/app.py`), the alert rules
(`portal/rules.py`) and the edge ingest they watch (`edge/ingest/app.py`). The modules are checked
with TLC on small instances and the main safety properties are proved with TLAPS for every
instance. `PROJECT.json` maps every definition to the lines it models, and lists the runs, the
mutants that show each property can fail, the hazards and the theorems.

## The system

The lab runs an Open5GS core and a UERANSIM gNB and phone (UE) as docker containers, an edge site
on minikube (RTSP gateway, ingest with an object detector, a vision-language model), and a portal,
one Python process with the docker socket, that shows everything and drives the phone.

| component | state | operations | talks to |
|---|---|---|---|
| phone control (`portal/app.py` 230-449, 559-662, 753-781) | `desired` (intent), `.portal-state.json`, `op`, `op_lock`, `_ffmpeg_lock`, `snapshot`, `restart_backoff`, `probe` | power, camera and path requests; one background operation; `_reconcile_loop`; `_probe_loop`; adoption at start | docker (start, stop, exec in the phone), nr-cli |
| the phone and its cell (containers) | docker status and restart policy, tunnels, routes, ffmpeg, apt, ghost contexts in the gNB | attach, stall, crash, restart by docker | driven by phone control |
| alert rules (`portal/rules.py`) | `rules`, `state`, `alerts`, `snapshots`, `asks`, `lock` | add, update, delete, clear; `vision_loop`; `ask_loop`; `_fire` | polls the ingest's `/api/state`, `/api/ask`, `/frame.jpg` |
| event timeline (`app.py` 109-218, 734-750; `static/index.html` 1000-1051) | `EVENTS`, `_recent_titles`, ids, each browser's `lastId` and buffers | `emit` with suppression of repeats, five log followers, the event stream, the browser's reordering | every thread emits |
| central-cloud relay (`app.py` 454-515) | a queue per direction, `relay_clients` | delay by `wan_delay_ms`, bind and retry | phone, edge site |
| edge ingest (`edge/ingest/app.py`) | `_state`, `_live`, last frames, `_vlm_busy` | read, detect, caption, publish | RTSP gateway, model; polled by the rules and the portal |
| intent file, gallery, rules file (`app.py` 82-95, 792-827, `rules.py` 90-112) | `.portal-state.json`, media directory, `.part` files, `.portal-rules.json` | save, load, upload | phone control, alert rules |
| RAN watchdog, pull watchdog, `lab.sh` | shell variables | restart gNB and UE; retry a pull; bring layers up and down | docker, minikube |
| browser UI, GPU exporter, set-up scripts, manifests | - | rendering, formatting, configuration of third-party programs | - |

What is hard in it:

* Three threads act on one phone (an operation, the reconcile loop, the probe loop), each on what
  it read some time ago; only `op_lock` (taken without waiting) and `_ffmpeg_lock` order them.
* `op["name"]`, by which the loops know whether an operation runs, is set by the runner's first
  statement and cleared before the lock is released, so it lags behind the lock on both sides.
* The phone changes by itself: sessions come up in either order and take either interface, the
  radio data path freezes, the UE process crashes and docker restarts it or not.
* The portal may be restarted in the middle of an operation and finds the phone as it is.
* A stream that ends or freezes leaves parts of what the detector said about it behind, and the
  rules judge what they fetched a moment ago.
* A phone's connection is two directions of two tasks each, which fail and end in any order while
  chunks are still waiting out a delay that can be changed under them.
* Events reach `emit` from several threads out of the order of their time stamps, connections to the
  page break with events under way, and ids begin again after a restart.
* Files are emptied before they are written, by two writers without a lock, and two uploads of one
  name share a `.part` file; the portal can die anywhere in that.
* In the rules, alert images are stored outside the lock that guards the alert list, and an entry
  made under the lock is used after it.

What makes each component correct: a phone that was switched off stays off; it boots only on a
fresh cell; only one apt runs; operations end; a stall is repaired and a wanted stream comes back
(phone control). A rule fires once per event and not within its cooldown, releases only after
RELEASE_CHECKS, follows the scene, and images neither pile up nor vanish (rules). The timeline shows
each event once and in the order of its timestamps. The relay delivers every byte once, in order
and not early. No alert is decided on boxes of a stream that is gone, and rules are released
without a stream. A restart finds the last intent and the last rules, and a listed video is whole. The
watchdogs stop only what is stuck.

## Modules

Phone control:

* `Phone` - the UE container and the cell. What docker and UERANSIM do is an action (`SessionUp`,
  `Stall`, `GhostContext`, `StreamDies`, `PhoneCrashes`, `DockerRestarts`, `OrphanAptEnds`); what the
  portal does to the phone is an operator its threads use inside their own steps (`EnsureRoutes`,
  `StopStream`, `Container`, `PingAnswers`). `cam` holds a set per starter because two ffmpegs can be
  started at once.
* `PhoneControl` extends it with the portal. The runner of the user operation and the reconcile
  loop are labels of `pc`, the probe loop has `probePc`. A label is a point where the code can be
  interrupted and something another thread sees has changed: `power_on` is `Boot`, `AttachWait`,
  `CellStop`, `CellReset`, `CellBoot`, `CellWait`, `OpRoutes`, `OpResume` (the camera switch is read
  only after `_attach_summary`); `power_off` is `PowerOff`, `PinPolicy` (the restart policy, which docker
  may be too late to respect), `Deregister`, `Halt`; `start_stream` is `EnsureFfmpeg`, `AptDone`,
  `PickStream` (the intent is read and the video copied), `StopOld`, `StartNew`, shared by both
  starters; `_poll_once` is `RecPoll` and `RecPublish`, because it looks at ffmpeg seconds after
  it looked at the container; the probe is `ProbeWatch`, `ProbePing`, `ProbeExec`, `ProbeSleep`.
  `op_lock` is held exactly while `pc["op"]` is not `idle`, `_ffmpeg_lock` while a starter is at
  `install`. `PortalRestart` keeps the state file and the phone and loses everything else.
  `bounced` is history: the container is "restarting", or was during this operation.
* `PowerButton` - what the portal promises about the phone's power: one operation at a time, an
  operation made for it boots the phone or shuts it down and nothing else the portal does, a video plays
  only on a phone that is on, and a power-off ends with the phone off and silent unless it met a crashed
  one. A phone that goes down outside such an operation must have crashed, and a crash must be an entry
  of `faults`, the record of what went wrong outside the portal, which no step of the portal's own
  extends (an apt run that fails is such an entry too, of another kind): a camera operation that stopped
  the container would be no step of `PowerButton` (mutant `CameraHalts`). `PhoneControl` implements it (`ButtonKept`), with
  docker's status for the power, any ffmpeg for the video, and the faults of `Phone`.

Alert rules and edge ingest:

* `RuleEngine` - both loops of the rules, the requests, and the alert list. `_set` is `Evaluate`
  (with `Evaluated` and `Fires`), `_fire` is `Snap` (the unlocked store of the image) followed by
  `Log` (append and purge under the lock) or `LogRaces` (the purge's walk over the dict is
  interrupted by the other loop's store and raises). A rule's condition is membership in `scene`,
  which stands for the ingest's published state; the language model's answer is any Boolean. `wait`
  counts down what is left of the cooldown. `quiet` and `falses` are history variables that no
  action reads: what really happened, against which the code's own bookkeeping is compared.
* `Ingest` - the reader (`Open`, `Frame`, `ReadFails`), what it publishes (`connected`, `fps`,
  `labels`, `boxes`) and the caption worker behind `_vlm_busy`. A picture is the set of rules it meets;
  zone rules are met by boxes, count rules by labels, because the code clears the first and not the
  second when a stream ends. `current` is history: what the last detection of this connection found.
* `EdgeAlerts` composes the two: the engine's free `scene` becomes what a fetch gives (`Fetched`), that
  is `Edge!Published` while the edge service can be reached (`reachable`, which `Reach` changes at any
  time) and nothing while it cannot; a snapshot or a question needs the service and a frame, of
  whatever age. That every such behaviour is one of `RuleEngine` alone is
  the theorem `EdgeRunsTheEngine`.
* `MCRuleEngine` - `RuleEngine` with the symmetry of alert ids.

Timeline:

* `Feed` - what the timeline promises one browser: only recorded events, each once, every container's
  log in its order.
* `EventStream` - the containers' logs, the followers with their moving `since` (`Follow`), `emit` with
  its 1.5 s window and the deque's maxlen (`Emit`, `IsNew`, `Kept`), `_attach_summary`, one
  `/api/events` generator (`Connect`, `Stream`, `Disconnect`) and the page's handlers
  (`Receive`, `Flush`, `Pump`). It implements `Feed` (`FeedKept`), over breaking connections and portal
  restarts, and loses nothing on the way that the deque still holds (`NoneLost`).

Relay:

* `DelayLine` - what a link with a delay promises each of its lines: in order, once, not before the delay.
* `Relay` - the supervisor, the handler of each connection, and per line (one direction, named after
  the side it reads from) the two tasks of `_pump` with the queue between them. Sides stop sending, reset, or
  are lost to a timeout. It implements `DelayLine` (`WanDelays`) with `accepted` and `passed` as history.

Files:

* `MediaDir` - the intent file with its two unlocked writers (`SaveOpens`, `SaveDumps`, `SaveCloses`: a
  save empties the file, gathers, writes from the start), the rules file saved under the engine's
  lock, and uploads over `.part` files with `os.replace`, all in a portal that dies anywhere
  (`Die`) and starts again in steps between which it may die too: `StartRules` (`_load` reads the rules
  and its `_save` empties the file), `ResaveRules` (and writes it, with no lock held), `StartServing`
  (`load_desired`, then `_adopt_current_state`, which takes the path of a stream that still plays for the
  operator's intent; which it plays, if any, is left open). `portal` says how far it is. History:
  `held` is what the intent has been since a save last began alone, `doubt` that this save was overlapped or
  cut off; `wanted` is the rules as the last edit left them, `cut` that the portal has died in a save of them since.
  `PhoneControl` has the same intent as an atomic copy.
* `VideoStore` - what the gallery promises: a name holds nothing or one upload in full, replaced in one
  step, each upload at most once and none that was refused or cut off; a name that two uploads were
  sending at once is out of the promise. `MediaDir` implements it (`StoreKept`).
* `MCMediaDir` - `MediaDir` with the symmetries of names and of uploads.

`PhoneControlClaims`, `RuleEngineClaims` and `EventStreamClaims` hold what comments and documents promise
and the code does not keep; the modules ending in `Proofs` are described below.

Deliberate abstractions. In `PhoneControl` durations are left out: a wait ends when its condition
holds or, where it can time out, at any time. `_run_op` runs in the event loop, so requests do not
interleave with each other. The branch of `_reconcile_loop` that would stop an unwanted stream is not
an action because `elif ue["streaming"]` before it takes every case it could see. The order in which
the vision loop goes through its rules is left open. An edit that changes a rule's type is not
modelled, nor is a request that lands between lines 248 and 250 of the ask loop. Alert ids are never
reused while anything still mentions them, as with a new uuid. In `EventStream` a log line is a title
or nothing of interest, containers share a clock, and the page's first batch, which it reveals at
once, takes the same way as the others; the threads of the portal take the time less than a window
before they get `_event_lock`. In `Relay` a write never blocks, and all connections come from
one address. In `MediaDir` an upload is a number of chunks; text of different length is what makes a
short intent leave the rest of a longer one behind; a save that raises (a full disk) is left out. The
ingest restarting with its pod, which also empties its state, is in `EdgeAlerts` only a time in which it
does not answer.

## Runs

Passing runs, with their bounds:

| run | question | bounds |
|---|---|---|
| `phone_stream` | A wanted stream comes back, whoever lost it (`StreamResumes`), and a stall is found and repaired (`StallRecovers`). | one request of camera or path, one fault (stall, stream or apt), two pings until a re-attach |
| `phone_reattach` | Boots only on a fresh cell (`CellResetSafe`), operations end (`OpsFinish`), routes follow the tunnels (`RoutesConverge`), power is as `PowerButton` says (`ButtonKept`). | one power-on or power-off and any number of automatic re-attaches, one ghost context or crash, slow attaches, the camera off |
| `phone_power` | A finished power-off is final (`PowerOffHolds`), one apt at a time (`AptSerialised`), nothing but power operations switches the phone and the video is as `PowerButton` says (`ButtonKept`). | 2 requests of camera, power on, power off; one portal restart anywhere; the saved video's file is gone |
| `rules_alerts` | Images do not pile up (`SnapshotsListed`), a release needs its false evaluations (`StaysActive`) and comes with the last of them (`ReleasedInTime`), nothing fires within its cooldown (`CooldownRespected`). | one vision and one ask rule, any number of edits and clears, a list of one, 4 ids, 2 checks, a cooldown of 2 ticks |
| `edge_alerts` | Zone rules are never judged on an earlier stream (`NoStaleZones`); vision rules follow the picture or are released (`RulesFollowPicture`). | a zone and a count rule, two pictures, a detection every second frame, any number of outages, freezes and failed fetches |
| `timeline` | The page shows a `Feed` (`FeedKept`), no repeats are recorded (`NoRepeats`), and without a restart nothing is lost on its way (`NoneLost`) and it catches up (`CatchesUp`). | two logs, 3 lines or events, a deque of 2, a window of 2 ticks, one restart, any number of broken connections |
| `relay` | Each direction is a `DelayLine` (`WanDelays`), nothing is dropped (`NothingDropped`), connections end and close (`HandlersEnd`, `NoLeak`), no wait is longer than the delay (`DrainsInTime`), the port is served in the end (`RtspServed`). | one connection, 2 chunks, delays of 0 and 1, every ending of either side, each of the two ports taken or not |
| `media` | A restart finds the intent (`IntentSurvives`), the rules (`RulesSurvive`) and whole videos (`VideosWhole`); the gallery is a `VideoStore` (`StoreKept`). | two writers saving any number of times, 2 uploads of up to limit + 1 chunks to one name, 2 rule lists, any number of deaths anywhere, start-ups included |

Why the bounds are enough to be interesting. Two requests are one operation that runs and one that
is tried while it runs or just after; the reconcile and probe loops are unbounded. One fault per
behaviour already meets every label of every thread. An alert list of one makes each new alert
push the older one out, which is the case that purges; four ids are one listed, two in flight and one
that a purge has missed, so no new alert ever lacks an id. Interfaces are two, as there are two
sessions. A FailLimit of 1 or 2 instead of 3 only shortens the count. `phone_reattach` lets a wait for
the tunnels time out although the cell is good (`SlowAttach`), which is what leads to repeated
re-attaches; `phone_power` does not, so its operations never reset the cell (the proofs of
`PowerOffHolds` and `AptSerialised` cover that case), and `phone_stream` does not either, as the recovery in
the documents assumes that a good cell attaches within the wait. `ButtonKept` is checked twice, since a
crash of the phone and a playing video in one run are too many states: `phone_reattach` has the crash and no
video, `phone_power` the video and no crash; the theorem `PowerIsKept` has both. Three events against a
deque of two push one out before it is streamed; a window of two ticks is the least in which two
time stamps can differ and still be a repeat. With two chunks the delay can be shortened between them, and
the end mark has something to overtake. Two uploads are what can share a `.part` file; uploads to two names touch nothing in common, so the run has one (the theorems have any number). Nothing bounds how
often the portal of `media` dies. Every property
of these runs has a mutant in the module it is about, marked as such, that breaks it.

Runs that show a claim broken, each by one property:

| run | what the code does |
|---|---|
| `claim_camera_off` | The reconcile loop decides to restart the stream, the user switches the camera off, the loop starts the stream: the branch that would stop it (app.py:634) is unreachable. |
| `claim_stays_off` | The probe re-attaches a phone that has just been switched off: its third failed ping is the one over a phone that is off. |
| `claim_ask_loop` | A rule disabled between the lock of rules.py:244 and the read of rules.py:248 ends the ask thread. |
| `claim_timeline` | After a restart ids begin at 1 again; the page that stayed open drops every event until they pass its old `lastId`. |

Seen in the models and listed among the hazards or left out of a property by name, without a run:

* a stream started with the mode from before a path switch stays on the old path; a camera request
  answered 409 has changed the saved intent; a portal restarted over a running ffmpeg overrides the
  saved camera switch; a power-off cuts the reconcile loop's apt run short;
* a power-off that finds a crashed container "restarting" returns at app.py:403 and docker boots the phone after
  it, and a container that crashes before the policy is set comes back too (hence `bounced` in
  `PowerOffHolds` and `excused` in `PowerButton`); the probe's exec raises when the container stops under it, its thread ends, and the next stall
  stays (so `StallRecovers` is checked without power requests);
* a rule disabled and evaluated from a stale list fires again within its cooldown; the other loop's
  purge takes the image of an alert that is about to be listed;
* count rules may be judged on the labels of an earlier stream for the first frames after a reconnect (`NoStaleZones` is about zone
  rules, whose boxes the reader clears);
* when the second port is taken, the first listener is leaked: the RTSP port is served by it, but no
  later attempt can bind both, so the probe's port never is (hence `RtspServed` and nothing about the other);
* a `TimeoutError` escapes `_pump` before `writer.close()` and leaves the other transport open
  (hence the condition in `NoLeak`); the client list is emptied while a second connection from
  the same address is open;
* overlapping saves can leave the older intent or a file that cannot be read, and a portal that dies in a
  save leaves the file empty, so that the defaults come back (hence `doubt` in `IntentSurvives` and `cut`
  in `RulesSurvive`, which still bound what may be found); the save of the rules at start-up, which changes
  nothing, is such a save too; two uploads of one name can mix (hence `shared` in `VideosWhole`).

Fairness. In `PhoneControl` and `RuleEngine` threads are scheduled (`WF` of each thread's step), the
clock passes the backoff, a session comes up on a good cell, and docker restarts what its policy
says. The threads are daemon threads of one process and each of their waits has a timeout, so
this is what the code gives; nobody is obliged to send a request and no fault has to happen. `ProbeSleep`
waits until a runner that was launched has taken its first step: three seconds are enough for a
thread to be scheduled once, and without it the probe could count pings for ever against a phone being
re-attached. In `EdgeSpec` the reader opens what can be opened and its read fails at the end or by its
timeout, frames come while the stream is on, seconds pass (a frame that completes a second comes again
and again), and the language model answers; the stream and the picture change or not. In `Relay` the event loop runs
every task that can run and time passes; nobody has to connect, send or free a port. In `EventStream`
followers, the page's reconnect and its timers are weakly fair; the generator's round and the
page's handler are strongly fair, as a connection may break again and again but is not broken
before every round for ever. `MediaDir` has no liveness and no fairness.

## Proofs

All proofs are complete, down to leaves that cite their facts; the only assumptions are the named
ones on the constants (`PhoneAssumption`, `ControlAssumption`, `EngineAssumption`, `EdgeAssumption`,
`StreamAssumption`, `RelayAssumption`, `MediaAssumption`).

* `PhoneControlProofs`
  * `TypeCorrect` - type correctness, by groups of variables, one lemma per thread.
  * `CellResetIsSafe` - `CellResetSafe` is not inductive: it needs that the container stays
    stopped at `cellReset` too (`ResetInv`); no other thread starts a container, and docker
    restarts only one that is "restarting".
  * `AptIsSerialised` - `AptInv`: whoever is in `apt` is at its install label, at most one starter is,
    and an orphan needs a restart of the portal.
  * `PowerOffIsFinal` - four layers (`PowerInv`): nothing runs in a container that does not run
    (`EmptyInv`); the job's name fits the runner's label (`JobInv`); a container that is "restarting",
    now or since the operation began, has `bounced` up (`BounceInv`); and the policy is "no" when the
    UE process ends in the deregistration, so that a power-off that did not bounce is exited at its end (`OffInv`).
  * `PowerIsKept` - the refinement of `PowerButton`, one lemma for each kind of step (`ButtonAccept`,
    `ButtonOp`, `ButtonPlay`, `ButtonSwitch`, `ButtonTrouble`, `ButtonStarter`, `ButtonFinish`, `ButtonDie`,
    `ButtonEnvironment`). Only `PhoneCrashes` maps to `Crash`, since only it records one; every other change of
    the status must therefore be a `Switch` or docker's `ComeBack`, and `JobInv` tells
    which operation boots and stops, `EmptyInv` that a stopped phone is silent, and `OffInv` is what `Finish` asks
    of a power-off. Requests, the loops' polls and the probe map to a stutter or to `Accept`.
* `RuleEngineProofs`
  * `TypeCorrect` - needs that an active rule's count is below RELEASE_CHECKS (`ClearInv`).
  * `SnapshotsAreListed` - inductive as it stands: images that are not listed exist only while some
    loop is about to log, and the last one to log purges.
  * `ReleaseNeedsChecks` and `ReleaseComes` - an active vision rule has counted exactly the false
    evaluations it had in a row (`StreakInv`), which with `ClearInv` bounds them from both sides.
  * `CooldownHolds` - what is left of the cooldown by the code's own reckoning is never less than what
    is really left, where a request that takes a rule's state away ends both (`CoolInv`).
* `EdgeAlertsProofs`
  * `EdgeTypeCorrect` - one caption worker runs exactly while the busy flag is up (`IngestInv`), and what is
    fetched is a set of vision rules (`EdgeInv`).
  * `EdgeRunsTheEngine` - each step of the composition is a step of `RuleEngine`. So the engine's
    invariants are the composition's, and with them `EdgeSnapshots`, `EdgeRelease` and `EdgeCooldown`.
  * `ZonesAreFresh` - the boxes are always within the last detection of this connection, and the round
    fetches them in one step.
* `EventStreamProofs`
  * `TypeCorrect`.
  * `TimelineIsAFeed` - the whole refinement. The record of a log is in its order (`Chronicle`: what a
    follower has emitted is not beyond its `last`, ids of this run are below the next one, and what was recorded
    earlier is earlier); what is under way is of this run (`Current`), so an event that passes
    `id > lastId` follows everything the page has accepted; and the page's batch, queue and history are
    in an order that the sort of a batch keeps (`Page`).
  * `RepeatsAreDropped` - `emit` compares with the last record of a key only. That is enough because
    the last record is the latest (`Latest`), which in turn needs that no follower has emitted beyond
    its own `last` (`Followed`) and nothing is of the future (`Past`): time stamps of a key never go
    back by a whole window.
  * `NothingIsLost` - `LostInv`: the ids of the deque grow (`Growing`), nobody asks beyond what the portal has
    emitted, and the wire holds, in the order of their ids, events between the page's last id and the
    generator's (`Ahead`). So a broken connection puts everything that was on the wire back above the id of the next
    request. That a batch loses nothing in its sort is a matter of counting: it is as long as the set it
    sorts and, the order being strict, names nothing twice.
* `RelayProofs`
  * `TypeCorrect`.
  * `RelayIsADelayLine` and `NothingIsDropped` - `LineInv`: what was written is the beginning of what
    was read, and while the sender runs the queue is exactly the rest, with the end mark after it once the
    reader has ended (`Rest`, `Entered`). A sender that is done has written everything. The refinement maps
    `Read` to `Accept`, `Send` to `Pass` or a stutter, `Tick` to `Tick`.
  * `NothingLeaks` - `SideInv`: which transports exist at which step of the handler, and that a pump
    that has returned leaves its writer's transport closed or lost, a pump that has raised has lost one to a timeout.
  * `LinesDrain` - no chunk was given more than the largest delay (`DueInv`); that a reader which waits has its
    end mark in the queue follows from `LineInv`.
* `MediaDirProofs`
  * `RulesOutliveThePortal` - `RulesInv`: the engine has the rules of the last edit or, once a save has been
    cut off, may have the defaults; the file is that list, but empty exactly while a save holds the lock
    or a start-up is between its two steps, and when a portal has died there it may still be empty for the next
    one (`start`). That the start-up's own save can be cut off is why `cut` has to survive any number of deaths until the
    next edit.
  * `IntentOutlivesThePortal` - `IntentInv`: whatever is in the file, or on its way there, is one of the intents
    held since a save last began alone, and a portal that starts up saves nothing; while no save was overlapped or cut off at
    most one is under way, one intent is held, and the file is that one outside the save and empty in it.
    Adoption changes the intent in memory only, so it cannot reach what the next start finds.
  * `VideosAreWhole` - `VideoInv`: on a name that was never shared there is one upload under way, its
    handle is on the `.part` file, and that file is its chunks so far; a handle on a video belongs to a
    shared name.
  * `StoreIsKept` - the refinement of `VideoStore` on top of `VideoInv`: on a name that was
    never shared `Finish` (the `os.replace`) is `Put`; a refusal, a failed move or a restart is `Drop`, a second
    upload of a name is `Share`, and everything else a stutter.
  * `TypeCorrect`.

Every invariant, action property and refinement that a passing run checks is a theorem. Only
model-checked are the liveness properties (`StreamResumes`, `StallRecovers`, `OpsFinish`,
`RoutesConverge`, `RulesFollowPicture`, `CatchesUp`, `HandlersEnd`, `RtspServed`), since liveness under
fairness is beyond the prover here, and of course the violated claims. The safety half of some of
them is proved: what has not been shown is still on its way (`NoneLost`, for `CatchesUp`), a pump waits
for nothing that is not in its queue and due soon (`DrainsInTime`, for `HandlersEnd`), a release is never
overdue (`ReleasedInTime`, for `RulesFollowPicture`).

## Plan

Done: every component that decides something at run time is modelled, with runs and proofs. What could
follow:

1. A second connection in the `relay` run, with the probe's port, once its state space is cut down
   (the safety theorems already hold for any number of connections).
2. The intent of `MediaDir` in place of the atomic copy in `PhoneControl`, so that a torn file meets
   adoption after a restart.
3. A question about a rule that is edited to another type between two rounds.
4. More safety halves of the liveness properties as theorems: for `RoutesConverge`, that a route which is
   not on its tunnel is one the next poll sees; for `StallRecovers`, that a stalled link answers no ping.
5. An abstract specification of the alert list over `RuleEngine`, with its refinement.

## Not modelled

* RAN watchdog (`ran/rls-watchdog.sh`): a script without state between its rounds, started by hand for a RAN
  without the portal. Beside the portal it would be one more hand on the containers, which `Phone`
  does not have; the hazard is listed.
* Pull watchdog and `lab.sh`, verification and demo scripts, cluster set-up: sequences of external
  commands with no part in the running system.
* In the ingest: the poll of the publishers, the MJPEG stream, the captions' text and the
  metrics; in the browser: rendering; the GPU exporter, which formats one command's output.
* Manifests and the third-party programs themselves; what the portal sees of the UE and the gNB is
  `Phone`'s environment.
