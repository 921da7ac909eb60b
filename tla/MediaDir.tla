------------------------------ MODULE MediaDir ------------------------------
(***************************************************************************)
(* The files the portal keeps in its media directory: the intent           *)
(* (.portal-state.json, save_desired and load_desired of portal/app.py),   *)
(* the rules (.portal-rules.json, portal/rules.py) and the uploaded videos *)
(* with their .part files (upload).  A save truncates, gathers and writes; *)
(* the intent has two writers without a lock, the event loop's handlers    *)
(* and the runner of an operation.  The portal may die at any point, its   *)
(* own start-up included: that loads the rules and saves them at once,     *)
(* then loads the intent, then looks whether the phone still streams.      *)
(***************************************************************************)
EXTENDS Naturals, Sequences

CONSTANTS
  Names,      \* the videos' file names
  Uploads,    \* the uploads there may be
  Limit,      \* MAX_UPLOAD_BYTES in chunks of 1 MB
  RuleLists,  \* the rule lists there may be
  DefaultRules \* DEFAULT_RULES, one of them

ASSUME MediaAssumption ==
  /\ DefaultRules \in RuleLists /\ "empty" \notin RuleLists
  /\ Uploads \cap {"none", "shared", "torn"} = {}
  /\ Limit \in Nat \ {0}

Intent   == [camera : BOOLEAN, mode : {"edge", "central"}]
Defaults == [camera |-> FALSE, mode |-> "edge"]
Writers  == {"handler", "runner"}
Blank    == [i \in 1..Limit |-> "none"]
Content  == [1..Limit -> Uploads \cup {"none"}] \* which upload wrote each chunk
NoFile   == <<>>
Whole(u, len) == [i \in 1..Limit |-> IF i <= len THEN u ELSE "none"]

VARIABLES
  desired,     \* desired
  stateFile,   \* its file: what it is made of, <<>> when it has been emptied, one
               \* intent, or an intent and what sticks out of an older one
  saving, buf, \* each writer's step in save_desired, and what it has gathered,
               \* Defaults before and after
  held,        \* history: what the intent has been since a save last began alone
  doubt,       \* history: that save was overlapped or cut off
  rules, rulesFile, rulesLock, \* rules, their file, and engine.lock held by a save
  wanted,      \* history: the rules as the last edit left them
  cut,         \* history: the portal has died in a save of the rules since
  part, video, \* the .part file and the video of each name
  up,          \* each upload: its step, name, length, chunks written, and the
               \* file its handle is on: "part", "video" or one that is "gone"
  shared,      \* history: the names that two uploads had open at once
  portal       \* "serving", or how far its start-up has got: "start", "resave", "intent"

intentVars == <<desired, stateFile, saving, buf, held, doubt>>
rulesVars  == <<rules, rulesFile, rulesLock, wanted, cut>>
videoVars  == <<part, video, up, shared>>
vars       == <<intentVars, rulesVars, videoVars, portal>>

TypeOK ==
  /\ desired \in Intent /\ stateFile \in Seq(Intent) /\ Len(stateFile) <= 2
  /\ saving \in [Writers -> {"idle", "open", "dumped"}] /\ buf \in [Writers -> Intent]
  /\ held \subseteq Intent /\ doubt \in BOOLEAN
  /\ rules \in RuleLists /\ rulesFile \in RuleLists \cup {"empty"} /\ rulesLock \in BOOLEAN
  /\ wanted \in RuleLists /\ cut \in BOOLEAN
  /\ part \in [Names -> Content \cup {NoFile}] /\ video \in [Names -> Content \cup {NoFile}]
  /\ up \in [Uploads -> [step : {"idle", "write", "done"}, name : Names, len : 1..Limit + 1,
                         pos : 0..Limit, to : {"part", "video", "gone"}]]
  /\ shared \subseteq Names
  /\ portal \in {"serving", "start", "resave", "intent"}

Init ==
  /\ desired = Defaults /\ stateFile = <<Defaults>>
  /\ saving = [w \in Writers |-> "idle"] /\ buf = [w \in Writers |-> Defaults]
  /\ held = {Defaults} /\ doubt = FALSE
  /\ rules = DefaultRules /\ rulesFile = DefaultRules /\ rulesLock = FALSE
  /\ wanted = DefaultRules /\ cut = FALSE
  /\ part = [n \in Names |-> NoFile] /\ video = [n \in Names |-> NoFile]
  /\ up \in [Uploads -> [step : {"idle"}, name : Names, len : 1..Limit + 1, pos : {0}, to : {"part"}]]
  /\ shared = {} /\ portal = "serving"

AtRest == \A w \in Writers : saving[w] = "idle"

----------------------------------------------------------------------------
(* save_desired.                                                           *)

\* A handler sets the camera, the runner of a path switch the mode; each opens
\* the file, which empties it.
SaveOpens(w) ==
  /\ portal = "serving" /\ saving[w] = "idle" /\ saving' = [saving EXCEPT ![w] = "open"]
  /\ IF w = "handler" THEN \E on \in BOOLEAN : desired' = [desired EXCEPT !.camera = on]
     ELSE \E way \in {"edge", "central"} : desired' = [desired EXCEPT !.mode = way]
  /\ stateFile' = <<>>
  /\ doubt' = ~AtRest /\ held' = {desired'} \cup IF AtRest THEN {} ELSE held
  /\ UNCHANGED <<buf, rulesVars, videoVars, portal>>

SaveDumps(w) ==
  /\ saving[w] = "open" /\ saving' = [saving EXCEPT ![w] = "dumped"]
  /\ buf' = [buf EXCEPT ![w] = desired]
  /\ UNCHANGED <<desired, stateFile, held, doubt, rulesVars, videoVars, portal>>

Length(intent) == (IF intent.camera THEN 4 ELSE 5) + (IF intent.mode = "edge" THEN 4 ELSE 7)

\* Written from the start of a file that another save may have filled since it
\* was emptied: what is longer sticks out.
Flushed(intent) ==
  IF stateFile # <<>> /\ (Len(stateFile) = 2 \/ Length(stateFile[1]) > Length(intent))
  THEN <<intent, stateFile[Len(stateFile)]>> ELSE <<intent>>

SaveCloses(w) ==
  /\ saving[w] = "dumped" /\ saving' = [saving EXCEPT ![w] = "idle"]
  /\ stateFile' = Flushed(buf[w]) /\ buf' = [buf EXCEPT ![w] = Defaults]
  /\ UNCHANGED <<desired, held, doubt, rulesVars, videoVars, portal>>

----------------------------------------------------------------------------
(* RuleEngine._save, by add, update and delete under engine.lock.          *)

Edit(list) ==
  /\ portal = "serving" /\ ~rulesLock /\ list # rules
  /\ rules' = list /\ wanted' = list /\ cut' = FALSE

\* Mutant: an edit does not save.
EditUnsaved ==
  /\ \E list \in RuleLists : Edit(list)
  /\ UNCHANGED <<intentVars, rulesFile, rulesLock, videoVars, portal>>

EditRules ==
  /\ \E list \in RuleLists : Edit(list)
  /\ rulesFile' = "empty" /\ rulesLock' = TRUE
  /\ UNCHANGED <<intentVars, videoVars, portal>>

RulesWritten ==
  /\ rulesLock /\ rulesFile' = rules /\ rulesLock' = FALSE
  /\ UNCHANGED <<intentVars, rules, wanted, cut, videoVars, portal>>

----------------------------------------------------------------------------
(* upload.                                                                 *)

\* The handles on the .part file of n are on what it becomes, and those on a
\* video that was replaced on a file without a name.
Moved(n, to) ==
  [v \in Uploads |->
     IF up[v].name # n \/ up[v].step # "write" THEN up[v]
     ELSE IF up[v].to = "part" THEN [up[v] EXCEPT !.to = to]
     ELSE IF to = "video" THEN [up[v] EXCEPT !.to = "gone"] ELSE up[v]]

\* Mutant: the video is written in place.
StartInPlace(u) ==
  LET n == up[u].name
  IN  /\ portal = "serving" /\ up[u].step = "idle" /\ up' = [up EXCEPT ![u].step = "write", ![u].to = "video"]
      /\ video' = [video EXCEPT ![n] = Blank]
      /\ UNCHANGED <<intentVars, rulesVars, part, shared, portal>>

\* open(tmp, "wb") makes the .part file or empties the one that is there.
Start(u) ==
  LET n == up[u].name
  IN  /\ portal = "serving" /\ up[u].step = "idle" /\ up' = [up EXCEPT ![u].step = "write"]
      /\ part' = [part EXCEPT ![n] = Blank]
      /\ shared' = IF \E v \in Uploads : up[v].step = "write" /\ up[v].name = n
                   THEN shared \cup {n} ELSE shared
      /\ UNCHANGED <<intentVars, rulesVars, video, portal>>

\* Mutant: the limit is not looked at.
NoLimit(u) == up[u].pos < up[u].len
Within(u) == up[u].pos < up[u].len /\ up[u].pos < Limit

WriteChunk(u) ==
  LET n == up[u].name
      i == up[u].pos + 1
  IN  /\ up[u].step = "write" /\ Within(u)
      /\ up' = [up EXCEPT ![u].pos = i]
      /\ part' = IF up[u].to = "part" THEN [part EXCEPT ![n][i] = u] ELSE part
      /\ video' = IF up[u].to = "video" THEN [video EXCEPT ![n][i] = u] ELSE video
      /\ UNCHANGED <<intentVars, rulesVars, shared, portal>>

\* Mutant: the name is cleaned up, not the .part file.
TooBigUnlists(u) ==
  LET n == up[u].name
  IN  /\ up[u].step = "write" /\ up[u].pos = Limit /\ up[u].len > Limit
      /\ video' = [video EXCEPT ![n] = NoFile]
      /\ up' = [up EXCEPT ![u].step = "done"]
      /\ UNCHANGED <<intentVars, rulesVars, part, shared, portal>>

\* 413: the .part file, whoever is writing it, is removed if it is still there.
TooBig(u) ==
  LET n == up[u].name
  IN  /\ up[u].step = "write" /\ up[u].pos = Limit /\ up[u].len > Limit
      /\ part' = [part EXCEPT ![n] = NoFile]
      /\ up' = [Moved(n, "gone") EXCEPT ![u].step = "done"]
      /\ UNCHANGED <<intentVars, rulesVars, video, shared, portal>>

\* os.replace: the .part file is the video now; an error when it is not there.
Finish(u) ==
  LET n == up[u].name
  IN  /\ up[u].step = "write" /\ up[u].pos = up[u].len
      /\ IF part[n] = NoFile THEN up' = [up EXCEPT ![u].step = "done"] /\ UNCHANGED <<part, video>>
         ELSE /\ video' = [video EXCEPT ![n] = part[n]]
              /\ part' = [part EXCEPT ![n] = NoFile]
              /\ up' = [Moved(n, "video") EXCEPT ![u].step = "done"]
      /\ UNCHANGED <<intentVars, rulesVars, shared, portal>>

----------------------------------------------------------------------------
(* The portal dies and starts again.                                       *)

\* Mutant: only some of the keys are taken.
LoadSome(file) == IF Len(file) = 1 THEN [Defaults EXCEPT !.camera = file[1].camera] ELSE Defaults

\* load_desired: what cannot be read leaves the defaults.
Load(file) == IF Len(file) = 1 THEN file[1] ELSE Defaults

\* _adopt_current_state: a stream that goes on is taken for the operator's intent.
Adopted(intent, streams) ==
  IF streams = "none" THEN intent ELSE [intent EXCEPT !.camera = TRUE, !.mode = streams]

\* RuleEngine._load: likewise.
LoadRules(file) == IF file = "empty" THEN DefaultRules ELSE file

\* What was in memory is lost.
Die ==
  /\ portal' = "start"
  /\ desired' = Defaults
  /\ saving' = [w \in Writers |-> "idle"] /\ buf' = [w \in Writers |-> Defaults]
  /\ doubt' = (doubt \/ ~AtRest)
  /\ rulesLock' = FALSE /\ cut' = (cut \/ rulesLock \/ portal = "resave")
  /\ up' = [u \in Uploads |-> IF up[u].step = "write" THEN [up[u] EXCEPT !.step = "done"] ELSE up[u]]
  /\ UNCHANGED <<stateFile, held, rules, rulesFile, wanted, part, video, shared>>

\* The module is imported: RuleEngine reads its file and, to save what it made
\* of it, empties it ...
StartRules ==
  /\ portal = "start" /\ portal' = "resave"
  /\ rules' = LoadRules(rulesFile) /\ rulesFile' = "empty"
  /\ UNCHANGED <<intentVars, rulesLock, wanted, cut, videoVars>>

\* ... and writes it, without the lock.
ResaveRules ==
  /\ portal = "resave" /\ portal' = "intent" /\ rulesFile' = rules
  /\ UNCHANGED <<intentVars, rules, rulesLock, wanted, cut, videoVars>>

\* lifespan: load_desired and _adopt_current_state, before the first request;
\* streams is the path the phone plays a video over, "none" if it plays none.
StartServing(streams) ==
  /\ portal = "intent" /\ portal' = "serving"
  /\ desired' = Adopted(Load(stateFile), streams)
  /\ UNCHANGED <<stateFile, saving, buf, held, doubt, rulesVars, videoVars>>

StartUp ==
  \/ StartRules \/ ResaveRules
  \/ \E streams \in {"none", "edge", "central"} : StartServing(streams)

Next ==
  \/ \E w \in Writers : SaveOpens(w) \/ SaveDumps(w) \/ SaveCloses(w)
  \/ EditRules \/ RulesWritten
  \/ \E u \in Uploads : Start(u) \/ WriteChunk(u) \/ TooBig(u) \/ Finish(u)
  \/ Die \/ StartUp

Spec == Init /\ [][Next]_vars

----------------------------------------------------------------------------
(* Properties.                                                             *)

\* A portal that starts over a phone that does not stream finds the intent of
\* the last save, if that ran alone and to its end; otherwise one of those the
\* overlapping saves were for, or the defaults, but never a mixture of two and
\* none from before them, however often the portal has died and adopted a stream
\* in between (save_desired, load_desired).
IntentSurvives ==
  [][StartServing("none")
       => IF doubt THEN desired' \in held \cup {Defaults} ELSE held = {desired'}]_vars

\* Whenever the portal serves, its rules are those the last edit left, or the
\* defaults when it has died since in a save of the rules, the edit's own or the
\* one of a start-up (RuleEngine._save, _load).
RulesSurvive ==
  portal = "serving" => rules = wanted \/ (cut /\ rules = DefaultRules)

\* A listed video is one upload in full, wherever the portal died, unless two
\* uploads of its name had the .part file open at once.
VideosWhole ==
  \A n \in Names \ shared :
    video[n] # NoFile => \E u \in Uploads : up[u].name = n /\ video[n] = Whole(u, up[u].len)

\* The gallery keeps what VideoStore promises: a video is there in full or not
\* at all, is replaced in one step and never lost, and no upload gets there
\* twice, wherever the portal died, except under a name that was shared.
Listed(n) ==
  IF n \in shared THEN "shared"
  ELSE IF video[n] = NoFile THEN "none"
  ELSE LET u == video[n][1]
       IN  IF u \in Uploads /\ video[n] = Whole(u, up[u].len) THEN u ELSE "torn"
Store == INSTANCE VideoStore
           WITH listed <- [n \in Names |-> Listed(n)],
                owner  <- [u \in Uploads |-> up[u].name],
                spent  <- {u \in Uploads : up[u].step = "done"}
StoreKept == Store!Spec
=============================================================================
