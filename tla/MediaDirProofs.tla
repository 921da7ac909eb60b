--------------------------- MODULE MediaDirProofs ---------------------------
(***************************************************************************)
(* Theorems about MediaDir, for any videos, uploads, limit and rule lists. *)
(***************************************************************************)
EXTENDS MediaDir, TLAPS

----------------------------------------------------------------------------
(* The rules' file.                                                        *)

Phases == {"serving", "start", "resave", "intent"}

\* The engine has what the last edit left, or the defaults it fell back to. The
\* file is the same, but emptied in a save, and it may still be empty when the
\* next portal looks at it.
RulesInv ==
  /\ rules \in RuleLists /\ wanted \in RuleLists /\ cut \in BOOLEAN
  /\ rulesLock \in BOOLEAN /\ portal \in Phases
  /\ rules = wanted \/ (cut /\ rules = DefaultRules)
  /\ rulesLock => portal = "serving"
  /\ portal = "start" => rulesFile = rules \/ (cut /\ rulesFile = "empty")
  /\ portal # "start" => rulesFile = IF rulesLock \/ portal = "resave" THEN "empty" ELSE rules

LEMMA RulesStep == RulesInv /\ [Next]_vars => RulesInv'
<1> SUFFICES ASSUME RulesInv, [Next]_vars PROVE RulesInv'
  OBVIOUS
<1> USE DEF RulesInv, Phases
<1>0. DefaultRules \in RuleLists /\ "empty" \notin RuleLists
  BY MediaAssumption DEF MediaAssumption
<1>1. CASE UNCHANGED <<rulesVars, portal>> \/ UNCHANGED vars
  BY <1>1 DEF rulesVars, vars
<1>2. CASE EditRules
  BY <1>2 DEF EditRules, Edit
<1>3. CASE RulesWritten
  BY <1>3 DEF RulesWritten
<1>4. CASE Die
  <2>1. rulesFile = rules \/ (cut' /\ rulesFile = "empty")
    BY <1>4 DEF Die
  <2>2. portal' = "start" /\ rulesLock' = FALSE /\ UNCHANGED <<rules, wanted, rulesFile>>
        /\ cut' \in BOOLEAN /\ (cut => cut')
    BY <1>4 DEF Die
  <2>3. QED
    BY <2>1, <2>2
<1>5. CASE StartUp
  BY <1>0, <1>5 DEF StartUp, StartRules, ResaveRules, StartServing, LoadRules, rulesVars
<1>6. QED
  BY <1>1, <1>2, <1>3, <1>4, <1>5
     DEF Next, SaveOpens, SaveDumps, SaveCloses, Start, WriteChunk, TooBig, Finish

LEMMA RulesInit == Init => RulesInv
  BY MediaAssumption DEF MediaAssumption, Init, RulesInv, Phases

\* Whenever the portal serves, its rules are those the last edit left or, when it
\* has died since between emptying and writing the file, in the edit's own save or
\* in the one that every start-up makes, the defaults: no list from before, and no
\* half of one (rules.py, _save and _load).
THEOREM RulesOutliveThePortal == Spec => []RulesSurvive
<1>1. RulesInv => RulesSurvive
  BY DEF RulesInv, RulesSurvive
<1>2. QED
  BY <1>1, RulesInit, RulesStep, PTL DEF Spec

----------------------------------------------------------------------------
(* The intent's file.                                                      *)

IntentType ==
  /\ desired \in Intent /\ stateFile \in Seq(Intent) /\ Len(stateFile) <= 2
  /\ saving \in [Writers -> {"idle", "open", "dumped"}] /\ buf \in [Writers -> Intent]
  /\ held \subseteq Intent /\ doubt \in BOOLEAN

\* Whatever is in the file, or on its way there, is held, and a portal that starts
\* up saves nothing. While no save has been overlapped or cut off, at most one
\* is under way, one intent is held, and the file is that one outside the save,
\* nothing inside it.
IntentInv ==
  /\ IntentType
  /\ portal # "serving" => AtRest
  /\ \A i \in 1..Len(stateFile) : stateFile[i] \in held
  /\ ~AtRest => desired \in held
  /\ \A w \in Writers : saving[w] = "dumped" => buf[w] \in held
  /\ ~doubt =>
       /\ \A v, w \in Writers : saving[v] # "idle" /\ saving[w] # "idle" => v = w
       /\ \E intent \in Intent : held = {intent}
       /\ Len(stateFile) = IF AtRest THEN 1 ELSE 0

IntentKept ==
  StartServing("none") => IF doubt THEN desired' \in held \cup {Defaults} ELSE held = {desired'}

\* A file that another save may have filled keeps at most its last part.
LEMMA FlushedIs ==
  ASSUME IntentType, NEW intent \in Intent
  PROVE  /\ Flushed(intent) \in Seq(Intent) /\ Len(Flushed(intent)) <= 2
         /\ stateFile = <<>> => Len(Flushed(intent)) = 1
         /\ \A S : intent \in S /\ (\A i \in 1..Len(stateFile) : stateFile[i] \in S)
                  => \A i \in 1..Len(Flushed(intent)) : Flushed(intent)[i] \in S
<1> DEFINE last == stateFile[Len(stateFile)]
<1>1. stateFile # <<>> => last \in Intent /\ Len(stateFile) \in 1..Len(stateFile)
  BY DEF IntentType
<1> HIDE DEF last
<1>2. \/ Flushed(intent) = <<intent>>
      \/ stateFile # <<>> /\ Flushed(intent) = <<intent, last>>
  BY Zenon DEF Flushed, last
<1>3. CASE Flushed(intent) = <<intent>>
  BY <1>3
<1>4. CASE stateFile # <<>> /\ Flushed(intent) = <<intent, last>>
  <2>1. \A S : (\A i \in 1..Len(stateFile) : stateFile[i] \in S) => last \in S
    BY <1>1, <1>4 DEF last
  <2>2. QED
    BY <1>1, <1>4, <2>1
<1>5. QED
  BY <1>2, <1>3, <1>4

LEMMA SaveType ==
  ASSUME IntentType, NEW w \in Writers, SaveOpens(w) \/ SaveDumps(w) \/ SaveCloses(w)
  PROVE  IntentType'
<1> USE DEF IntentType
<1>1. CASE SaveOpens(w)
  <2>1. desired' \in Intent
    <3>1. \A d \in Intent, on \in BOOLEAN : [d EXCEPT !.camera = on] \in Intent
      BY DEF Intent
    <3>2. \A d \in Intent, way \in {"edge", "central"} : [d EXCEPT !.mode = way] \in Intent
      BY DEF Intent
    <3>3. QED
      BY <1>1, <3>1, <3>2 DEF SaveOpens
  <2>2. stateFile' = <<>> /\ doubt' \in BOOLEAN /\ UNCHANGED buf
        /\ saving' = [saving EXCEPT ![w] = "open"]
    BY <1>1 DEF SaveOpens
  <2>3. held' \subseteq Intent
    BY <1>1, <2>1 DEF SaveOpens
  <2>4. QED
    BY <2>1, <2>2, <2>3
<1>2. CASE SaveDumps(w)
  BY <1>2 DEF SaveDumps
<1>3. CASE SaveCloses(w)
  <2>1. Defaults \in Intent /\ buf[w] \in Intent
    BY DEF Defaults, Intent
  <2> HIDE DEF IntentType
  <2>2. Flushed(buf[w]) \in Seq(Intent) /\ Len(Flushed(buf[w])) <= 2
    BY <2>1, FlushedIs
  <2>3. /\ saving' = [saving EXCEPT ![w] = "idle"] /\ stateFile' = Flushed(buf[w])
        /\ buf' = [buf EXCEPT ![w] = Defaults] /\ UNCHANGED <<desired, held, doubt>>
    BY <1>3 DEF SaveCloses
  <2>4. QED
    BY <2>1, <2>2, <2>3 DEF IntentType
<1>4. QED
  BY <1>1, <1>2, <1>3

LEMMA SaveStep ==
  ASSUME IntentInv, NEW w \in Writers, SaveOpens(w) \/ SaveDumps(w) \/ SaveCloses(w)
  PROVE  IntentInv'
<1>0. IntentType /\ IntentType'
  BY SaveType DEF IntentInv
<1>1. CASE SaveOpens(w)
  <2>1. /\ saving' = [saving EXCEPT ![w] = "open"] /\ stateFile' = <<>> /\ UNCHANGED buf
        /\ portal = "serving" /\ UNCHANGED portal
        /\ doubt' = ~AtRest /\ held' = {desired'} \cup IF AtRest THEN {} ELSE held
    BY <1>1 DEF SaveOpens
  <2>2. \A v \in Writers : saving'[v] = "dumped" => saving[v] = "dumped" /\ ~AtRest
    BY <1>0, <2>1 DEF IntentType, AtRest
  <2>3. \A v \in Writers : saving'[v] = "dumped" => buf'[v] \in held'
    BY <2>1, <2>2 DEF IntentInv
  <2>4. ~doubt' => /\ \A u, v \in Writers : saving'[u] # "idle" /\ saving'[v] # "idle" => u = v
                   /\ held' = {desired'}
    BY <1>0, <2>1 DEF IntentType, AtRest
  <2>5. ~AtRest' /\ Len(stateFile') = 0 /\ desired' \in held' /\ portal' = "serving"
    BY <1>0, <2>1 DEF IntentType, AtRest
  <2>6. desired' \in Intent
    BY <1>0 DEF IntentType
  <2>7. QED
    BY <1>0, <2>3, <2>4, <2>5, <2>6, <2>1 DEF IntentInv
<1>2. CASE SaveDumps(w)
  <2>1. /\ saving[w] = "open" /\ saving' = [saving EXCEPT ![w] = "dumped"]
        /\ buf' = [buf EXCEPT ![w] = desired]
        /\ UNCHANGED <<desired, stateFile, held, doubt, portal>>
    BY <1>2 DEF SaveDumps
  <2>2. ~AtRest /\ ~AtRest' /\ desired \in held
    BY <1>0, <2>1 DEF IntentType, IntentInv, AtRest
  <2>3. \A v \in Writers : saving'[v] = "dumped" => buf'[v] \in held'
    BY <1>0, <2>1, <2>2 DEF IntentType, IntentInv
  <2>4. \A v \in Writers : saving'[v] # "idle" => saving[v] # "idle"
    BY <1>0, <2>1 DEF IntentType
  <2>5. QED
    BY <1>0, <2>1, <2>2, <2>3, <2>4 DEF IntentInv
<1>3. CASE SaveCloses(w)
  <2>1. /\ saving[w] = "dumped" /\ saving' = [saving EXCEPT ![w] = "idle"]
        /\ stateFile' = Flushed(buf[w]) /\ buf' = [buf EXCEPT ![w] = Defaults]
        /\ UNCHANGED <<desired, held, doubt, portal>>
    BY <1>3 DEF SaveCloses
  <2>2. buf[w] \in Intent /\ buf[w] \in held /\ ~AtRest /\ desired \in held
    BY <1>0, <2>1 DEF IntentType, IntentInv, AtRest
  <2>3. \A i \in 1..Len(stateFile') : stateFile'[i] \in held'
    BY <1>0, <2>1, <2>2, FlushedIs DEF IntentInv
  <2>4. \A v \in Writers : /\ saving'[v] # "idle" => v # w /\ saving'[v] = saving[v]
                           /\ v # w => buf'[v] = buf[v]
    BY <1>0, <2>1 DEF IntentType
  <2>5. ~doubt => AtRest' /\ Len(stateFile') = 1
    <3>1. ~doubt => stateFile = <<>> /\ \A v \in Writers : saving[v] # "idle" => v = w
      BY <1>0, <2>1, <2>2 DEF IntentInv, IntentType
    <3>2. QED
      BY <1>0, <2>1, <2>2, <2>4, <3>1, FlushedIs DEF AtRest
  <2>6. QED
    BY <1>0, <2>1, <2>2, <2>3, <2>4, <2>5 DEF IntentInv
<1>4. QED
  BY <1>1, <1>2, <1>3

\* Those steps, and those of the rules and the videos, leave what a portal finds alone.
LEMMA IntentFrame ==
  ASSUME IntentInv, UNCHANGED <<intentVars>>, portal' # "serving" => portal # "serving"
  PROVE  IntentInv'
  BY DEF intentVars, IntentInv, IntentType, AtRest

LEMMA DieIntent == ASSUME IntentInv, Die PROVE IntentInv'
<1>1. /\ desired' = Defaults /\ saving' = [w \in Writers |-> "idle"]
      /\ buf' = [w \in Writers |-> Defaults] /\ doubt' = (doubt \/ ~AtRest)
      /\ UNCHANGED <<stateFile, held>>
  BY DEF Die
<1>2. Defaults \in Intent
  BY DEF Defaults, Intent
<1>3. IntentType'
  BY <1>1, <1>2 DEF IntentInv, IntentType, AtRest
<1>4. AtRest' /\ \A w \in Writers : saving'[w] = "idle"
  BY <1>1 DEF AtRest
<1>5. QED
  BY <1>1, <1>3, <1>4 DEF IntentInv

LEMMA ServeIntent ==
  ASSUME IntentInv, NEW streams \in {"none", "edge", "central"}, StartServing(streams)
  PROVE  IntentInv' /\ IntentKept
<1>1. /\ portal = "intent" /\ desired' = Adopted(Load(stateFile), streams)
      /\ UNCHANGED <<stateFile, saving, buf, held, doubt>>
  BY DEF StartServing
<1>2. Defaults \in Intent /\ AtRest /\ IntentType
  BY <1>1 DEF Defaults, Intent, IntentInv
<1>3. Load(stateFile) \in Intent
  BY <1>2 DEF Load, IntentType
<1>4. \A d \in Intent, s \in {"edge", "central"} : [d EXCEPT !.camera = TRUE, !.mode = s] \in Intent
  BY DEF Intent
<1>5. desired' \in Intent
  BY <1>1, <1>3, <1>4 DEF Adopted
<1>6. AtRest' /\ IntentType'
  BY <1>1, <1>2, <1>5 DEF AtRest, IntentType
<1>7. IntentInv'
  BY <1>1, <1>2, <1>6 DEF IntentInv
<1>8. Len(stateFile) = 1 => Load(stateFile) \in held
  BY DEF Load, IntentInv
<1>9. Load(stateFile) \in held \cup {Defaults} /\ (~doubt => held = {Load(stateFile)})
  <2>1. CASE doubt
    BY <1>8, <2>1 DEF Load
  <2>2. CASE ~doubt
    <3>1. Len(stateFile) = 1 /\ \E intent \in Intent : held = {intent}
      BY <1>2, <2>2 DEF IntentInv
    <3>2. QED
      BY <1>8, <3>1
  <2>3. QED
    BY <2>1, <2>2
<1>10. IntentKept
  BY <1>9 DEF IntentKept, StartServing, Adopted
<1>11. QED
  BY <1>7, <1>10

LEMMA IntentStep == IntentInv /\ [Next]_vars => IntentInv' /\ IntentKept
<1> SUFFICES ASSUME IntentInv, [Next]_vars PROVE IntentInv' /\ IntentKept
  OBVIOUS
<1>1. CASE \E streams \in {"none", "edge", "central"} : StartServing(streams)
  BY <1>1, ServeIntent
<1>2. CASE ~\E streams \in {"none", "edge", "central"} : StartServing(streams)
  <2>0. IntentKept
    BY <1>2 DEF IntentKept
  <2>1. CASE \E w \in Writers : SaveOpens(w) \/ SaveDumps(w) \/ SaveCloses(w)
    BY <2>0, <2>1, SaveStep
  <2>2. CASE Die
    BY <2>0, <2>2, DieIntent
  <2>3. CASE UNCHANGED intentVars /\ (portal' # "serving" => portal # "serving")
    BY <2>0, <2>3, IntentFrame
  <2>4. CASE UNCHANGED vars
    BY <2>3, <2>4 DEF vars, intentVars
  <2>5. CASE StartRules \/ ResaveRules
    BY <2>3, <2>5 DEF StartRules, ResaveRules
  <2>6. CASE \E u \in Uploads : Start(u) \/ WriteChunk(u) \/ TooBig(u) \/ Finish(u)
    BY <2>3, <2>6 DEF Start, WriteChunk, TooBig, Finish
  <2>7. CASE EditRules \/ RulesWritten
    BY <2>3, <2>7 DEF EditRules, RulesWritten
  <2>8. QED
    BY <1>2, <2>1, <2>2, <2>4, <2>5, <2>6, <2>7 DEF Next, StartUp
<1>3. QED
  BY <1>1, <1>2

LEMMA IntentInit == Init => IntentInv
<1> SUFFICES ASSUME Init PROVE IntentInv
  OBVIOUS
<1>1. Defaults \in Intent
  BY DEF Defaults, Intent
<1>2. desired = Defaults /\ stateFile = <<Defaults>> /\ doubt = FALSE /\ held = {Defaults}
      /\ saving = [w \in Writers |-> "idle"] /\ buf = [w \in Writers |-> Defaults]
  BY DEF Init
<1>3. IntentType
  <2>1. stateFile \in Seq(Intent) /\ Len(stateFile) <= 2
    BY <1>1, <1>2
  <2>2. saving \in [Writers -> {"idle", "open", "dumped"}] /\ buf \in [Writers -> Intent]
    BY <1>1, <1>2
  <2>3. held \subseteq Intent /\ doubt \in BOOLEAN
    BY <1>1, <1>2
  <2>4. QED
    BY <1>1, <1>2, <2>1, <2>2, <2>3 DEF IntentType
<1>4. AtRest /\ Len(stateFile) = 1 /\ stateFile[1] \in held
      /\ \A w \in Writers : saving[w] = "idle"
  BY <1>2 DEF AtRest
<1>5. \A i \in 1..Len(stateFile) : stateFile[i] \in held
  BY <1>4
<1>6. QED
  BY <1>1, <1>2, <1>3, <1>4, <1>5 DEF IntentInv

\* A portal that starts over a silent phone finds the intent of the last save when
\* that ran alone and to its end; after saves that overlapped or were cut off, one
\* of the intents they were for or the defaults, and no mixture; whatever deaths,
\* start-ups and adopted streams came in between (save_desired, load_desired).
THEOREM IntentOutlivesThePortal == Spec => IntentSurvives
<1>1. IntentInv /\ [Next]_vars =>
        [StartServing("none")
           => IF doubt THEN desired' \in held \cup {Defaults} ELSE held = {desired'}]_vars
  BY IntentStep DEF IntentKept
<1>2. QED
  BY <1>1, IntentInit, IntentStep, PTL DEF Spec, IntentSurvives

----------------------------------------------------------------------------
(* The videos.                                                             *)

UpType == [step : {"idle", "write", "done"}, name : Names, len : 1..Limit + 1,
           pos : 0..Limit, to : {"part", "video", "gone"}]

VideoType ==
  /\ part \in [Names -> Content \cup {NoFile}] /\ video \in [Names -> Content \cup {NoFile}]
  /\ up \in [Uploads -> UpType] /\ shared \subseteq Names

Busy(u) == up[u].step = "write"

\* A handle is on a file that is there; an upload that has not begun has none.
HandlesInv ==
  \A u \in Uploads :
    /\ up[u].step = "idle" => up[u].to = "part" /\ up[u].pos = 0
    /\ Busy(u) /\ up[u].to = "part" => part[up[u].name] \in Content
    /\ Busy(u) /\ up[u].to = "video" => video[up[u].name] \in Content

\* The uploads of a name that never had two at once: at most one is under way,
\* and the .part file is what it has written so far.
PartInv ==
  \A u \in Uploads : Busy(u) /\ up[u].name \notin shared =>
    /\ up[u].to = "part" /\ part[up[u].name] = Whole(u, up[u].pos)
    /\ \A v \in Uploads : Busy(v) /\ up[v].name = up[u].name => v = u

VideoInv == VideoType /\ HandlesInv /\ PartInv /\ VideosWhole

LEMMA Lengths == Limit \in Nat /\ Limit # 0
  BY MediaAssumption DEF MediaAssumption

\* Records of uploads, changed one field at a time.
SetStep(x, s) == [x EXCEPT !.step = s]
SetPos(x, p)  == [x EXCEPT !.pos = p]
SetTo(x, t)   == [x EXCEPT !.to = t]

LEMMA UpFields ==
  ASSUME NEW x \in UpType
  PROVE  /\ \A s \in {"idle", "write", "done"} :
              /\ SetStep(x, s) \in UpType /\ SetStep(x, s).step = s
              /\ SetStep(x, s).name = x.name /\ SetStep(x, s).len = x.len
              /\ SetStep(x, s).pos = x.pos /\ SetStep(x, s).to = x.to
         /\ \A p \in 0..Limit :
              /\ SetPos(x, p) \in UpType /\ SetPos(x, p).step = x.step
              /\ SetPos(x, p).name = x.name /\ SetPos(x, p).len = x.len
              /\ SetPos(x, p).pos = p /\ SetPos(x, p).to = x.to
         /\ \A t \in {"part", "video", "gone"} :
              /\ SetTo(x, t) \in UpType /\ SetTo(x, t).step = x.step
              /\ SetTo(x, t).name = x.name /\ SetTo(x, t).len = x.len
              /\ SetTo(x, t).pos = x.pos /\ SetTo(x, t).to = t
  BY DEF UpType, SetStep, SetPos, SetTo

\* An upload that has written i - 1 chunks and writes one more.
LEMMA WholeGrows ==
  ASSUME NEW u \in Uploads
  PROVE  /\ Whole(u, 0) = Blank
         /\ \A n \in 0..Limit : Whole(u, n) \in Content
         /\ \A i \in 1..Limit : [Whole(u, i - 1) EXCEPT ![i] = u] = Whole(u, i)
<1> USE Lengths
<1>1. Whole(u, 0) = Blank
  BY DEF Whole, Blank
<1>2. \A n \in 0..Limit : Whole(u, n) \in Content
  BY DEF Whole, Content
<1>3. ASSUME NEW i \in 1..Limit
      PROVE  [Whole(u, i - 1) EXCEPT ![i] = u] = Whole(u, i)
  <2>1. \A j \in 1..Limit : [Whole(u, i - 1) EXCEPT ![i] = u][j] = Whole(u, i)[j]
    BY DEF Whole
  <2>2. QED
    BY <2>1 DEF Whole
<1>4. QED
  BY <1>1, <1>2, <1>3

\* What the handles become when the .part file of n moves.
LEMMA MovedFields ==
  ASSUME VideoType, NEW n \in Names, NEW to \in {"video", "gone"}
  PROVE  /\ Moved(n, to) \in [Uploads -> UpType]
         /\ \A v \in Uploads :
              /\ Moved(n, to)[v].step = up[v].step /\ Moved(n, to)[v].name = up[v].name
              /\ Moved(n, to)[v].len = up[v].len /\ Moved(n, to)[v].pos = up[v].pos
              /\ ~Busy(v) \/ up[v].name # n => Moved(n, to)[v].to = up[v].to
              /\ Busy(v) /\ up[v].name = n => Moved(n, to)[v].to # "part"
                   /\ (Moved(n, to)[v].to = "video" => "video" \in {to, up[v].to})
<1>1. \A v \in Uploads : up[v] \in UpType
  BY DEF VideoType
<1>2. \A v \in Uploads :
        Moved(n, to)[v] = IF up[v].name # n \/ up[v].step # "write" THEN up[v]
                          ELSE IF up[v].to = "part" THEN [up[v] EXCEPT !.to = to]
                          ELSE IF to = "video" THEN [up[v] EXCEPT !.to = "gone"] ELSE up[v]
  BY DEF Moved
<1>3. ASSUME NEW v \in Uploads
      PROVE  /\ Moved(n, to)[v] \in UpType
             /\ Moved(n, to)[v].step = up[v].step /\ Moved(n, to)[v].name = up[v].name
             /\ Moved(n, to)[v].len = up[v].len /\ Moved(n, to)[v].pos = up[v].pos
             /\ ~Busy(v) \/ up[v].name # n => Moved(n, to)[v].to = up[v].to
             /\ Busy(v) /\ up[v].name = n => Moved(n, to)[v].to # "part"
                   /\ (Moved(n, to)[v].to = "video" => "video" \in {to, up[v].to})
  <2>1. CASE up[v].name # n \/ up[v].step # "write"
    BY <1>1, <1>2, <2>1 DEF Busy
  <2>2. CASE Busy(v) /\ up[v].name = n /\ up[v].to = "part"
    <3>1. Moved(n, to)[v] = SetTo(up[v], to)
      BY <1>2, <2>2 DEF Busy, SetTo
    <3>2. QED
      BY <1>1, <2>2, <3>1, UpFields
  <2>3. CASE Busy(v) /\ up[v].name = n /\ up[v].to # "part"
    <3>1. Moved(n, to)[v] = IF to = "video" THEN SetTo(up[v], "gone") ELSE up[v]
      BY <1>2, <2>3 DEF Busy, SetTo
    <3>2. QED
      BY <1>1, <2>3, <3>1, UpFields
  <2>4. QED
    BY <2>1, <2>2, <2>3 DEF Busy
<1>4. DOMAIN Moved(n, to) = Uploads /\ Moved(n, to) = [v \in Uploads |-> Moved(n, to)[v]]
  BY DEF Moved
<1>5. QED
  BY <1>3, <1>4

\* A step that touches no video but those of names uploaded twice at once.
LEMMA WholeFrame ==
  ASSUME VideosWhole, shared \subseteq shared',
         \A m \in Names \ shared' : video'[m] = video[m],
         \A v \in Uploads : up'[v].name = up[v].name /\ up'[v].len = up[v].len
  PROVE  VideosWhole'
<1> SUFFICES ASSUME NEW m \in Names \ shared', video'[m] # NoFile
             PROVE  \E v \in Uploads : up'[v].name = m /\ video'[m] = Whole(v, up'[v].len)
  BY DEF VideosWhole
<1>1. m \in Names \ shared /\ video[m] # NoFile
  OBVIOUS
<1>2. PICK v \in Uploads : up[v].name = m /\ video[m] = Whole(v, up[v].len)
  BY <1>1 DEF VideosWhole
<1>3. QED
  BY <1>2

LEMMA StartStep == ASSUME VideoInv, NEW u \in Uploads, Start(u) PROVE VideoInv'
<1> DEFINE n == up[u].name
<1>1. /\ up[u] \in UpType /\ up[u].step = "idle" /\ n \in Names
      /\ up[u].to = "part" /\ up[u].pos = 0
  BY DEF Start, VideoInv, VideoType, UpType, HandlesInv
<1>2. /\ up' = [up EXCEPT ![u] = SetStep(up[u], "write")]
      /\ part' = [part EXCEPT ![n] = Blank] /\ UNCHANGED video
      /\ shared' = shared \/ shared' = shared \cup {n}
      /\ (\E v \in Uploads : Busy(v) /\ up[v].name = n) => n \in shared'
  BY DEF Start, Busy, SetStep
<1> HIDE DEF n
<1>3. Blank \in Content /\ Blank = Whole(u, 0)
  BY WholeGrows, Lengths
<1>4. /\ SetStep(up[u], "write") \in UpType /\ SetStep(up[u], "write").step = "write"
      /\ SetStep(up[u], "write").name = n /\ SetStep(up[u], "write").len = up[u].len
      /\ SetStep(up[u], "write").pos = 0 /\ SetStep(up[u], "write").to = "part"
  BY <1>1, UpFields DEF n
<1>5. /\ \A v \in Uploads \ {u} : up'[v] = up[v]
      /\ up'[u] = SetStep(up[u], "write")
      /\ part'[n] = Blank /\ \A m \in Names \ {n} : part'[m] = part[m]
  BY <1>1, <1>2 DEF VideoInv, VideoType
<1>6. VideoType'
  BY <1>1, <1>2, <1>3, <1>4 DEF VideoInv, VideoType
<1>7. \A v \in Uploads : up[v].name \in Names
  BY DEF VideoInv, VideoType, UpType
<1>8. HandlesInv'
  BY <1>2, <1>3, <1>4, <1>5, <1>7 DEF VideoInv, HandlesInv, Busy
<1>9. PartInv'
  <2> SUFFICES ASSUME NEW v \in Uploads, Busy(v)', up'[v].name \notin shared'
               PROVE  /\ up'[v].to = "part" /\ part'[up'[v].name] = Whole(v, up'[v].pos)
                      /\ \A w \in Uploads : Busy(w)' /\ up'[w].name = up'[v].name => w = v
    BY DEF PartInv
  <2>1. CASE v = u
    <3>1. \A w \in Uploads : ~(Busy(w) /\ up[w].name = n)
      BY <1>2, <1>4, <1>5, <2>1
    <3>2. QED
      BY <1>3, <1>4, <1>5, <2>1, <3>1 DEF Busy
  <2>2. CASE v # u
    <3>1. Busy(v) /\ up'[v] = up[v] /\ up[v].name # n /\ up[v].name \notin shared
      BY <1>2, <1>5, <2>2 DEF Busy
    <3>2. QED
      BY <1>4, <1>5, <1>7, <3>1 DEF VideoInv, PartInv, Busy
  <2>3. QED
    BY <2>1, <2>2
<1>10. VideosWhole'
  <2>1. \A v \in Uploads : up'[v].name = up[v].name /\ up'[v].len = up[v].len
    BY <1>4, <1>5 DEF n
  <2>2. shared \subseteq shared' /\ \A m \in Names \ shared' : video'[m] = video[m]
    BY <1>2
  <2>3. QED
    BY <1>2, <2>1, <2>2, WholeFrame DEF VideoInv
<1>11. QED
  BY <1>6, <1>8, <1>9, <1>10 DEF VideoInv

LEMMA WriteStep == ASSUME VideoInv, NEW u \in Uploads, WriteChunk(u) PROVE VideoInv'
<1> DEFINE n == up[u].name
           i == up[u].pos + 1
<1>1. /\ up[u] \in UpType /\ Busy(u) /\ n \in Names /\ i \in 1..Limit /\ up[u].pos = i - 1
  <2>1. up[u] \in UpType
    BY DEF VideoInv, VideoType
  <2>2. up[u].pos \in 0..Limit /\ up[u].name \in Names
    BY <2>1 DEF UpType
  <2>3. up[u].step = "write" /\ up[u].pos < Limit
    BY DEF WriteChunk, Within
  <2>4. QED
    BY <2>1, <2>2, <2>3, Lengths DEF Busy
<1>2. /\ up' = [up EXCEPT ![u] = SetPos(up[u], i)] /\ UNCHANGED shared
      /\ part' = IF up[u].to = "part" THEN [part EXCEPT ![n] = [part[n] EXCEPT ![i] = u]] ELSE part
      /\ video' = IF up[u].to = "video" THEN [video EXCEPT ![n] = [video[n] EXCEPT ![i] = u]]
                  ELSE video
  BY DEF WriteChunk, SetPos
<1> HIDE DEF n, i
<1>3. /\ SetPos(up[u], i) \in UpType /\ SetPos(up[u], i).step = "write"
      /\ SetPos(up[u], i).name = n /\ SetPos(up[u], i).len = up[u].len
      /\ SetPos(up[u], i).pos = i /\ SetPos(up[u], i).to = up[u].to
  BY <1>1, UpFields, Lengths DEF n, Busy
<1>4. /\ \A v \in Uploads \ {u} : up'[v] = up[v]
      /\ up'[u] = SetPos(up[u], i)
      /\ \A m \in Names \ {n} : part'[m] = part[m] /\ video'[m] = video[m]
      /\ part'[n] = IF up[u].to = "part" THEN [part[n] EXCEPT ![i] = u] ELSE part[n]
      /\ video'[n] = IF up[u].to = "video" THEN [video[n] EXCEPT ![i] = u] ELSE video[n]
  BY <1>1, <1>2 DEF VideoInv, VideoType
<1>5. \A c \in Content : [c EXCEPT ![i] = u] \in Content
  BY <1>1 DEF Content
<1>6. \A v \in Uploads : up[v].name \in Names
  BY DEF VideoInv, VideoType, UpType
<1>7. /\ up[u].to = "part" => part[n] \in Content
      /\ up[u].to = "video" => video[n] \in Content
  BY <1>1 DEF VideoInv, HandlesInv, n
<1>8. VideoType'
  BY <1>1, <1>2, <1>3, <1>5, <1>7 DEF VideoInv, VideoType
<1>9. HandlesInv'
  BY <1>1, <1>3, <1>4, <1>5, <1>6, <1>7 DEF VideoInv, HandlesInv, Busy
<1>10. n \notin shared => up[u].to = "part" /\ part[n] = Whole(u, i - 1)
                          /\ \A v \in Uploads : Busy(v) /\ up[v].name = n => v = u
  BY <1>1 DEF VideoInv, PartInv, n
<1>11. PartInv'
  <2> SUFFICES ASSUME NEW v \in Uploads, Busy(v)', up'[v].name \notin shared'
               PROVE  /\ up'[v].to = "part" /\ part'[up'[v].name] = Whole(v, up'[v].pos)
                      /\ \A w \in Uploads : Busy(w)' /\ up'[w].name = up'[v].name => w = v
    BY DEF PartInv
  <2>1. CASE v = u
    <3>1. [Whole(u, i - 1) EXCEPT ![i] = u] = Whole(u, i)
      BY <1>1, WholeGrows
    <3>2. QED
      BY <1>2, <1>3, <1>4, <1>10, <2>1, <3>1 DEF Busy
  <2>2. CASE v # u
    <3>1. Busy(v) /\ up'[v] = up[v] /\ up[v].name \notin shared
      BY <1>2, <1>4, <2>2 DEF Busy
    <3>2. up[v].name # n
      BY <1>10, <2>2, <3>1
    <3>3. QED
      BY <1>3, <1>4, <1>6, <3>1, <3>2 DEF VideoInv, PartInv, Busy
  <2>3. QED
    BY <2>1, <2>2
<1>12. VideosWhole'
  <2>1. \A v \in Uploads : up'[v].name = up[v].name /\ up'[v].len = up[v].len
    BY <1>3, <1>4 DEF n
  <2>2. shared \subseteq shared' /\ \A m \in Names \ shared' : video'[m] = video[m]
    BY <1>2, <1>4, <1>10
  <2>3. QED
    BY <1>2, <2>1, <2>2, WholeFrame DEF VideoInv
<1>13. QED
  BY <1>8, <1>9, <1>11, <1>12 DEF VideoInv

\* An upload of n ends and takes the .part file away.
LEMMA GoneStep ==
  ASSUME VideoInv, NEW u \in Uploads, Busy(u), NEW n \in Names, up[u].name = n,
         NEW to \in {"video", "gone"}, up' = [Moved(n, to) EXCEPT ![u].step = "done"],
         part' = [part EXCEPT ![n] = NoFile], UNCHANGED shared,
         \A m \in Names \ {n} : video'[m] = video[m],
         video' \in [Names -> Content \cup {NoFile}],
         to = "video" => video'[n] \in Content,
         to = "gone" => video'[n] = video[n]
  PROVE  /\ VideoType' /\ HandlesInv' /\ PartInv'
         /\ \A v \in Uploads : up'[v].name = up[v].name /\ up'[v].len = up[v].len
<1> DEFINE f == Moved(n, to)
<1>1. /\ f \in [Uploads -> UpType]
      /\ \A v \in Uploads :
           /\ f[v].step = up[v].step /\ f[v].name = up[v].name
           /\ f[v].len = up[v].len /\ f[v].pos = up[v].pos
           /\ ~Busy(v) \/ up[v].name # n => f[v].to = up[v].to
           /\ Busy(v) /\ up[v].name = n =>
                f[v].to # "part" /\ (f[v].to = "video" => "video" \in {to, up[v].to})
  BY MovedFields DEF VideoInv
<1>2. up' = [f EXCEPT ![u] = SetStep(f[u], "done")]
  BY DEF SetStep
<1> HIDE DEF f
<1>3. /\ SetStep(f[u], "done") \in UpType /\ SetStep(f[u], "done").step = "done"
      /\ SetStep(f[u], "done").name = n /\ SetStep(f[u], "done").len = up[u].len
  BY <1>1, UpFields
<1>4. up'[u] = SetStep(f[u], "done") /\ \A v \in Uploads \ {u} : up'[v] = f[v]
  BY <1>1, <1>2
<1>5. part'[n] = NoFile /\ \A m \in Names \ {n} : part'[m] = part[m]
  BY DEF VideoInv, VideoType
<1>6. VideoType'
  BY <1>1, <1>2, <1>3 DEF VideoInv, VideoType
<1>7. \A v \in Uploads : up'[v].name = up[v].name /\ up'[v].len = up[v].len
  BY <1>1, <1>3, <1>4
<1>8. \A v \in Uploads : up[v].name \in Names
  BY DEF VideoInv, VideoType, UpType
<1>9. HandlesInv'
  <2> SUFFICES ASSUME NEW v \in Uploads
               PROVE  /\ up'[v].step = "idle" => up'[v].to = "part" /\ up'[v].pos = 0
                      /\ Busy(v)' /\ up'[v].to = "part" => part'[up'[v].name] \in Content
                      /\ Busy(v)' /\ up'[v].to = "video" => video'[up'[v].name] \in Content
    BY DEF HandlesInv
  <2>1. CASE v = u
    BY <1>3, <1>4, <2>1 DEF Busy
  <2>2. CASE v # u /\ (~Busy(v) \/ up[v].name # n)
    BY <1>1, <1>4, <1>5, <1>8, <2>2 DEF VideoInv, HandlesInv, Busy
  <2>3. CASE v # u /\ Busy(v) /\ up[v].name = n
    BY <1>1, <1>4, <2>3 DEF VideoInv, HandlesInv, Busy
  <2>4. QED
    BY <2>1, <2>2, <2>3
<1>10. PartInv'
  <2> SUFFICES ASSUME NEW v \in Uploads, Busy(v)', up'[v].name \notin shared'
               PROVE  /\ up'[v].to = "part" /\ part'[up'[v].name] = Whole(v, up'[v].pos)
                      /\ \A w \in Uploads : Busy(w)' /\ up'[w].name = up'[v].name => w = v
    BY DEF PartInv
  <2>1. v # u /\ Busy(v) /\ up[v].name \notin shared /\ up'[v] = f[v]
    BY <1>1, <1>3, <1>4, <1>7 DEF Busy
  <2>2. up[v].name # n
    BY <2>1 DEF VideoInv, PartInv
  <2>3. up[v].to = "part" /\ part[up[v].name] = Whole(v, up[v].pos)
        /\ \A w \in Uploads : Busy(w) /\ up[w].name = up[v].name => w = v
    BY <2>1 DEF VideoInv, PartInv
  <2>4. \A w \in Uploads : Busy(w)' => Busy(w)
    BY <1>1, <1>3, <1>4 DEF Busy
  <2>5. QED
    BY <1>1, <1>5, <1>7, <1>8, <2>1, <2>2, <2>3, <2>4
<1>11. QED
  BY <1>6, <1>7, <1>9, <1>10

LEMMA EndStep ==
  ASSUME VideoInv, NEW u \in Uploads, TooBig(u) \/ Finish(u)
  PROVE  VideoInv'
<1> DEFINE n == up[u].name
<1>1. up[u] \in UpType /\ n \in Names /\ Busy(u) /\ VideoType
  BY DEF TooBig, Finish, VideoInv, VideoType, UpType, Busy
<1>2. CASE TooBig(u)
  <2>1. /\ up' = [Moved(n, "gone") EXCEPT ![u].step = "done"]
        /\ part' = [part EXCEPT ![n] = NoFile] /\ UNCHANGED <<shared, video>>
    BY <1>2 DEF TooBig
  <2> HIDE DEF n
  <2>2. /\ VideoType' /\ HandlesInv' /\ PartInv'
        /\ \A v \in Uploads : up'[v].name = up[v].name /\ up'[v].len = up[v].len
    BY <1>1, <2>1, GoneStep DEF VideoType, n
  <2>3. QED
    BY <2>1, <2>2, WholeFrame DEF VideoInv
<1>3. CASE Finish(u) /\ part[n] = NoFile
  <2>1. up' = [up EXCEPT ![u] = SetStep(up[u], "done")] /\ UNCHANGED <<part, video, shared>>
    BY <1>3 DEF Finish, SetStep
  <2>2. /\ SetStep(up[u], "done") \in UpType /\ SetStep(up[u], "done").step = "done"
        /\ SetStep(up[u], "done").name = n /\ SetStep(up[u], "done").len = up[u].len
    BY <1>1, UpFields
  <2> HIDE DEF n
  <2>3. up'[u] = SetStep(up[u], "done") /\ \A v \in Uploads \ {u} : up'[v] = up[v]
    BY <1>1, <2>1 DEF VideoType
  <2>4. \A v \in Uploads : up'[v].name = up[v].name /\ up'[v].len = up[v].len
    BY <2>2, <2>3 DEF n
  <2>5. VideoType' /\ VideosWhole'
    BY <1>1, <2>1, <2>2, <2>4, WholeFrame DEF VideoInv, VideoType
  <2>6. HandlesInv' /\ PartInv'
    BY <2>1, <2>2, <2>3 DEF VideoInv, HandlesInv, PartInv, Busy
  <2>7. QED
    BY <2>5, <2>6 DEF VideoInv
<1>4. CASE Finish(u) /\ part[n] # NoFile
  <2>1. /\ up[u].pos = up[u].len /\ UNCHANGED shared
        /\ video' = [video EXCEPT ![n] = part[n]] /\ part' = [part EXCEPT ![n] = NoFile]
        /\ up' = [Moved(n, "video") EXCEPT ![u].step = "done"]
    BY <1>4 DEF Finish
  <2> HIDE DEF n
  <2>2. part[n] \in Content
    BY <1>1, <1>4 DEF VideoType
  <2>3. video'[n] = part[n] /\ \A m \in Names \ {n} : video'[m] = video[m]
    BY <1>1, <2>1 DEF VideoType
  <2>4. video' \in [Names -> Content \cup {NoFile}]
    BY <1>1, <2>1, <2>2 DEF VideoType
  <2>5. /\ VideoType' /\ HandlesInv' /\ PartInv'
        /\ \A v \in Uploads : up'[v].name = up[v].name /\ up'[v].len = up[v].len
    BY <1>1, <2>1, <2>2, <2>3, <2>4, GoneStep DEF n
  <2>6. n \notin shared => part[n] = Whole(u, up[u].len)
    BY <1>1, <2>1 DEF VideoInv, PartInv, n
  <2>7. VideosWhole'
    <3> SUFFICES ASSUME NEW m \in Names \ shared', video'[m] # NoFile
                 PROVE  \E v \in Uploads : up'[v].name = m /\ video'[m] = Whole(v, up'[v].len)
      BY DEF VideosWhole
    <3>1. CASE m = n
      BY <2>1, <2>3, <2>5, <2>6, <3>1 DEF n
    <3>2. CASE m # n
      <4>1. video'[m] = video[m] /\ m \in Names \ shared
        BY <2>1, <2>3, <3>2
      <4>2. PICK v \in Uploads : up[v].name = m /\ video[m] = Whole(v, up[v].len)
        BY <4>1 DEF VideoInv, VideosWhole
      <4>3. QED
        BY <2>5, <4>1, <4>2
    <3>3. QED
      BY <3>1, <3>2
  <2>8. QED
    BY <2>5, <2>7 DEF VideoInv
<1>5. QED
  BY <1>2, <1>3, <1>4

LEMMA DeathStep == ASSUME VideoInv, Die PROVE VideoInv'
<1>1. /\ up' = [u \in Uploads |-> IF up[u].step = "write" THEN SetStep(up[u], "done") ELSE up[u]]
      /\ UNCHANGED <<part, video, shared>>
  BY DEF Die, SetStep
<1>2. \A v \in Uploads : up[v] \in UpType
  BY DEF VideoInv, VideoType
<1>3. \A v \in Uploads :
        /\ up'[v] \in UpType /\ up'[v].name = up[v].name /\ up'[v].len = up[v].len
        /\ up'[v].step # "write" /\ (up'[v].step = "idle" => up'[v] = up[v])
  BY <1>1, <1>2, UpFields
<1>4. VideoType'
  BY <1>1, <1>3 DEF VideoInv, VideoType
<1>5. HandlesInv' /\ PartInv'
  BY <1>1, <1>3 DEF VideoInv, HandlesInv, PartInv, Busy
<1>6. VideosWhole'
  BY <1>1, <1>3, WholeFrame DEF VideoInv
<1>7. QED
  BY <1>4, <1>5, <1>6 DEF VideoInv

LEMMA VideoStep == VideoInv /\ [Next]_vars => VideoInv'
<1> SUFFICES ASSUME VideoInv, [Next]_vars PROVE VideoInv'
  OBVIOUS
<1>1. CASE UNCHANGED videoVars \/ UNCHANGED vars
  <2>1. UNCHANGED <<part, video, up, shared>>
    BY <1>1 DEF videoVars, vars
  <2>2. QED
    BY <2>1 DEF VideoInv, VideoType, HandlesInv, PartInv, VideosWhole, Busy
<1>2. CASE \E u \in Uploads : Start(u) \/ WriteChunk(u) \/ TooBig(u) \/ Finish(u)
  BY <1>2, StartStep, WriteStep, EndStep
<1>3. CASE Die
  BY <1>3, DeathStep
<1>4. QED
  BY <1>1, <1>2, <1>3
     DEF Next, SaveOpens, SaveDumps, SaveCloses, EditRules, RulesWritten,
         StartUp, StartRules, ResaveRules, StartServing

LEMMA VideoInit == Init => VideoInv
<1> SUFFICES ASSUME Init PROVE VideoInv
  OBVIOUS
<1> DEFINE First == [step : {"idle"}, name : Names, len : 1..Limit + 1, pos : {0}, to : {"part"}]
<1>1. \A x \in First : x \in UpType /\ x.step = "idle" /\ x.to = "part" /\ x.pos = 0
  BY Lengths DEF UpType
<1>2. up \in [Uploads -> First] /\ shared = {}
      /\ part = [n \in Names |-> NoFile] /\ video = [n \in Names |-> NoFile]
  BY DEF Init
<1> HIDE DEF First
<1>3. VideoType
  BY <1>1, <1>2 DEF VideoType
<1>4. HandlesInv /\ PartInv /\ VideosWhole
  BY <1>1, <1>2 DEF HandlesInv, PartInv, VideosWhole, Busy
<1>5. QED
  BY <1>3, <1>4 DEF VideoInv

\* A video under its name is one upload in full, wherever the portal died and
\* whatever other uploads there were, as long as the name's .part file was never
\* open twice at once (upload).
THEOREM VideosAreWhole == Spec => []VideosWhole
<1>1. VideoInv => VideosWhole
  BY DEF VideoInv
<1>2. QED
  BY <1>1, VideoInit, VideoStep, PTL DEF Spec

----------------------------------------------------------------------------
(* Type correctness.                                                       *)

\* Every variable has its type in every state: no upload writes past the limit,
\* and a state file never holds more than one intent and a rest of another.
THEOREM TypeCorrect == Spec => []TypeOK
<1>1. RulesInv /\ IntentInv /\ VideoInv => TypeOK
  <2> SUFFICES ASSUME RulesInv, IntentInv, VideoInv PROVE TypeOK
    OBVIOUS
  <2>1. rulesFile \in RuleLists \cup {"empty"}
    BY DEF RulesInv
  <2>2. QED
    BY <2>1 DEF RulesInv, Phases, IntentInv, IntentType, VideoInv, VideoType, UpType, TypeOK
<1>2. QED
  BY <1>1, RulesInit, RulesStep, IntentInit, IntentStep, VideoInit, VideoStep, PTL DEF Spec

----------------------------------------------------------------------------
(* The gallery keeps what VideoStore promises.                             *)

Shown  == [n \in Names |-> Listed(n)]
Owners == [u \in Uploads |-> up[u].name]
Ended  == {u \in Uploads : up[u].step = "done"}

\* An upload is known by the first chunk of its file.
LEMMA WholeFirst ==
  ASSUME NEW u, NEW len \in 1..Limit + 1
  PROVE  Whole(u, len)[1] = u /\ Whole(u, len) # NoFile
<1>1. 1 \in 1..Limit /\ 1 <= len
  BY Lengths
<1>2. Whole(u, len)[1] = u
  BY <1>1 DEF Whole
<1>3. DOMAIN Whole(u, len) = 1..Limit /\ DOMAIN NoFile = {}
  BY DEF Whole, NoFile
<1>4. QED
  BY <1>1, <1>2, <1>3

\* Outside the shared names nothing is listed as shared, and nothing is torn.
LEMMA ListedIs ==
  ASSUME VideoInv, NEW n \in Names
  PROVE  /\ Listed(n) = "shared" <=> n \in shared
         /\ \A u \in Uploads : n \notin shared /\ video[n] = Whole(u, up[u].len) => Listed(n) = u
         /\ Listed(n) # "torn"
<1>1. \A u \in Uploads : u \notin {"none", "shared", "torn"}
  BY MediaAssumption DEF MediaAssumption
<1>2. ASSUME NEW u \in Uploads
      PROVE  Whole(u, up[u].len)[1] = u /\ Whole(u, up[u].len) # NoFile
  BY WholeFirst DEF VideoInv, VideoType, UpType
<1>3. n \notin shared /\ video[n] # NoFile =>
        \E u \in Uploads : video[n] = Whole(u, up[u].len)
  BY DEF VideoInv, VideosWhole
<1>4. ASSUME NEW u \in Uploads, n \notin shared, video[n] = Whole(u, up[u].len)
      PROVE  Listed(n) = u
  BY <1>2, <1>4 DEF Listed
<1>5. QED
  BY <1>1, <1>3, <1>4 DEF Listed

LEMMA ListedFrame ==
  ASSUME NEW n, video'[n] = video[n], n \in shared' <=> n \in shared,
         \A v \in Uploads : up'[v].len = up[v].len
  PROVE  Listed(n)' = Listed(n)
  BY DEF Listed

\* Uploads end, at most, and what is listed stays.
LEMMA StoreDrop ==
  ASSUME UNCHANGED shared, \A n \in Names \ shared : video'[n] = video[n],
         \A v \in Uploads :
           /\ up'[v].name = up[v].name /\ up'[v].len = up[v].len
           /\ up[v].step = "done" => up'[v].step = "done"
  PROVE  [Store!Next]_(Store!vars)
<1>1. Shown' = Shown
  <2>1. ASSUME NEW n \in Names PROVE Listed(n)' = Listed(n)
    <3>1. CASE n \in shared
      BY <3>1 DEF Listed
    <3>2. CASE n \notin shared
      BY <3>2, ListedFrame
    <3>3. QED
      BY <3>1, <3>2
  <2>2. QED
    BY <2>1 DEF Shown
<1>2. Owners' = Owners
  BY DEF Owners
<1>3. Ended \subseteq Ended'
  BY DEF Ended
<1>4. CASE Ended' = Ended
  BY <1>1, <1>2, <1>4 DEF Store!vars, Shown, Owners, Ended
<1>5. CASE Ended' # Ended
  BY <1>1, <1>2, <1>3, <1>5 DEF Store!Next, Store!Drop, Shown, Owners, Ended
<1>6. QED
  BY <1>4, <1>5

LEMMA StoreStart ==
  ASSUME VideoInv, VideoInv', NEW u \in Uploads, NEW n \in Names, up[u].name = n, Start(u)
  PROVE  [Store!Next]_(Store!vars)
<1>1. /\ up[u] \in UpType /\ up[u].step = "idle" /\ UNCHANGED video
      /\ up' = [up EXCEPT ![u] = SetStep(up[u], "write")]
      /\ shared' = shared \/ shared' = shared \cup {n}
  BY DEF Start, VideoInv, VideoType, UpType, SetStep
<1>2. \A v \in Uploads :
        /\ up'[v].name = up[v].name /\ up'[v].len = up[v].len
        /\ up[v].step = "done" <=> up'[v].step = "done"
  BY <1>1, UpFields DEF VideoInv, VideoType
<1>3. CASE shared' = shared
  BY <1>1, <1>2, <1>3, StoreDrop
<1>4. CASE shared' = shared \cup {n} /\ n \notin shared
  <2>1. Owners' = Owners /\ Ended' = Ended
    BY <1>2 DEF Owners, Ended
  <2>2. \A m \in Names \ {n} : Listed(m)' = Listed(m)
    BY <1>1, <1>2, <1>4, ListedFrame
  <2>3. Listed(n) # "shared"
    BY <1>1, <1>4, ListedIs
  <2>4. Listed(n)' = "shared"
    BY <1>4 DEF Listed
  <2>5. Shown' = [Shown EXCEPT ![n] = "shared"] /\ Shown[n] # "shared"
    BY <1>1, <2>2, <2>3, <2>4 DEF Shown
  <2>6. Store!Share(n)
    BY <2>1, <2>5 DEF Store!Share, Shown, Owners, Ended
  <2>7. QED
    BY <1>1, <2>6 DEF Store!Next
<1>5. QED
  BY <1>1, <1>3, <1>4

LEMMA StoreWrite ==
  ASSUME VideoInv, NEW u \in Uploads, WriteChunk(u)
  PROVE  [Store!Next]_(Store!vars)
<1>1. /\ up[u] \in UpType /\ up[u].step = "write" /\ up[u].pos + 1 \in 0..Limit
      /\ up' = [up EXCEPT ![u] = SetPos(up[u], up[u].pos + 1)] /\ UNCHANGED shared
  <2>1. up[u] \in UpType /\ up[u].pos < Limit
    BY DEF WriteChunk, Within, VideoInv, VideoType
  <2>2. up[u].pos + 1 \in 0..Limit
    BY <2>1, Lengths DEF UpType
  <2>3. QED
    BY <2>1, <2>2 DEF WriteChunk, SetPos
<1>2. \A v \in Uploads :
        up'[v].name = up[v].name /\ up'[v].len = up[v].len /\ up'[v].step = up[v].step
  <2>1. up'[u] = SetPos(up[u], up[u].pos + 1) /\ \A v \in Uploads \ {u} : up'[v] = up[v]
    BY <1>1 DEF VideoInv, VideoType
  <2>2. \A p \in 0..Limit : /\ SetPos(up[u], p).name = up[u].name
                            /\ SetPos(up[u], p).len = up[u].len
                            /\ SetPos(up[u], p).step = up[u].step
    BY <1>1, UpFields
  <2>3. QED
    BY <1>1, <2>1, <2>2
<1>3. \A n \in Names \ shared : video'[n] = video[n]
  <2>1. CASE up[u].to # "video"
    BY <2>1 DEF WriteChunk
  <2>2. CASE up[u].to = "video"
    <3>1. up[u].name \in shared
      BY <1>1, <2>2 DEF VideoInv, PartInv, Busy
    <3>2. \A n \in Names \ {up[u].name} : video'[n] = video[n]
      BY <2>2 DEF WriteChunk, VideoInv, VideoType
    <3>3. QED
      BY <3>1, <3>2
  <2>3. QED
    BY <2>1, <2>2
<1>4. QED
  BY <1>1, <1>2, <1>3, StoreDrop

\* The step of u's end, seen by every upload.
LEMMA EndFrame ==
  ASSUME VideoInv, NEW u \in Uploads, NEW n \in Names, up[u].name = n,
         \/ up' = [up EXCEPT ![u].step = "done"]
         \/ \E to \in {"video", "gone"} : up' = [Moved(n, to) EXCEPT ![u].step = "done"]
  PROVE  /\ up'[u].step = "done"
         /\ \A v \in Uploads :
              /\ up'[v].name = up[v].name /\ up'[v].len = up[v].len
              /\ v # u => up'[v].step = up[v].step
<1>1. VideoType
  BY DEF VideoInv
<1>2. PICK f \in [Uploads -> UpType] :
        /\ up' = [f EXCEPT ![u].step = "done"]
        /\ \A v \in Uploads :
             f[v].step = up[v].step /\ f[v].name = up[v].name /\ f[v].len = up[v].len
  <2>1. CASE up' = [up EXCEPT ![u].step = "done"]
    BY <1>1, <2>1 DEF VideoType
  <2>2. CASE \E to \in {"video", "gone"} : up' = [Moved(n, to) EXCEPT ![u].step = "done"]
    <3>1. PICK to \in {"video", "gone"} : up' = [Moved(n, to) EXCEPT ![u].step = "done"]
      BY <2>2
    <3>2. /\ Moved(n, to) \in [Uploads -> UpType]
          /\ \A v \in Uploads :
               /\ Moved(n, to)[v].step = up[v].step /\ Moved(n, to)[v].name = up[v].name
               /\ Moved(n, to)[v].len = up[v].len
      BY <1>1, MovedFields
    <3>3. QED
      BY <3>1, <3>2
  <2>3. QED
    BY <2>1, <2>2
<1>3. up' = [f EXCEPT ![u] = SetStep(f[u], "done")]
  BY <1>2 DEF SetStep
<1>4. up'[u] = SetStep(f[u], "done") /\ \A v \in Uploads \ {u} : up'[v] = f[v]
  BY <1>3
<1>5. QED
  BY <1>2, <1>4, UpFields

LEMMA StoreEnd ==
  ASSUME VideoInv, VideoInv', NEW u \in Uploads, NEW n \in Names, up[u].name = n,
         TooBig(u) \/ Finish(u)
  PROVE  [Store!Next]_(Store!vars)
<1>1. /\ up'[u].step = "done" /\ up[u].step = "write" /\ UNCHANGED shared
      /\ \A v \in Uploads :
           /\ up'[v].name = up[v].name /\ up'[v].len = up[v].len
           /\ v # u => up'[v].step = up[v].step
  BY EndFrame DEF TooBig, Finish
<1>2. CASE \A m \in Names \ shared : video'[m] = video[m]
  BY <1>1, <1>2, StoreDrop
<1>3. CASE n \notin shared /\ up[u].pos = up[u].len /\ video' = [video EXCEPT ![n] = part[n]]
  <2>1. part[n] = Whole(u, up[u].len)
    BY <1>1, <1>3 DEF VideoInv, PartInv, Busy
  <2>2. video'[n] = Whole(u, up'[u].len) /\ \A m \in Names \ {n} : video'[m] = video[m]
    BY <1>1, <1>3, <2>1 DEF VideoInv, VideoType
  <2>3. Listed(n)' = u
    <3>1. video'[n][1] = u /\ video'[n] # NoFile
      <4>1. up[u].len \in 1..Limit + 1
        BY DEF VideoInv, VideoType, UpType
      <4>2. QED
        BY <1>1, <2>2, <4>1, WholeFirst
    <3>2. n \notin shared'
      BY <1>1, <1>3
    <3>3. QED
      BY <2>2, <3>1, <3>2 DEF Listed
  <2>4. \A m \in Names \ {n} : Listed(m)' = Listed(m)
    BY <1>1, <2>2, ListedFrame
  <2>5. Shown' = [Shown EXCEPT ![n] = u] /\ Shown[n] # "shared"
    BY <1>3, <2>3, <2>4, ListedIs DEF Shown
  <2>6. Owners' = Owners /\ Owners[u] = n /\ u \notin Ended /\ Ended' = Ended \cup {u}
    BY <1>1 DEF Owners, Ended
  <2>7. Store!Put(u)
    BY <2>5, <2>6 DEF Store!Put, Shown, Owners, Ended
  <2>8. QED
    BY <2>7 DEF Store!Next
<1>4. CASE video' = [video EXCEPT ![n] = part[n]] /\ n \in shared
  BY <1>1, <1>2, <1>4 DEF VideoInv, VideoType
<1>5. QED
  BY <1>2, <1>3, <1>4 DEF TooBig, Finish

LEMMA StoreNext == VideoInv /\ VideoInv' /\ [Next]_vars => [Store!Next]_(Store!vars)
<1> SUFFICES ASSUME VideoInv, VideoInv', [Next]_vars PROVE [Store!Next]_(Store!vars)
  OBVIOUS
<1>1. \A u \in Uploads : up[u] \in UpType /\ up[u].name \in Names
  BY DEF VideoInv, VideoType, UpType
<1>2. CASE UNCHANGED videoVars \/ UNCHANGED vars
  BY <1>2, StoreDrop DEF videoVars, vars
<1>3. CASE \E u \in Uploads : Start(u) \/ WriteChunk(u) \/ TooBig(u) \/ Finish(u)
  BY <1>1, <1>3, StoreStart, StoreWrite, StoreEnd
<1>4. CASE Die
  <2>1. up' = [u \in Uploads |-> IF up[u].step = "write" THEN SetStep(up[u], "done") ELSE up[u]]
        /\ UNCHANGED <<video, shared>>
    BY <1>4 DEF Die, SetStep
  <2>2. \A u \in Uploads :
          /\ up'[u].name = up[u].name /\ up'[u].len = up[u].len
          /\ up[u].step = "done" => up'[u].step = "done"
    BY <1>1, <2>1, UpFields
  <2>3. QED
    BY <2>1, <2>2, StoreDrop
<1>5. QED
  BY <1>2, <1>3, <1>4
     DEF Next, SaveOpens, SaveDumps, SaveCloses, EditRules, RulesWritten,
         StartUp, StartRules, ResaveRules, StartServing

LEMMA StoreInit == Init => Store!Init
<1> SUFFICES ASSUME Init PROVE Store!Init
  OBVIOUS
<1>1. \A n \in Names : Listed(n) = "none"
  BY DEF Init, Listed
<1>2. \A u \in Uploads : up[u].name \in Names /\ up[u].step = "idle"
  BY DEF Init
<1>3. QED
  BY <1>1, <1>2 DEF Store!Init

\* Every behaviour of the media directory, for any names, uploads, sizes and
\* restarts, is one of VideoStore: no listed video is ever lost, torn or
\* replaced by less than a whole upload of its name, except where two uploads
\* shared the name.
THEOREM StoreIsKept == Spec => StoreKept
<1>1. Spec => Store!Init /\ [][Store!Next]_(Store!vars)
  BY StoreInit, StoreNext, VideoInit, VideoStep, PTL DEF Spec
<1>2. QED
  BY <1>1 DEF StoreKept, Store!Spec
=============================================================================
