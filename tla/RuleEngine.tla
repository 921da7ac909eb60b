----------------------------- MODULE RuleEngine -----------------------------
(***************************************************************************)
(* The portal's alert rules (portal/rules.py): the vision loop evaluates   *)
(* zone and count rules on the edge AI's live state, the ask loop puts ask *)
(* rules to the vision-language model, requests edit the rules and the     *)
(* alert list meanwhile.  engine.lock guards the rule list, the alert list *)
(* and the edits of both; the rules' state and the snapshot images are     *)
(* also touched outside it.                                                *)
(*                                                                         *)
(* Time is counted in ticks: a rule's "wait" is what is left of COOLDOWN_S *)
(* since its last_alert, so 0 means that it may fire.                      *)
(***************************************************************************)
EXTENDS Naturals, Sequences, FiniteSets

CONSTANTS
  VisionRules,   \* ids of the zone and count rules
  AskRules,      \* ids of the ask rules
  Ids,           \* alert ids; one that nothing mentions any more stands for a new uuid
  MaxRules,      \* MAX_RULES
  MaxListed,     \* the alert list's maxlen (30 in the code)
  ReleaseChecks, \* RELEASE_CHECKS
  Cooldown,      \* COOLDOWN_S in ticks
  Requests       \* the kinds of request that may come

Rules   == VisionRules \cup AskRules
Threads == {"vision", "ask"}
Other(t) == IF t = "vision" THEN "ask" ELSE "vision"

ASSUME EngineAssumption ==
  /\ VisionRules \cap AskRules = {}
  /\ MaxRules \in Nat \ {0} /\ MaxListed \in Nat \ {0}
  /\ ReleaseChecks \in Nat \ {0} /\ Cooldown \in Nat \ {0}
  /\ Requests \subseteq {"add", "update", "delete", "clear"}

VARIABLES
  mode,      \* each rule: "absent", "on", "off" (enabled or not) or "deleted"
  st,        \* self.state: known is FALSE for a rule without an entry
  alerts,    \* self.alerts, newest first
  snapshots, \* the alert ids self.snapshots has an image for
  scene,     \* the vision rules whose condition the edge AI's state meets now,
             \* none while it is not connected or gets no frames
  pc,        \* the next step of each loop
  todo,      \* the rules a loop has listed and not evaluated in this round
  seen,      \* what the vision loop fetched for this round
  answered,  \* the ask rule being judged and its answer
  flight,    \* the alert each loop is logging, a set of at most one
  quiet,     \* history: ticks left of a rule's cooldown since it really fired,
             \* 0 once a request has taken its state away
  falses     \* history: how often in a row a rule was last found false

Rec   == [known : BOOLEAN, active : BOOLEAN, clear : 0..ReleaseChecks, wait : 0..Cooldown]
Fresh == [known |-> FALSE, active |-> FALSE, clear |-> 0, wait |-> 0]
Alert == [id : Ids, snap : BOOLEAN]
Fire  == [id : Ids, rule : Rules, snap : BOOLEAN]
Labels == {"idle", "eval", "answer", "judge", "snap", "log", "dead"}

vars == <<mode, st, alerts, snapshots, scene, pc, todo, seen, answered, flight,
          quiet, falses>>
loopVars == <<pc, todo, seen, answered, flight>>
logVars  == <<alerts, snapshots>>
evalVars == <<st, quiet, falses>>

TypeOK ==
  /\ mode \in [Rules -> {"absent", "on", "off", "deleted"}]
  /\ st \in [Rules -> Rec]
  /\ alerts \in Seq(Alert) /\ Len(alerts) <= MaxListed
  /\ snapshots \subseteq Ids
  /\ scene \subseteq VisionRules
  /\ pc \in [Threads -> Labels]
  /\ todo \in [Threads -> SUBSET Rules]
  /\ seen \subseteq VisionRules
  /\ answered \subseteq [rule : AskRules, yes : BOOLEAN]
  /\ flight \in [Threads -> SUBSET Fire]
  /\ quiet \in [Rules -> 0..Cooldown]
  /\ falses \in [Rules -> 0..ReleaseChecks]

\* The rules that self.rules lists.
Present == {r \in Rules : mode[r] \in {"on", "off"}}

\* The rules read from the file the engine saved, and nothing else.
Init ==
  /\ mode \in [Rules -> {"absent", "on", "off"}] /\ Cardinality(Present) <= MaxRules
  /\ st = [r \in Rules |-> Fresh]
  /\ alerts = <<>> /\ snapshots = {}
  /\ scene = {}
  /\ pc = [t \in Threads |-> "idle"] /\ todo = [t \in Threads |-> {}]
  /\ seen = {} /\ answered = {} /\ flight = [t \in Threads |-> {}]
  /\ quiet = [r \in Rules |-> 0] /\ falses = [r \in Rules |-> 0]

Go(t, label) == pc' = [pc EXCEPT ![t] = label]
Listed(list) == {list[i].id : i \in 1..Len(list)}
InFlight     == UNION {{a.id : a \in flight[t]} : t \in Threads}

----------------------------------------------------------------------------
(* Requests, each under engine.lock.                                       *)

Add(r, enabled) ==
  /\ "add" \in Requests
  /\ mode[r] = "absent" /\ Cardinality(Present) < MaxRules
  /\ mode' = [mode EXCEPT ![r] = IF enabled THEN "on" ELSE "off"]
  /\ UNCHANGED <<logVars, evalVars, loopVars, scene>>

\* A rule that is disabled forgets its state; one that is enabled keeps what it has.
Update(r, enabled) ==
  /\ "update" \in Requests /\ r \in Present
  /\ mode' = [mode EXCEPT ![r] = IF enabled THEN "on" ELSE "off"]
  /\ st' = IF enabled THEN st ELSE [st EXCEPT ![r] = Fresh]
  /\ quiet' = IF enabled THEN quiet ELSE [quiet EXCEPT ![r] = 0]
  /\ UNCHANGED <<logVars, falses, loopVars, scene>>

Delete(r) ==
  /\ "delete" \in Requests /\ r \in Present
  /\ mode' = [mode EXCEPT ![r] = "deleted"]
  /\ st' = [st EXCEPT ![r] = Fresh]
  /\ quiet' = [quiet EXCEPT ![r] = 0]
  /\ UNCHANGED <<logVars, falses, loopVars, scene>>

ClearAlerts ==
  /\ "clear" \in Requests
  /\ alerts' = <<>> /\ snapshots' = {}
  /\ UNCHANGED <<mode, evalVars, loopVars, scene>>

Request ==
  \/ \E r \in Rules, e \in BOOLEAN : Add(r, e) \/ Update(r, e)
  \/ \E r \in Rules : Delete(r)
  \/ ClearAlerts

----------------------------------------------------------------------------
(* _set: one evaluation of a rule's condition.                             *)

\* Mutant: a true condition does not restart the count of false ones.
KeepClear(s, cond) ==
  IF cond THEN [s EXCEPT !.known = TRUE, !.active = TRUE,
                         !.wait = IF ~s.active /\ s.wait = 0 THEN Cooldown ELSE s.wait]
  ELSE IF s.active THEN [s EXCEPT !.clear = s.clear + 1, !.active = s.clear + 1 < ReleaseChecks]
  ELSE [s EXCEPT !.known = TRUE]

\* Mutant: last_alert is not written.
NoCooldown(s, cond) ==
  IF cond THEN [s EXCEPT !.known = TRUE, !.active = TRUE, !.clear = 0]
  ELSE IF s.active THEN [s EXCEPT !.clear = s.clear + 1, !.active = s.clear + 1 < ReleaseChecks]
  ELSE [s EXCEPT !.known = TRUE]

\* Mutant: the release takes one check more.
ReleaseLate(s, cond) ==
  IF cond THEN [s EXCEPT !.known = TRUE, !.active = TRUE, !.clear = 0,
                         !.wait = IF ~s.active /\ s.wait = 0 THEN Cooldown ELSE s.wait]
  ELSE IF s.active /\ s.clear < ReleaseChecks THEN [s EXCEPT !.clear = s.clear + 1]
  ELSE [s EXCEPT !.known = TRUE, !.active = FALSE]

Evaluated(s, cond) ==
  IF cond THEN [s EXCEPT !.known = TRUE, !.active = TRUE, !.clear = 0,
                         !.wait = IF ~s.active /\ s.wait = 0 THEN Cooldown ELSE s.wait]
  ELSE IF s.active THEN [s EXCEPT !.clear = s.clear + 1, !.active = s.clear + 1 < ReleaseChecks]
  ELSE [s EXCEPT !.known = TRUE]

Fires(s, cond) == cond /\ ~s.active /\ s.wait = 0

\* Thread t evaluates r from the entry s and, if it fires, takes a new alert id.
Evaluate(t, r, s, cond) ==
  /\ st' = [st EXCEPT ![r] = Evaluated(s, cond)]
  /\ falses' = [falses EXCEPT ![r] = IF cond THEN 0
                  ELSE IF @ < ReleaseChecks THEN @ + 1 ELSE @]
  /\ IF Fires(s, cond)
     THEN /\ \E i \in Ids \ (Listed(alerts) \cup InFlight \cup snapshots) :
               flight' = [flight EXCEPT ![t] = {[id |-> i, rule |-> r, snap |-> FALSE]}]
          /\ quiet' = [quiet EXCEPT ![r] = Cooldown]
          /\ Go(t, "snap")
     ELSE UNCHANGED <<flight, quiet>> /\ Go(t, "eval")

----------------------------------------------------------------------------
(* The vision loop.                                                        *)

\* Mutant: a round without a live stream is skipped.
RoundSkipped ==
  /\ pc["vision"] = "idle" /\ scene # {} /\ Go("vision", "eval")
  /\ seen' = scene
  /\ todo' = [todo EXCEPT !["vision"] = {r \in VisionRules : mode[r] = "on"}]
  /\ UNCHANGED <<mode, evalVars, logVars, scene, answered, flight>>

\* Fetch the edge AI's state and list the enabled rules; without a live stream
\* every condition counts as false.
VisionRound ==
  /\ pc["vision"] = "idle" /\ Go("vision", "eval")
  /\ seen' = scene
  /\ todo' = [todo EXCEPT !["vision"] = {r \in VisionRules : mode[r] = "on"}]
  /\ UNCHANGED <<mode, evalVars, logVars, scene, answered, flight>>

VisionEval(r) ==
  /\ pc["vision"] = "eval" /\ r \in todo["vision"]
  /\ todo' = [todo EXCEPT !["vision"] = @ \ {r}]
  /\ Evaluate("vision", r, st[r], r \in seen)
  /\ UNCHANGED <<mode, logVars, scene, seen, answered>>

----------------------------------------------------------------------------
(* The ask loop.                                                           *)

\* List the enabled rules and keep those whose interval is over.
AskRound ==
  /\ pc["ask"] = "idle" /\ Go("ask", "eval")
  /\ \E due \in SUBSET {r \in AskRules : mode[r] = "on"} : todo' = [todo EXCEPT !["ask"] = due]
  /\ UNCHANGED <<mode, evalVars, logVars, scene, seen, answered, flight>>

\* The model's answer is anything; an error of the call skips the rule.
AskModel(r) ==
  /\ pc["ask"] = "eval" /\ r \in todo["ask"]
  /\ todo' = [todo EXCEPT !["ask"] = @ \ {r}]
  /\ \/ \E yes \in BOOLEAN : answered' = {[rule |-> r, yes |-> yes]} /\ Go("ask", "answer")
     \/ UNCHANGED <<answered, pc>>
  /\ UNCHANGED <<mode, evalVars, logVars, scene, seen, flight>>

\* Under the lock: the entry is made if need be, the answer kept.
AskAnswer ==
  /\ pc["ask"] = "answer" /\ Go("ask", "judge")
  /\ \E a \in answered : st' = [st EXCEPT ![a.rule].known = TRUE]
  /\ UNCHANGED <<mode, quiet, falses, logVars, scene, todo, seen, answered, flight>>

\* One "no" is enough to release an ask rule.
Judged(s, yes) == IF ~yes /\ s.active THEN [s EXCEPT !.clear = ReleaseChecks - 1] ELSE s

\* Outside the lock: an entry that a request has removed since is a KeyError,
\* which nothing in the loop catches, and the thread is gone.
AskJudge ==
  /\ pc["ask"] = "judge"
  /\ \E a \in answered :
       IF st[a.rule].known
       THEN Evaluate("ask", a.rule, Judged(st[a.rule], a.yes), a.yes)
       ELSE Go("ask", "dead") /\ UNCHANGED <<evalVars, flight>>
  /\ answered' = {}
  /\ UNCHANGED <<mode, logVars, scene, todo, seen>>

EndRound(t) ==
  /\ pc[t] = "eval" /\ todo[t] = {} /\ Go(t, "idle")
  /\ UNCHANGED <<mode, evalVars, logVars, scene, todo, seen, answered, flight>>

----------------------------------------------------------------------------
(* _fire, by either loop.                                                  *)

\* The image is fetched and stored without the lock, or the fetch fails.
Snap(t) ==
  /\ pc[t] = "snap" /\ Go(t, "log")
  /\ \E got \in BOOLEAN :
       /\ flight' = [flight EXCEPT ![t] = {[a EXCEPT !.snap = got] : a \in @}]
       /\ snapshots' = IF got THEN snapshots \cup {a.id : a \in flight[t]} ELSE snapshots
  /\ UNCHANGED <<mode, evalVars, alerts, scene, todo, seen, answered>>

\* Mutant: the list has no maxlen.
Unbounded(a) == <<[id |-> a.id, snap |-> a.snap]>> \o alerts

\* deque(maxlen).appendleft: the oldest alert falls off the end.
Prepended(a) ==
  SubSeq(<<[id |-> a.id, snap |-> a.snap]>> \o alerts,
         1, IF Len(alerts) < MaxListed THEN Len(alerts) + 1 ELSE MaxListed)

\* Mutant: the images of alerts that fell off the list are kept.
KeepAll(list) == snapshots

\* The images of alerts that are no longer listed go.
Purged(list) == snapshots \cap Listed(list)

Log(t) ==
  /\ pc[t] = "log" /\ Go(t, "eval")
  /\ \E a \in flight[t] : alerts' = Prepended(a) /\ snapshots' = Purged(Prepended(a))
  /\ flight' = [flight EXCEPT ![t] = {}]
  /\ UNCHANGED <<mode, evalVars, scene, todo, seen, answered>>

\* The other loop stores its image while this one walks self.snapshots under a
\* lock that does not cover the store: RuntimeError, before anything is purged.
\* The vision loop gives up its round, the ask loop is gone.
LogRaces(t) ==
  /\ pc[t] = "log"
  /\ \E a \in flight[t] : alerts' = Prepended(a)
  /\ pc[Other(t)] = "snap"
  /\ snapshots' = snapshots \cup {a.id : a \in flight[Other(t)]}
  /\ flight' = [u \in Threads |-> IF u = t THEN {} ELSE {[a EXCEPT !.snap = TRUE] : a \in flight[u]}]
  /\ pc' = [u \in Threads |-> IF u # t THEN "log" ELSE IF t = "vision" THEN "idle" ELSE "dead"]
  /\ todo' = [todo EXCEPT ![t] = {}]
  /\ UNCHANGED <<mode, evalVars, scene, seen, answered>>

----------------------------------------------------------------------------
Tick ==
  /\ \E r \in Rules : st[r].wait > 0 \/ quiet[r] > 0
  /\ st' = [r \in Rules |-> [st[r] EXCEPT !.wait = IF @ > 0 THEN @ - 1 ELSE 0]]
  /\ quiet' = [r \in Rules |-> IF quiet[r] > 0 THEN quiet[r] - 1 ELSE 0]
  /\ UNCHANGED <<mode, falses, logVars, loopVars, scene>>

\* What the camera shows, or the stream comes or goes.
SceneChanges ==
  /\ \E s \in SUBSET VisionRules : s # scene /\ scene' = s
  /\ UNCHANGED <<mode, evalVars, logVars, loopVars>>

VisionStep ==
  \/ VisionRound \/ (\E r \in VisionRules : VisionEval(r)) \/ EndRound("vision")
  \/ Snap("vision") \/ Log("vision") \/ LogRaces("vision")

AskStep ==
  \/ AskRound \/ (\E r \in AskRules : AskModel(r)) \/ AskAnswer \/ AskJudge \/ EndRound("ask")
  \/ Snap("ask") \/ Log("ask") \/ LogRaces("ask")

Next == Request \/ VisionStep \/ AskStep \/ Tick \/ SceneChanges

\* The two threads run; nobody has to edit a rule or walk into the picture.
Spec == Init /\ [][Next]_vars /\ WF_vars(VisionStep) /\ WF_vars(AskStep)

----------------------------------------------------------------------------
(* Properties.                                                             *)

\* Images do not pile up: whenever no alert is just being logged, each stored
\* image belongs to a listed alert, whatever was cleared, dropped off the list
\* or interrupted by the other loop meanwhile (_fire).
SnapshotsListed == (\A t \in Threads : pc[t] # "log") => snapshots \subseteq Listed(alerts)

\* A vision rule stays active until its condition has been false for
\* RELEASE_CHECKS evaluations in a row (the module's docstring), unless a
\* request takes its state away.
StaysActive ==
  [][\A r \in VisionRules :
       st[r].active /\ ~st'[r].active /\ st'[r].known => falses'[r] = ReleaseChecks]_vars

\* And no longer: an active vision rule was found true within its last
\* RELEASE_CHECKS evaluations, whatever requests and rounds cut short came
\* between them (_set).
ReleasedInTime == \A r \in VisionRules : st[r].active => falses[r] < ReleaseChecks

\* Never fires again within COOLDOWN_S (the module's docstring), unless a
\* request has disabled or deleted the rule meanwhile.
CooldownRespected ==
  [][\A t \in Threads : pc[t] # "snap" /\ pc'[t] = "snap"
       => \A a \in flight'[t] : quiet[a.rule] = 0]_vars
=============================================================================
