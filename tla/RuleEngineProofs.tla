-------------------------- MODULE RuleEngineProofs --------------------------
(***************************************************************************)
(* Theorems about RuleEngine, for every set of rules and alert ids, every  *)
(* list length, release count and cooldown.                                *)
(***************************************************************************)
EXTENDS RuleEngine, SequenceTheorems, TLAPS

----------------------------------------------------------------------------
(* Type correctness, group of variables by group of variables.             *)

EvalOK ==
  /\ st \in [Rules -> Rec]
  /\ quiet \in [Rules -> 0..Cooldown]
  /\ falses \in [Rules -> 0..ReleaseChecks]

LogOK ==
  /\ alerts \in Seq(Alert) /\ Len(alerts) <= MaxListed
  /\ snapshots \subseteq Ids

RoundOK ==
  /\ todo \in [Threads -> SUBSET Rules]
  /\ seen \subseteq VisionRules
  /\ answered \subseteq [rule : AskRules, yes : BOOLEAN]

PcOK     == pc \in [Threads -> Labels]
FlightOK == flight \in [Threads -> SUBSET Fire]
ModeOK   == mode \in [Rules -> {"absent", "on", "off", "deleted"}]
SceneOK  == scene \subseteq VisionRules
roundVars == <<todo, seen, answered>>

\* A rule counts no more false evaluations than RELEASE_CHECKS allows it
\* while it is active: what keeps "clear" within its type.
ClearInv == \A r \in Rules : st[r].active => st[r].clear < ReleaseChecks

TypeInv == TypeOK /\ ClearInv

LEMMA TypeGroups ==
  /\ TypeOK <=> EvalOK /\ LogOK /\ RoundOK /\ PcOK /\ FlightOK /\ ModeOK /\ SceneOK
  /\ TypeOK' <=> EvalOK' /\ LogOK' /\ RoundOK' /\ PcOK' /\ FlightOK' /\ ModeOK' /\ SceneOK'
  BY DEF TypeOK, EvalOK, LogOK, RoundOK, PcOK, FlightOK, ModeOK, SceneOK

LEMMA Frames ==
  /\ EvalOK /\ ClearInv /\ UNCHANGED evalVars => EvalOK' /\ ClearInv'
  /\ LogOK /\ UNCHANGED logVars => LogOK'
  /\ RoundOK /\ UNCHANGED roundVars => RoundOK'
  /\ PcOK /\ UNCHANGED pc => PcOK'
  /\ FlightOK /\ UNCHANGED flight => FlightOK'
  /\ ModeOK /\ UNCHANGED mode => ModeOK'
  /\ SceneOK /\ UNCHANGED scene => SceneOK'
  BY DEF EvalOK, ClearInv, LogOK, RoundOK, PcOK, FlightOK, ModeOK, SceneOK,
         evalVars, logVars, roundVars

LEMMA GoType ==
  ASSUME PcOK, NEW t \in Threads, NEW l \in Labels, Go(t, l)
  PROVE  PcOK'
  BY DEF PcOK, Go

LEMMA FreshType == Fresh \in Rec /\ ~Fresh.active
  BY EngineAssumption DEF EngineAssumption, Fresh, Rec

\* A rule without an entry.
LEMMA ForgetType ==
  ASSUME EvalOK, ClearInv, NEW r \in Rules, st' = [st EXCEPT ![r] = Fresh],
         quiet' = [quiet EXCEPT ![r] = 0], UNCHANGED falses
  PROVE  EvalOK' /\ ClearInv'
<1>1. st' \in [Rules -> Rec]
  BY FreshType DEF EvalOK
<1>2. \A q \in Rules : st'[q] = IF q = r THEN Fresh ELSE st[q]
  BY DEF EvalOK
<1>3. ClearInv'
  BY <1>2, FreshType DEF ClearInv
<1>4. quiet' \in [Rules -> 0..Cooldown]
  BY EngineAssumption DEF EngineAssumption, EvalOK
<1>5. QED
  BY <1>1, <1>3, <1>4 DEF EvalOK

LEMMA EvaluatedType ==
  ASSUME NEW s \in Rec, NEW cond \in BOOLEAN, s.active => s.clear < ReleaseChecks
  PROVE  /\ Evaluated(s, cond) \in Rec
         /\ Evaluated(s, cond).active => Evaluated(s, cond).clear < ReleaseChecks
<1>1. CASE cond
  <2> DEFINE w == IF ~s.active /\ s.wait = 0 THEN Cooldown ELSE s.wait
  <2>1. w \in 0..Cooldown
    BY EngineAssumption DEF EngineAssumption, Rec
  <2>2. Evaluated(s, cond) = [s EXCEPT !.known = TRUE, !.active = TRUE, !.clear = 0, !.wait = w]
    BY <1>1 DEF Evaluated
  <2>3. 0 \in 0..ReleaseChecks /\ 0 < ReleaseChecks
    BY EngineAssumption DEF EngineAssumption
  <2> HIDE DEF w
  <2>4. QED
    BY <2>1, <2>2, <2>3 DEF Rec
<1>2. CASE ~cond /\ s.active
  <2> DEFINE c == s.clear + 1
             a == s.clear + 1 < ReleaseChecks
  <2>1. c \in 0..ReleaseChecks /\ a \in BOOLEAN /\ (a => c < ReleaseChecks)
    BY <1>2, EngineAssumption DEF EngineAssumption, Rec
  <2>2. Evaluated(s, cond) = [s EXCEPT !.clear = c, !.active = a]
    BY <1>2 DEF Evaluated
  <2> HIDE DEF c, a
  <2>3. QED
    BY <2>1, <2>2 DEF Rec
<1>3. CASE ~cond /\ ~s.active
  BY <1>3 DEF Rec, Evaluated
<1>4. QED
  BY <1>1, <1>2, <1>3

LEMMA EvaluateType ==
  ASSUME EvalOK, ClearInv, FlightOK, PcOK, NEW t \in Threads, NEW r \in Rules, NEW s \in Rec,
         NEW cond \in BOOLEAN, s.active => s.clear < ReleaseChecks, Evaluate(t, r, s, cond)
  PROVE  EvalOK' /\ ClearInv' /\ FlightOK' /\ PcOK'
<1>1. st' \in [Rules -> Rec] /\ ClearInv'
  <2>1. \A q \in Rules : st'[q] = IF q = r THEN Evaluated(s, cond) ELSE st[q]
    BY DEF Evaluate, EvalOK
  <2>2. ClearInv'
    BY <2>1, EvaluatedType DEF ClearInv
  <2>3. st' \in [Rules -> Rec]
    BY EvaluatedType DEF Evaluate, EvalOK
  <2>4. QED
    BY <2>2, <2>3
<1>2. falses' \in [Rules -> 0..ReleaseChecks]
  BY EngineAssumption DEF EngineAssumption, Evaluate, EvalOK
<1>3. CASE Fires(s, cond)
  <2>1. quiet' \in [Rules -> 0..Cooldown]
    BY <1>3, EngineAssumption DEF EngineAssumption, Evaluate, EvalOK
  <2>2. PICK i \in Ids : flight' = [flight EXCEPT ![t] = {[id |-> i, rule |-> r, snap |-> FALSE]}]
    BY <1>3 DEF Evaluate
  <2>3. [id |-> i, rule |-> r, snap |-> FALSE] \in Fire
    BY DEF Fire
  <2>4. FlightOK'
    BY <2>2, <2>3 DEF FlightOK
  <2>5. PcOK'
    BY <1>3, GoType DEF Evaluate, Labels
  <2>6. QED
    BY <1>1, <1>2, <2>1, <2>4, <2>5 DEF EvalOK
<1>4. CASE ~Fires(s, cond)
  <2>1. UNCHANGED <<flight, quiet>> /\ PcOK'
    BY <1>4, GoType DEF Evaluate, Labels
  <2>2. QED
    BY <1>1, <1>2, <2>1, Frames DEF EvalOK
<1>5. QED
  BY <1>3, <1>4

\* The alert list stays a list of alerts within its length.
LEMMA PrependedType ==
  ASSUME LogOK, NEW a \in Fire
  PROVE  Prepended(a) \in Seq(Alert) /\ Len(Prepended(a)) <= MaxListed
<1> DEFINE x == [id |-> a.id, snap |-> a.snap]
           s == <<x>> \o alerts
           n == IF Len(alerts) < MaxListed THEN Len(alerts) + 1 ELSE MaxListed
<1>1. x \in Alert
  BY DEF Fire, Alert
<1>2. s \in Seq(Alert) /\ Len(s) = Len(alerts) + 1
  BY <1>1 DEF LogOK
<1>3. n \in Nat /\ 1 <= n /\ n <= Len(s) /\ n <= MaxListed
  BY <1>2, EngineAssumption DEF EngineAssumption, LogOK
<1>4. \A i \in 1..n : s[i] \in Alert
  BY <1>2, <1>3
<1> HIDE DEF s, n
<1>5. SubSeq(s, 1, n) \in Seq(Alert) /\ Len(SubSeq(s, 1, n)) = n
  BY <1>3, <1>4, SubSeqProperties
<1>6. QED
  BY <1>3, <1>5 DEF s, n, Prepended

LEMMA TypeInit == Init => TypeInv
<1> SUFFICES ASSUME Init PROVE TypeInv
  OBVIOUS
<1> USE EngineAssumption DEF EngineAssumption, Init
<1>1. EvalOK /\ ClearInv
  BY FreshType DEF EvalOK, ClearInv
<1>2. LogOK /\ RoundOK
  BY DEF LogOK, RoundOK
<1>3. PcOK /\ FlightOK /\ ModeOK /\ SceneOK
  BY DEF PcOK, Labels, FlightOK, ModeOK, SceneOK
<1>4. QED
  BY <1>1, <1>2, <1>3, TypeGroups DEF TypeInv

LEMMA RequestType == TypeInv /\ Request => TypeInv'
<1> SUFFICES ASSUME TypeInv, Request PROVE TypeInv'
  OBVIOUS
<1>0. TypeOK /\ ClearInv
  BY DEF TypeInv
<1> USE <1>0, TypeGroups
<1>1. ASSUME NEW r \in Rules, NEW e \in BOOLEAN, Add(r, e) PROVE TypeInv'
  <2>1. ModeOK'
    BY <1>1 DEF Add, ModeOK
  <2>2. QED
    BY <1>1, <2>1, Frames DEF Add, TypeInv, loopVars, roundVars, evalVars
<1>2. ASSUME NEW r \in Rules, NEW e \in BOOLEAN, Update(r, e) PROVE TypeInv'
  <2>1. ModeOK'
    BY <1>2 DEF Update, ModeOK
  <2>2. CASE e
    BY <1>2, <2>1, <2>2, Frames DEF Update, TypeInv, loopVars, roundVars, evalVars
  <2>3. CASE ~e
    BY <1>2, <2>1, <2>3, Frames, ForgetType DEF Update, TypeInv, loopVars, roundVars
  <2>4. QED
    BY <2>2, <2>3
<1>3. ASSUME NEW r \in Rules, Delete(r) PROVE TypeInv'
  <2>1. ModeOK'
    BY <1>3 DEF Delete, ModeOK
  <2>2. QED
    BY <1>3, <2>1, Frames, ForgetType DEF Delete, TypeInv, loopVars, roundVars
<1>4. CASE ClearAlerts
  <2>1. LogOK'
    BY <1>4, EngineAssumption DEF EngineAssumption, ClearAlerts, LogOK
  <2>2. QED
    BY <1>4, <2>1, Frames DEF ClearAlerts, TypeInv, loopVars, roundVars
<1>5. QED
  BY <1>1, <1>2, <1>3, <1>4 DEF Request

\* The steps both loops take: the end of a round and the three of _fire.
LEMMA LogStepType ==
  ASSUME TypeInv, NEW t \in Threads, EndRound(t) \/ Snap(t) \/ Log(t) \/ LogRaces(t)
  PROVE  TypeInv'
<1>0. TypeOK /\ ClearInv
  BY DEF TypeInv
<1> USE <1>0, TypeGroups
<1>1. CASE EndRound(t)
  <2>1. PcOK'
    BY <1>1, GoType DEF EndRound, Labels
  <2>2. QED
    BY <1>1, <2>1, Frames DEF EndRound, TypeInv, roundVars
<1>2. CASE Snap(t)
  <2>1. PcOK'
    BY <1>2, GoType DEF Snap, Labels
  <2>2. PICK got \in BOOLEAN :
           /\ flight' = [flight EXCEPT ![t] = {[a EXCEPT !.snap = got] : a \in @}]
           /\ snapshots' = IF got THEN snapshots \cup {a.id : a \in flight[t]} ELSE snapshots
    BY <1>2 DEF Snap
  <2>3. \A a \in Fire : [a EXCEPT !.snap = got] \in Fire /\ a.id \in Ids
    BY DEF Fire
  <2>4. FlightOK'
    BY <2>2, <2>3 DEF FlightOK
  <2>5. LogOK'
    BY <1>2, <2>2, <2>3 DEF Snap, LogOK, FlightOK
  <2>6. QED
    BY <1>2, <2>1, <2>4, <2>5, Frames DEF Snap, TypeInv, roundVars
<1>3. CASE Log(t)
  <2>1. PcOK'
    BY <1>3, GoType DEF Log, Labels
  <2>2. FlightOK'
    BY <1>3 DEF Log, FlightOK
  <2>3. LogOK'
    BY <1>3, PrependedType DEF Log, Purged, LogOK, FlightOK
  <2>4. QED
    BY <1>3, <2>1, <2>2, <2>3, Frames DEF Log, TypeInv, roundVars
<1>4. CASE LogRaces(t)
  <2>1. PcOK' /\ Other(t) \in Threads
    BY <1>4 DEF LogRaces, PcOK, Labels, Other, Threads
  <2>2. \A a \in Fire : [a EXCEPT !.snap = TRUE] \in Fire /\ a.id \in Ids
    BY DEF Fire
  <2>3. FlightOK'
    BY <1>4, <2>2 DEF LogRaces, FlightOK
  <2>4. LogOK'
    BY <1>4, <2>1, <2>2, PrependedType DEF LogRaces, LogOK, FlightOK
  <2>5. RoundOK'
    BY <1>4 DEF LogRaces, RoundOK
  <2>6. QED
    BY <1>4, <2>1, <2>3, <2>4, <2>5, Frames DEF LogRaces, TypeInv
<1>5. QED
  BY <1>1, <1>2, <1>3, <1>4

LEMMA VisionType == TypeInv /\ VisionStep => TypeInv'
<1> SUFFICES ASSUME TypeInv, VisionStep PROVE TypeInv'
  OBVIOUS
<1>0. TypeOK /\ ClearInv
  BY DEF TypeInv
<1> USE <1>0, TypeGroups
<1>1. CASE VisionRound
  <2>1. PcOK'
    BY <1>1, GoType DEF VisionRound, Labels, Threads
  <2>2. RoundOK'
    BY <1>1 DEF VisionRound, RoundOK, Rules, SceneOK
  <2>3. QED
    BY <1>1, <2>1, <2>2, Frames DEF VisionRound, TypeInv
<1>2. ASSUME NEW r \in VisionRules, VisionEval(r) PROVE TypeInv'
  <2>1. r \in Rules /\ st[r] \in Rec /\ "vision" \in Threads /\ (r \in seen) \in BOOLEAN
    BY DEF Rules, EvalOK, Threads
  <2>2. st[r].active => st[r].clear < ReleaseChecks
    BY <2>1 DEF ClearInv
  <2>3. EvalOK' /\ ClearInv' /\ FlightOK' /\ PcOK'
    BY <1>2, <2>1, <2>2, EvaluateType DEF VisionEval
  <2>4. RoundOK'
    BY <1>2 DEF VisionEval, RoundOK
  <2>5. QED
    BY <1>2, <2>3, <2>4, Frames DEF VisionEval, TypeInv
<1>3. QED
  BY <1>1, <1>2, LogStepType DEF VisionStep, Threads

LEMMA AskType == TypeInv /\ AskStep => TypeInv'
<1> SUFFICES ASSUME TypeInv, AskStep PROVE TypeInv'
  OBVIOUS
<1>0. TypeOK /\ ClearInv
  BY DEF TypeInv
<1> USE <1>0, TypeGroups
<1>1. CASE AskRound
  <2>1. PcOK'
    BY <1>1, GoType DEF AskRound, Labels, Threads
  <2>2. RoundOK'
    BY <1>1 DEF AskRound, RoundOK, Rules
  <2>3. QED
    BY <1>1, <2>1, <2>2, Frames DEF AskRound, TypeInv
<1>2. ASSUME NEW r \in AskRules, AskModel(r) PROVE TypeInv'
  <2>1. PcOK'
    BY <1>2, GoType, Frames DEF AskModel, Labels, Threads
  <2>2. \A yes \in BOOLEAN : [rule |-> r, yes |-> yes] \in [rule : AskRules, yes : BOOLEAN]
    OBVIOUS
  <2>3. RoundOK'
    BY <1>2, <2>2 DEF AskModel, RoundOK
  <2>4. QED
    BY <1>2, <2>1, <2>3, Frames DEF AskModel, TypeInv
<1>3. CASE AskAnswer
  <2>1. PcOK'
    BY <1>3, GoType DEF AskAnswer, Labels, Threads
  <2>2. PICK a \in answered : st' = [st EXCEPT ![a.rule].known = TRUE]
    BY <1>3 DEF AskAnswer
  <2>3. a.rule \in Rules
    BY DEF RoundOK, Rules
  <2>4. [st[a.rule] EXCEPT !.known = TRUE] \in Rec
    BY <2>3 DEF EvalOK, Rec
  <2>5. EvalOK'
    BY <1>3, <2>2, <2>4 DEF AskAnswer, EvalOK
  <2>6. \A r \in Rules : st'[r].active = st[r].active /\ st'[r].clear = st[r].clear
    BY <2>2, <2>3 DEF EvalOK, Rec
  <2>7. QED
    BY <1>3, <2>1, <2>5, <2>6, Frames DEF AskAnswer, TypeInv, roundVars, ClearInv
<1>4. CASE AskJudge
  <2>1. RoundOK'
    BY <1>4 DEF AskJudge, RoundOK
  <2>2. PICK a \in answered :
           IF st[a.rule].known
           THEN Evaluate("ask", a.rule, Judged(st[a.rule], a.yes), a.yes)
           ELSE Go("ask", "dead") /\ UNCHANGED <<evalVars, flight>>
    BY <1>4 DEF AskJudge
  <2>3. a.rule \in Rules /\ a.yes \in BOOLEAN /\ "ask" \in Threads
    BY DEF RoundOK, Rules, Threads
  <2> DEFINE s == Judged(st[a.rule], a.yes)
  <2>4. s \in Rec /\ (s.active => s.clear < ReleaseChecks)
    BY <2>3, EngineAssumption DEF EngineAssumption, Judged, EvalOK, ClearInv, Rec
  <2> HIDE DEF s
  <2>5. CASE st[a.rule].known
    <3>1. EvalOK' /\ ClearInv' /\ FlightOK' /\ PcOK'
      BY <2>2, <2>3, <2>4, <2>5, EvaluateType DEF s
    <3>2. QED
      BY <1>4, <2>1, <3>1, Frames DEF AskJudge, TypeInv
  <2>6. CASE ~st[a.rule].known
    <3>1. PcOK' /\ UNCHANGED <<evalVars, flight>>
      BY <2>2, <2>3, <2>6, GoType DEF Labels
    <3>2. QED
      BY <1>4, <2>1, <3>1, Frames DEF AskJudge, TypeInv, evalVars
  <2>7. QED
    BY <2>5, <2>6
<1>5. QED
  BY <1>1, <1>2, <1>3, <1>4, LogStepType DEF AskStep, Threads

LEMMA TickType == TypeInv /\ Tick => TypeInv'
<1> SUFFICES ASSUME TypeInv, Tick PROVE TypeInv'
  OBVIOUS
<1>0. TypeOK /\ ClearInv
  BY DEF TypeInv
<1> USE <1>0, TypeGroups
<1> DEFINE left(n) == IF n > 0 THEN n - 1 ELSE 0
<1>1. \A n \in 0..Cooldown : left(n) \in 0..Cooldown
  BY EngineAssumption DEF EngineAssumption
<1>2. /\ st' = [r \in Rules |-> [st[r] EXCEPT !.wait = left(@)]]
      /\ quiet' = [r \in Rules |-> left(quiet[r])]
      /\ UNCHANGED falses
  BY DEF Tick
<1> HIDE DEF left
<1>3. EvalOK' /\ ClearInv'
  BY <1>1, <1>2 DEF EvalOK, ClearInv, Rec
<1>4. QED
  BY <1>3, Frames DEF Tick, TypeInv, loopVars, roundVars

LEMMA SceneType == TypeInv /\ SceneChanges => TypeInv'
<1> SUFFICES ASSUME TypeInv, SceneChanges PROVE TypeInv'
  OBVIOUS
<1>1. SceneOK'
  BY DEF SceneChanges, SceneOK
<1>2. QED
  BY <1>1, Frames, TypeGroups DEF SceneChanges, TypeInv, loopVars, roundVars

LEMMA TypeStep == TypeInv /\ [Next]_vars => TypeInv'
<1>1. TypeInv /\ UNCHANGED vars => TypeInv'
  BY Frames, TypeGroups DEF vars, TypeInv, roundVars, logVars, evalVars
<1>2. QED
  BY <1>1, RequestType, VisionType, AskType, TickType, SceneType DEF Next

LEMMA TypeAlways == Spec => []TypeInv
  BY TypeInit, TypeStep, PTL DEF Spec

\* Every variable has its type in every state: in particular the alert list
\* never outgrows its maxlen and the release counter never passes
\* RELEASE_CHECKS (rules.py, _set and _fire).
THEOREM TypeCorrect == Spec => []TypeOK
<1>1. TypeInv => TypeOK
  BY DEF TypeInv
<1>2. QED
  BY <1>1, TypeAlways, PTL

----------------------------------------------------------------------------
(* Images do not pile up.                                                  *)

LEMMA SnapshotsStep == TypeInv /\ SnapshotsListed /\ [Next]_vars => SnapshotsListed'
<1> SUFFICES ASSUME TypeInv, SnapshotsListed, [Next]_vars PROVE SnapshotsListed'
  OBVIOUS
<1>0. pc \in [Threads -> Labels] /\ TypeInv'
  BY TypeStep DEF TypeInv, TypeOK
\* A step that touches neither list, and takes no loop out of _fire, keeps it.
<1>1. ASSUME UNCHANGED logVars, \A t \in Threads : pc[t] = "log" => pc'[t] = "log"
      PROVE  SnapshotsListed'
  BY <1>1 DEF SnapshotsListed, logVars, Listed
<1>2. CASE Request
  <2>1. CASE ClearAlerts
    BY <2>1 DEF ClearAlerts, SnapshotsListed
  <2>2. CASE ~ClearAlerts
    BY <1>1, <1>2, <2>2 DEF Request, Add, Update, Delete, loopVars
  <2>3. QED
    BY <2>1, <2>2
<1>3. ASSUME NEW t \in Threads, EndRound(t) \/ Snap(t) \/ Log(t) \/ LogRaces(t)
      PROVE  SnapshotsListed'
  <2>1. CASE EndRound(t)
    BY <1>0, <1>1, <2>1 DEF EndRound, Go
  <2>2. CASE Snap(t)
    BY <1>0, <2>2 DEF Snap, Go, SnapshotsListed
  <2>3. CASE Log(t)
    BY <2>3 DEF Log, Purged, SnapshotsListed
  <2>4. CASE LogRaces(t)
    BY <2>4 DEF LogRaces, SnapshotsListed, Other, Threads
  <2>5. QED
    BY <1>3, <2>1, <2>2, <2>3, <2>4
\* An evaluation moves a loop from outside _fire, and leaves the lists alone.
<1>4. ASSUME NEW t \in Threads, NEW r, NEW s, NEW cond, pc[t] # "log",
             Evaluate(t, r, s, cond), UNCHANGED logVars
      PROVE  SnapshotsListed'
  BY <1>0, <1>1, <1>4 DEF Evaluate, Go
<1>5. CASE VisionStep
  <2>1. CASE VisionRound
    BY <1>0, <1>1, <2>1 DEF VisionRound, Go
  <2>2. ASSUME NEW r \in VisionRules, VisionEval(r) PROVE SnapshotsListed'
    BY <1>4, <2>2 DEF VisionEval, Threads
  <2>3. QED
    BY <1>3, <1>5, <2>1, <2>2 DEF VisionStep, Threads
<1>6. CASE AskStep
  <2>1. CASE AskRound \/ AskAnswer
    BY <1>0, <1>1, <2>1 DEF AskRound, AskAnswer, Go
  <2>2. ASSUME NEW r \in AskRules, AskModel(r) PROVE SnapshotsListed'
    BY <1>0, <1>1, <2>2 DEF AskModel, Go
  <2>3. CASE AskJudge
    <3>1. pc["ask"] = "judge" /\ UNCHANGED logVars
      BY <2>3 DEF AskJudge
    <3>2. PICK a \in answered :
             \/ Evaluate("ask", a.rule, Judged(st[a.rule], a.yes), a.yes)
             \/ Go("ask", "dead")
      BY <2>3 DEF AskJudge
    <3>3. CASE Go("ask", "dead")
      BY <1>0, <1>1, <3>1, <3>3 DEF Go
    <3>4. QED
      BY <1>4, <3>1, <3>2, <3>3 DEF Threads
  <2>4. QED
    BY <1>3, <1>6, <2>1, <2>2, <2>3 DEF AskStep, Threads
<1>7. CASE Tick \/ SceneChanges \/ UNCHANGED vars
  BY <1>1, <1>7 DEF Tick, SceneChanges, vars, loopVars, logVars
<1>8. QED
  BY <1>2, <1>5, <1>6, <1>7 DEF Next

\* Whenever no alert is just being logged, every stored image belongs to a
\* listed alert, however the two loops, and the requests that clear the list,
\* interleave (_fire and clear_alerts).
THEOREM SnapshotsAreListed == Spec => []SnapshotsListed
<1>1. Init => SnapshotsListed
  BY DEF Init, SnapshotsListed
<1>2. QED
  BY <1>1, SnapshotsStep, TypeAlways, PTL DEF Spec

----------------------------------------------------------------------------
(* A vision rule is released by RELEASE_CHECKS false evaluations in a row. *)

\* An active vision rule has counted the false evaluations it has had in a row.
StreakInv == \A r \in VisionRules : st[r].active => st[r].clear = falses[r]

\* How one rule's streak goes on.
StreakKept(r) == st'[r].active => st'[r].clear = falses'[r]
Released(r) ==
  st[r].active /\ ~st'[r].active /\ st'[r].known => falses'[r] = ReleaseChecks

LEMMA StreakEval ==
  ASSUME TypeInv, StreakInv, NEW r \in VisionRules, VisionEval(r), NEW q \in VisionRules
  PROVE  StreakKept(q) /\ Released(q)
<1> DEFINE cond == r \in seen
           f == IF cond THEN 0 ELSE IF falses[r] < ReleaseChecks THEN falses[r] + 1 ELSE falses[r]
<1>1. /\ st[r] \in Rec /\ falses[r] \in 0..ReleaseChecks /\ r \in Rules /\ q \in Rules
      /\ st \in [Rules -> Rec] /\ falses \in [Rules -> 0..ReleaseChecks]
      /\ st[r].active => st[r].clear < ReleaseChecks
  BY DEF TypeInv, TypeOK, ClearInv, Rules
<1>2. st' = [st EXCEPT ![r] = Evaluated(st[r], cond)] /\ falses' = [falses EXCEPT ![r] = f]
  BY DEF VisionEval, Evaluate
<1>3. CASE q # r
  BY <1>1, <1>2, <1>3 DEF StreakKept, Released, StreakInv
<1>4. CASE q = r
  <2>1. st'[q] = Evaluated(st[r], cond) /\ falses'[q] = f
    BY <1>1, <1>2, <1>4
  <2>2. CASE cond
    <3>1. Evaluated(st[r], cond).active /\ Evaluated(st[r], cond).clear = 0
      BY <1>1, <2>2 DEF Evaluated, Rec
    <3>2. QED
      BY <1>4, <2>1, <2>2, <3>1 DEF StreakKept, Released
  <2>3. CASE ~cond /\ st[r].active
    <3> DEFINE c == st[r].clear + 1
               on == st[r].clear + 1 < ReleaseChecks
    <3>1. Evaluated(st[r], cond) = [st[r] EXCEPT !.clear = c, !.active = on]
      BY <2>3 DEF Evaluated
    <3>2. c = f /\ (~on => f = ReleaseChecks) /\ on \in BOOLEAN
      BY <1>1, <2>3, EngineAssumption DEF EngineAssumption, StreakInv, Rec
    <3> HIDE DEF c, on, f
    <3>3. [st[r] EXCEPT !.clear = c, !.active = on].active = on
      BY <1>1, <3>2 DEF Rec
    <3>4. [st[r] EXCEPT !.clear = c, !.active = on].clear = c
      BY <1>1 DEF Rec
    <3>5. QED
      BY <1>4, <2>1, <3>1, <3>2, <3>3, <3>4 DEF StreakKept, Released
  <2>4. CASE ~cond /\ ~st[r].active
    <3>1. ~Evaluated(st[r], cond).active
      BY <1>1, <2>4 DEF Evaluated, Rec
    <3>2. QED
      BY <1>4, <2>1, <2>4, <3>1 DEF StreakKept, Released
  <2>5. QED
    BY <2>2, <2>3, <2>4
<1>5. QED
  BY <1>3, <1>4

\* A step that leaves the counters of q alone, or takes its entry away.
LEMMA StreakFrame ==
  ASSUME StreakInv, NEW q \in VisionRules, falses'[q] = falses[q],
         \/ st'[q] = Fresh
         \/ st'[q].active = st[q].active /\ st'[q].clear = st[q].clear
  PROVE  StreakKept(q) /\ Released(q)
<1>1. CASE st'[q] = Fresh
  <2>1. ~st'[q].active /\ ~st'[q].known
    BY <1>1 DEF Fresh
  <2>2. QED
    BY <2>1 DEF StreakKept, Released
<1>2. CASE st'[q].active = st[q].active /\ st'[q].clear = st[q].clear
  BY <1>2 DEF StreakInv, StreakKept, Released
<1>3. QED
  BY <1>1, <1>2

LEMMA StreakStep ==
  ASSUME TypeInv, StreakInv, [Next]_vars, NEW q \in VisionRules
  PROVE  StreakKept(q) /\ Released(q)
<1>1. /\ st \in [Rules -> Rec] /\ falses \in [Rules -> 0..ReleaseChecks] /\ q \in Rules
      /\ answered \subseteq [rule : AskRules, yes : BOOLEAN] /\ q \notin AskRules
  BY EngineAssumption DEF EngineAssumption, TypeInv, TypeOK, Rules
<1>2. CASE UNCHANGED evalVars
  BY <1>2, StreakFrame DEF evalVars
<1>3. CASE Request
  <2>1. CASE UNCHANGED evalVars
    BY <1>2, <2>1
  <2>2. ASSUME NEW r \in Rules, st' = [st EXCEPT ![r] = Fresh], UNCHANGED falses
        PROVE  StreakKept(q) /\ Released(q)
    BY <1>1, <2>2, StreakFrame
  <2>3. QED
    BY <1>3, <2>1, <2>2 DEF Request, Add, Update, Delete, ClearAlerts, evalVars
<1>4. CASE VisionStep
  <2>1. CASE \E r \in VisionRules : VisionEval(r)
    BY <2>1, StreakEval
  <2>2. CASE UNCHANGED evalVars
    BY <1>2, <2>2
  <2>3. QED
    BY <1>4, <2>1, <2>2 DEF VisionStep, VisionRound, EndRound, Snap, Log, LogRaces
<1>5. CASE AskStep
  <2>1. CASE AskAnswer
    <3>1. PICK a \in answered : st' = [st EXCEPT ![a.rule].known = TRUE] /\ UNCHANGED falses
      BY <2>1 DEF AskAnswer
    <3>2. a.rule # q
      BY <1>1
    <3>3. QED
      BY <1>1, <3>1, <3>2, StreakFrame
  <2>2. CASE AskJudge
    <3>1. PICK a \in answered :
             \/ Evaluate("ask", a.rule, Judged(st[a.rule], a.yes), a.yes)
             \/ UNCHANGED evalVars
      BY <2>2 DEF AskJudge
    <3>2. a.rule # q
      BY <1>1
    <3>3. CASE Evaluate("ask", a.rule, Judged(st[a.rule], a.yes), a.yes)
      <4>1. st'[q] = st[q] /\ falses'[q] = falses[q]
        BY <1>1, <3>2, <3>3 DEF Evaluate
      <4>2. QED
        BY <4>1, StreakFrame
    <3>4. QED
      BY <1>2, <3>1, <3>3
  <2>3. CASE UNCHANGED evalVars
    BY <1>2, <2>3
  <2>4. QED
    BY <1>5, <2>1, <2>2, <2>3 DEF AskStep, AskRound, AskModel, EndRound, Snap, Log, LogRaces
<1>6. CASE Tick
  <2>1. UNCHANGED falses /\ st'[q].active = st[q].active /\ st'[q].clear = st[q].clear
    BY <1>1, <1>6 DEF Tick, Rec
  <2>2. QED
    BY <2>1, StreakFrame
<1>7. CASE SceneChanges \/ UNCHANGED vars
  BY <1>2, <1>7 DEF SceneChanges, vars, evalVars
<1>8. QED
  BY <1>3, <1>4, <1>5, <1>6, <1>7 DEF Next

LEMMA StreakAlways == Spec => []StreakInv
<1>1. Init => StreakInv
  BY DEF Init, StreakInv, Fresh, Rules
<1>2. TypeInv /\ StreakInv /\ [Next]_vars => StreakInv'
  BY StreakStep DEF StreakInv, StreakKept
<1>3. QED
  BY <1>1, <1>2, TypeAlways, PTL DEF Spec

\* No step takes an active vision rule to inactive before its condition was
\* false RELEASE_CHECKS times in a row, unless a request removes its state
\* (_set, the module's docstring).
THEOREM ReleaseNeedsChecks == Spec => StaysActive
<1>1. TypeInv /\ StreakInv /\ [Next]_vars =>
        [\A r \in VisionRules :
           st[r].active /\ ~st'[r].active /\ st'[r].known => falses'[r] = ReleaseChecks]_vars
  BY StreakStep DEF Released
<1>2. QED
  BY <1>1, StreakAlways, TypeAlways, PTL DEF Spec, StaysActive

\* Nor does it stay active longer: an active vision rule was found true within
\* its last RELEASE_CHECKS evaluations (_set).
THEOREM ReleaseComes == Spec => []ReleasedInTime
<1>1. TypeInv /\ StreakInv => ReleasedInTime
  BY DEF TypeInv, ClearInv, StreakInv, ReleasedInTime, Rules
<1>2. QED
  BY <1>1, StreakAlways, TypeAlways, PTL

----------------------------------------------------------------------------
(* The cooldown.                                                           *)

\* A rule's last_alert is no older than the last time it really fired.
CoolInv == \A r \in Rules : quiet[r] <= st[r].wait

\* What CooldownRespected says of one step.
CoolStep == \A t \in Threads : pc[t] # "snap" /\ pc'[t] = "snap"
              => \A a \in flight'[t] : quiet[a.rule] = 0

LEMMA CoolEval ==
  ASSUME TypeInv, CoolInv, NEW t \in Threads, NEW r \in Rules, NEW s \in Rec,
         s.wait = st[r].wait, NEW cond \in BOOLEAN, Evaluate(t, r, s, cond)
  PROVE  CoolInv' /\ CoolStep
<1>1. /\ st \in [Rules -> Rec] /\ quiet \in [Rules -> 0..Cooldown] /\ pc \in [Threads -> Labels]
      /\ flight \in [Threads -> SUBSET Fire] /\ Cooldown \in Nat
  BY EngineAssumption DEF EngineAssumption, TypeInv, TypeOK
<1>2. st' = [st EXCEPT ![r] = Evaluated(s, cond)]
  BY DEF Evaluate
<1>3. Evaluated(s, cond).wait = IF Fires(s, cond) THEN Cooldown ELSE s.wait
  BY DEF Evaluated, Fires, Rec
<1>4. CASE Fires(s, cond)
  <2>1. quiet[r] = 0
    <3>1. st[r].wait = 0
      BY <1>4 DEF Fires
    <3>2. quiet[r] <= st[r].wait
      BY DEF CoolInv
    <3>3. quiet[r] \in 0..Cooldown
      BY <1>1
    <3>4. QED
      BY <3>1, <3>2, <3>3, <1>1
  <2>2. quiet' = [quiet EXCEPT ![r] = Cooldown] /\ pc' = [pc EXCEPT ![t] = "snap"]
    BY <1>4 DEF Evaluate, Go
  <2>3. CoolInv'
    BY <1>1, <1>2, <1>3, <1>4, <2>2 DEF CoolInv
  <2>4. PICK i : flight' = [flight EXCEPT ![t] = {[id |-> i, rule |-> r, snap |-> FALSE]}]
    BY <1>4 DEF Evaluate
  <2>5. \A a \in flight'[t] : a.rule = r
    BY <1>1, <2>4
  <2>6. CoolStep
    BY <1>1, <2>1, <2>2, <2>5 DEF CoolStep
  <2>7. QED
    BY <2>3, <2>6
<1>5. CASE ~Fires(s, cond)
  <2>1. UNCHANGED quiet /\ pc' = [pc EXCEPT ![t] = "eval"]
    BY <1>5 DEF Evaluate, Go
  <2>2. CoolInv'
    BY <1>1, <1>2, <1>3, <1>5, <2>1 DEF CoolInv
  <2>3. QED
    BY <1>1, <2>1, <2>2 DEF CoolStep
<1>6. QED
  BY <1>4, <1>5

LEMMA CoolFrame ==
  ASSUME CoolInv, UNCHANGED quiet,
         \A r \in Rules : st'[r].wait = st[r].wait,
         \A t \in Threads : pc'[t] = "snap" => pc[t] = "snap"
  PROVE  CoolInv' /\ CoolStep
  BY DEF CoolInv, CoolStep

LEMMA CoolNext ==
  ASSUME TypeInv, CoolInv, [Next]_vars
  PROVE  CoolInv' /\ CoolStep
<1>1. /\ st \in [Rules -> Rec] /\ quiet \in [Rules -> 0..Cooldown] /\ pc \in [Threads -> Labels]
      /\ answered \subseteq [rule : AskRules, yes : BOOLEAN] /\ Cooldown \in Nat
  BY EngineAssumption DEF EngineAssumption, TypeInv, TypeOK
<1>2. CASE Request
  <2>1. UNCHANGED pc
    BY <1>2 DEF Request, Add, Update, Delete, ClearAlerts, loopVars
  <2>2. \/ UNCHANGED <<st, quiet>>
        \/ \E r \in Rules : st' = [st EXCEPT ![r] = Fresh] /\ quiet' = [quiet EXCEPT ![r] = 0]
    BY <1>2 DEF Request, Add, Update, Delete, ClearAlerts, evalVars
  <2>3. CoolInv'
    BY <1>1, <2>2 DEF CoolInv, Fresh, Rec
  <2>4. QED
    BY <2>1, <2>3 DEF CoolStep
<1>3. ASSUME NEW t \in Threads, EndRound(t) \/ Snap(t) \/ Log(t) \/ LogRaces(t)
      PROVE  CoolInv' /\ CoolStep
  <2>1. UNCHANGED <<st, quiet>>
    BY <1>3 DEF EndRound, Snap, Log, LogRaces, evalVars
  <2>2. \A u \in Threads : pc'[u] = "snap" => pc[u] = "snap"
    BY <1>1, <1>3 DEF EndRound, Snap, Log, LogRaces, Go
  <2>3. QED
    BY <2>1, <2>2, CoolFrame
<1>4. CASE VisionStep
  <2>1. CASE VisionRound
    BY <1>1, <2>1, CoolFrame DEF VisionRound, Go, evalVars
  <2>2. ASSUME NEW r \in VisionRules, VisionEval(r) PROVE CoolInv' /\ CoolStep
    <3>1. r \in Rules /\ st[r] \in Rec /\ "vision" \in Threads /\ (r \in seen) \in BOOLEAN
      BY <1>1 DEF Rules, Threads
    <3>2. Evaluate("vision", r, st[r], r \in seen)
      BY <2>2 DEF VisionEval
    <3>3. QED
      BY <3>1, <3>2, CoolEval
  <2>3. QED
    BY <1>3, <1>4, <2>1, <2>2 DEF VisionStep, Threads
<1>5. CASE AskStep
  <2>1. CASE AskRound
    BY <1>1, <2>1, CoolFrame DEF AskRound, Go, evalVars
  <2>2. ASSUME NEW r \in AskRules, AskModel(r) PROVE CoolInv' /\ CoolStep
    BY <1>1, <2>2, CoolFrame DEF AskModel, Go, evalVars
  <2>3. CASE AskAnswer
    <3>1. PICK a \in answered : st' = [st EXCEPT ![a.rule].known = TRUE]
      BY <2>3 DEF AskAnswer
    <3>2. \A r \in Rules : st'[r].wait = st[r].wait
      BY <1>1, <3>1 DEF Rec
    <3>3. UNCHANGED quiet /\ \A t \in Threads : pc'[t] = "snap" => pc[t] = "snap"
      BY <1>1, <2>3 DEF AskAnswer, Go
    <3>4. QED
      BY <3>2, <3>3, CoolFrame
  <2>4. CASE AskJudge
    <3>1. PICK a \in answered :
             \/ Evaluate("ask", a.rule, Judged(st[a.rule], a.yes), a.yes)
             \/ Go("ask", "dead") /\ UNCHANGED evalVars
      BY <2>4 DEF AskJudge
    <3>2. a.rule \in Rules /\ a.yes \in BOOLEAN /\ "ask" \in Threads
      BY <1>1 DEF Rules, Threads
    <3> DEFINE s == Judged(st[a.rule], a.yes)
    <3>3. s \in Rec /\ s.wait = st[a.rule].wait
      BY <1>1, <3>2, EngineAssumption DEF EngineAssumption, Judged, Rec
    <3> HIDE DEF s
    <3>4. CASE Evaluate("ask", a.rule, s, a.yes)
      BY <3>2, <3>3, <3>4, CoolEval
    <3>5. CASE Go("ask", "dead") /\ UNCHANGED evalVars
      BY <1>1, <3>5, CoolFrame DEF Go, evalVars
    <3>6. QED
      BY <3>1, <3>4, <3>5 DEF s
  <2>5. QED
    BY <1>3, <1>5, <2>1, <2>2, <2>3, <2>4 DEF AskStep, Threads
<1>6. CASE Tick
  <2> DEFINE left(n) == IF n > 0 THEN n - 1 ELSE 0
  <2>1. \A m, n \in 0..Cooldown : m <= n => left(m) <= left(n)
    BY <1>1
  <2>2. /\ st' = [r \in Rules |-> [st[r] EXCEPT !.wait = left(@)]]
        /\ quiet' = [r \in Rules |-> left(quiet[r])]
    BY <1>6 DEF Tick
  <2> HIDE DEF left
  <2>3. CoolInv'
    BY <1>1, <2>1, <2>2 DEF CoolInv, Rec
  <2>4. UNCHANGED pc
    BY <1>6 DEF Tick, loopVars
  <2>5. QED
    BY <2>3, <2>4 DEF CoolStep
<1>7. CASE SceneChanges \/ UNCHANGED vars
  BY <1>7, CoolFrame DEF SceneChanges, vars, evalVars, loopVars
<1>8. QED
  BY <1>2, <1>4, <1>5, <1>6, <1>7 DEF Next

\* No rule fires again within COOLDOWN_S of its last alert (_set, the module's
\* docstring), unless a request took the rule's state away in between.
THEOREM CooldownHolds == Spec => CooldownRespected
<1>1. Init => CoolInv
  BY DEF Init, CoolInv, Fresh
<1>2. TypeInv /\ CoolInv /\ [Next]_vars => CoolInv'
  BY CoolNext
<1>3. TypeInv /\ CoolInv /\ [Next]_vars =>
        [\A t \in Threads : pc[t] # "snap" /\ pc'[t] = "snap"
           => \A a \in flight'[t] : quiet[a.rule] = 0]_vars
  BY CoolNext DEF CoolStep
<1>4. QED
  BY <1>1, <1>2, <1>3, TypeAlways, PTL DEF Spec, CooldownRespected
=============================================================================
