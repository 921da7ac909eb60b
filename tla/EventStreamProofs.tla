-------------------------- MODULE EventStreamProofs --------------------------
(***************************************************************************)
(* What the prover shows of EventStream for any logs, bounds and number of *)
(* restarts: nothing is recorded twice, the page shows a Feed, and nothing *)
(* that EVENTS holds is lost on its way to the page.                       *)
(***************************************************************************)
EXTENDS EventStream, FiniteSetTheorems, SequenceTheorems, TLAPS

----------------------------------------------------------------------------
(* Recording.                                                              *)

HubTypes ==
  /\ now \in Time /\ made \in 0..MaxMade /\ run \in 0..MaxRestarts
  /\ logs \in [Logs -> Seq(Line)] /\ last \in [Logs -> Time]
  /\ events \in Seq(Event) /\ Len(events) <= Cap
  /\ nextId \in Nat \ {0}
  /\ recent \in [Sources \X Reports -> -Window..MaxTime]
  /\ recorded \subseteq Event

\* Nothing is of the future: no line, no follower, no event and no title.
Past ==
  /\ \A l \in Logs : last[l] <= now /\ \A i \in DOMAIN logs[l] : logs[l][i].ts <= now
  /\ \A i \in DOMAIN events : events[i].ts <= now
  /\ \A k \in Sources \X Reports : recent[k] <= now

\* A follower is at or behind what it has emitted.
Followed == \A l \in Logs, t \in Reports : recent[<<l, t>>] <= last[l]

\* _recent_titles has the latest of each source and title in this run.
Latest ==
  \A e \in recorded : e.run <= run /\ (e.run = run => e.ts <= recent[<<e.from, e.title>>])

HubInv == HubTypes /\ Past /\ Followed /\ Latest /\ NoRepeats

LEMMA HubInit == Init => HubInv
<1> SUFFICES ASSUME Init PROVE HubInv
  OBVIOUS
<1>1. now = 0 /\ made = 0 /\ run = 0 /\ nextId = 1 /\ events = <<>> /\ recorded = {}
      /\ logs = [l \in Logs |-> <<>>] /\ last = [l \in Logs |-> 0]
      /\ recent = [k \in Sources \X Reports |-> -Window]
  BY DEF Init, NothingRecent
<1>2. /\ Window \in Nat /\ MaxTime \in Nat /\ MaxMade \in Nat /\ MaxRestarts \in Nat /\ Cap \in Nat
      /\ Len(<<>>) = 0
  BY StreamAssumption DEF StreamAssumption
<1>3. HubTypes
  BY <1>1, <1>2 DEF HubTypes, Time
<1>4. Past
  BY <1>1, <1>2 DEF Past
<1>5. Followed
  BY <1>1, <1>2 DEF Followed, Sources
<1>6. Latest /\ NoRepeats
  BY <1>1 DEF Latest, NoRepeats
<1>7. QED
  BY <1>3, <1>4, <1>5, <1>6 DEF HubInv

\* What emit leaves of the hub.
Registered(key, ts) ==
  /\ nextId' \in Nat \ {0} /\ events' \in Seq(Event) /\ Len(events') <= Cap
  /\ recorded' \subseteq Event
  /\ recent' \in [Sources \X Reports -> -Window..MaxTime]
  /\ \A i \in DOMAIN events' : events'[i].ts <= now
  /\ \A k \in Sources \X Reports : recent'[k] = recent[k] \/ (k = key /\ recent'[k] = ts)
  /\ Latest' /\ NoRepeats'

\* What is not older than the last of its kind by a tick or more is kept Window
\* apart by IsNew from everything of its kind in this run.
LEMMA EmitKeeps ==
  ASSUME HubInv, NEW from \in Sources, NEW title \in Reports, NEW ts \in Time,
         ts <= now, recent[<<from, title>>] <= ts + 1, Emit(from, title, ts),
         UNCHANGED <<now, run>>
  PROVE  Registered(<<from, title>>, ts)
<1> DEFINE e == [id |-> nextId, run |-> run, from |-> from, title |-> title, ts |-> ts]
           key == <<from, title>>
<1> USE DEF Registered
<1>1. HubTypes /\ Past /\ Latest /\ NoRepeats
  BY DEF HubInv
<1>2. e \in Event /\ key \in Sources \X Reports
  BY <1>1 DEF HubTypes, Event
<1>3. CASE ~IsNew(key, ts)
  <2>1. UNCHANGED <<events, nextId, recent, recorded>>
    BY <1>3 DEF Emit, hubVars
  <2>2. QED
    BY <1>1, <2>1 DEF HubTypes, Past, Latest, NoRepeats
<1>4. CASE IsNew(key, ts)
  <2>1. /\ recent' = [recent EXCEPT ![key] = ts] /\ nextId' = nextId + 1
        /\ events' = Kept(Append(events, e)) /\ recorded' = recorded \cup {e}
    BY <1>4 DEF Emit
  <2>2. Append(events, e) \in Seq(Event)
    BY <1>1, <1>2 DEF HubTypes
  <2>3. \A i \in DOMAIN Append(events, e) : Append(events, e)[i].ts <= now
    BY <1>1, <1>2 DEF HubTypes, Past
  <2>4. events' \in Seq(Event) /\ \A i \in DOMAIN events' : events'[i].ts <= now
    BY <2>1, <2>2, <2>3 DEF Kept
  <2>12. Len(events') <= Cap
    <3>1. events \in Seq(Event) /\ Len(events) <= Cap /\ Cap \in Nat \ {0}
      BY <1>1, StreamAssumption DEF HubTypes, StreamAssumption
    <3>2. Len(Append(events, e)) = Len(events) + 1
      BY <3>1
    <3>3. QED
      BY <2>1, <2>2, <3>1, <3>2 DEF Kept
  <2>5. recent' \in [Sources \X Reports -> -Window..MaxTime] /\ recent'[key] = ts
        /\ \A k \in Sources \X Reports : k # key => recent'[k] = recent[k]
    BY <1>1, <1>2, <2>1, StreamAssumption DEF HubTypes, Time, StreamAssumption
  <2>6. ts - recent[key] >= Window /\ recent[key] \in Int /\ Window \in Nat /\ ts \in Int
    BY <1>1, <1>2, <1>4, StreamAssumption DEF IsNew, HubTypes, StreamAssumption, Time
  <2>7. \A f \in recorded : f.run = run /\ <<f.from, f.title>> = key => ts - f.ts >= Window
    BY <1>1, <2>6 DEF HubTypes, Latest, Event, Time
  <2>8. Latest'
    <3>1. ASSUME NEW f \in recorded
          PROVE  f.run <= run' /\ (f.run = run' => f.ts <= recent'[<<f.from, f.title>>])
      <4>1. <<f.from, f.title>> \in Sources \X Reports /\ f.ts \in Int /\ f.run <= run
        BY <1>1 DEF HubTypes, Latest, Event, Time
      <4>2. CASE <<f.from, f.title>> = key
        BY <4>1, <4>2, <2>5, <2>6, <2>7
      <4>3. CASE <<f.from, f.title>> # key
        BY <4>1, <4>3, <2>5, <1>1 DEF Latest
      <4>4. QED
        BY <4>2, <4>3
    <3>2. e.run <= run' /\ e.ts <= recent'[<<e.from, e.title>>]
      BY <1>1, <2>5, <2>6 DEF HubTypes
    <3>3. QED
      BY <3>1, <3>2, <2>1 DEF Latest
  <2>9. NoRepeats'
    BY <1>1, <1>2, <2>1, <2>7 DEF HubTypes, NoRepeats, Event, Time
  <2>10. nextId' \in Nat \ {0} /\ recorded' \subseteq Event
    BY <1>1, <1>2, <2>1 DEF HubTypes
  <2>11. QED
    BY <2>4, <2>5, <2>8, <2>9, <2>10, <2>12
<1>5. QED
  BY <1>3, <1>4

LEMMA HubStep == HubInv /\ [Next]_vars => HubInv'
<1> SUFFICES ASSUME HubInv, [Next]_vars PROVE HubInv'
  OBVIOUS
<1>1. HubTypes /\ Past /\ Followed /\ Latest /\ NoRepeats
  BY DEF HubInv
<1>2. Window \in Nat \ {0, 1} /\ MaxTime \in Nat /\ "portal" \notin Logs
  BY StreamAssumption DEF StreamAssumption
<1>3. CASE UNCHANGED <<now, logVars, hubVars, run>>
  BY <1>1, <1>3 DEF HubInv, HubTypes, Past, Followed, Latest, NoRepeats, logVars, hubVars
<1>4. ASSUME NEW l \in Logs, Follow(l) PROVE HubInv'
  <2>1. PICK i \in DOMAIN logs[l] :
          /\ logs[l][i].ts > last[l] /\ last' = [last EXCEPT ![l] = logs[l][i].ts]
          /\ IF logs[l][i].title = "none" THEN UNCHANGED hubVars
             ELSE Emit(l, logs[l][i].title, logs[l][i].ts)
          /\ UNCHANGED <<now, made, logs, run>>
    BY <1>4 DEF Follow
  <2> DEFINE line == logs[l][i]
  <2>2. line \in Line /\ line.ts <= now /\ line.ts \in Time /\ last[l] \in Time
    <3>1. logs[l] \in Seq(Line) /\ last[l] \in Time
      BY <1>1 DEF HubTypes
    <3>2. line \in Line
      BY <3>1
    <3>3. QED
      BY <1>1, <3>1, <3>2 DEF Past, Line
  <2>3. last' \in [Logs -> Time] /\ last'[l] = line.ts
        /\ \A k \in Logs : k # l => last'[k] = last[k]
    BY <1>1, <2>1, <2>2 DEF HubTypes
  <2>4. CASE line.title = "none"
    <3>1. UNCHANGED <<events, nextId, recent, recorded, now, made, logs, run>>
      BY <2>1, <2>4 DEF hubVars
    <3>2. Followed'
      <4> SUFFICES ASSUME NEW k \in Logs, NEW t \in Reports PROVE recent[<<k, t>>] <= last'[k]
        BY <3>1 DEF Followed
      <4>1. <<k, t>> \in Sources \X Reports
        BY DEF Sources
      <4>2. recent[<<k, t>>] \in Int /\ recent[<<k, t>>] <= last[k] /\ last[k] \in Int /\ line.ts \in Int
        BY <1>1, <2>2, <4>1 DEF Followed, HubTypes, Time
      <4>3. CASE k = l
        BY <2>1, <2>3, <4>2, <4>3
      <4>4. CASE k # l
        BY <2>3, <4>2, <4>4
      <4>5. QED
        BY <4>3, <4>4
    <3>3. QED
      BY <1>1, <2>2, <2>3, <3>1, <3>2 DEF HubInv, HubTypes, Past, Latest, NoRepeats
  <2>5. CASE line.title # "none"
    <3>1. l \in Sources /\ line.title \in Reports /\ line.ts \in Time
      BY <2>2, <2>5 DEF Sources, Reports, Line
    <3>2. Emit(l, line.title, line.ts) /\ UNCHANGED <<now, run>>
      BY <2>1, <2>5
    <3>3. recent[<<l, line.title>>] <= line.ts + 1
      BY <1>1, <2>1, <2>2, <3>1 DEF Followed, HubTypes, Time
    <3>4. Registered(<<l, line.title>>, line.ts)
      BY <2>2, <3>1, <3>2, <3>3, EmitKeeps
    <3>5. Followed'
      <4> SUFFICES ASSUME NEW k \in Logs, NEW t \in Reports PROVE recent'[<<k, t>>] <= last'[k]
        BY DEF Followed
      <4>1. <<k, t>> \in Sources \X Reports
        BY DEF Sources
      <4>2. recent[<<k, t>>] \in Int /\ recent[<<k, t>>] <= last[k] /\ last[k] \in Int /\ line.ts \in Int
        BY <1>1, <2>2, <4>1 DEF Followed, HubTypes, Time
      <4>3. recent'[<<k, t>>] = recent[<<k, t>>] \/ (k = l /\ recent'[<<k, t>>] = line.ts)
        BY <3>4, <4>1 DEF Registered
      <4>4. CASE k = l
        BY <2>1, <2>3, <4>2, <4>3, <4>4
      <4>5. CASE k # l
        BY <2>3, <4>2, <4>3, <4>5
      <4>6. QED
        BY <4>4, <4>5
    <3>6. Past'
      BY <1>1, <2>1, <2>2, <2>3, <3>4 DEF Past, Registered
    <3>7. QED
      BY <1>1, <2>1, <2>3, <3>4, <3>5, <3>6 DEF HubInv, HubTypes, Registered
  <2>6. QED
    BY <2>4, <2>5
<1>5. ASSUME NEW title \in Reports, NEW ts \in Time, Emit("portal", title, ts), ts <= now,
             recent[<<"portal", title>>] <= ts + 1, UNCHANGED <<now, logs, last, run>>,
             made' \in 0..MaxMade
      PROVE  HubInv'
  <2>1. "portal" \in Sources
    BY DEF Sources
  <2>2. Registered(<<"portal", title>>, ts)
    BY <1>5, <2>1, EmitKeeps
  <2>3. Followed'
    <3> SUFFICES ASSUME NEW l \in Logs, NEW t \in Reports PROVE recent'[<<l, t>>] <= last[l]
      BY <1>5 DEF Followed
    <3>1. <<l, t>> \in Sources \X Reports /\ <<l, t>> # <<"portal", title>>
      BY <1>2 DEF Sources
    <3>2. QED
      BY <1>1, <2>2, <3>1 DEF Followed, Registered
  <2>4. Past'
    BY <1>1, <1>5, <2>2 DEF Past, Registered
  <2>5. QED
    BY <1>1, <1>5, <2>2, <2>3, <2>4 DEF HubInv, HubTypes, Registered
<1>6. ASSUME NEW title \in Titles, PortalEmits(title) PROVE HubInv'
  <2>1. PICK ts \in {now, now - 1} \cap Time : Emit("portal", title, ts)
    BY <1>6 DEF PortalEmits
  <2>2. title \in Reports /\ "portal" \in Sources
    BY DEF Reports, Sources
  <2>3. recent[<<"portal", title>>] <= now /\ recent[<<"portal", title>>] \in Int /\ now \in Int
    BY <1>1, <2>2 DEF Past, HubTypes, Time
  <2>4. ts <= now /\ recent[<<"portal", title>>] <= ts + 1 /\ ts \in Time
    BY <2>1, <2>3
  <2>5. UNCHANGED <<now, logs, last, run>> /\ made' \in 0..MaxMade
    BY <1>1, <1>6, StreamAssumption DEF PortalEmits, HubTypes, StreamAssumption
  <2>6. QED
    BY <1>5, <2>1, <2>2, <2>4, <2>5
<1>7. CASE AttachSummary
  <2>1. PICK i \in DOMAIN events : /\ events[i].ts > recent[<<"portal", "online">>]
                                   /\ Emit("portal", "online", events[i].ts)
    BY <1>7 DEF AttachSummary
  <2>2. events[i].ts \in Time /\ events[i].ts <= now
    <3>1. events \in Seq(Event)
      BY <1>1 DEF HubTypes
    <3>2. events[i] \in Event
      BY <3>1
    <3>3. QED
      BY <1>1, <3>2 DEF Past, Event
  <2>3. "online" \in Reports /\ "portal" \in Sources
    BY DEF Reports, Sources
  <2>4. recent[<<"portal", "online">>] <= events[i].ts + 1
    BY <1>1, <2>1, <2>2, <2>3 DEF HubTypes, Time
  <2>5. UNCHANGED <<now, logs, last, run>> /\ made' \in 0..MaxMade
    BY <1>1, <1>7, StreamAssumption DEF AttachSummary, HubTypes, StreamAssumption
  <2>6. QED
    BY <1>5, <2>1, <2>2, <2>3, <2>4, <2>5
<1>8. ASSUME NEW l \in Logs, NEW t \in Titles \cup {"none"}, Logged(l, t) PROVE HubInv'
  <2>1. /\ logs' = [logs EXCEPT ![l] = Append(@, [title |-> t, ts |-> now])]
        /\ UNCHANGED <<now, last, events, nextId, recent, recorded, run>> /\ made' \in 0..MaxMade
    BY <1>1, <1>8, StreamAssumption DEF Logged, hubVars, HubTypes, StreamAssumption
  <2>2. [title |-> t, ts |-> now] \in Line /\ logs[l] \in Seq(Line) /\ now \in Int
    <3>1. now \in Time /\ logs[l] \in Seq(Line)
      BY <1>1 DEF HubTypes
    <3>2. now \in Int
      BY <3>1 DEF Time
    <3>3. QED
      BY <3>1, <3>2 DEF Line
  <2>3. logs' \in [Logs -> Seq(Line)]
    BY <1>1, <2>1, <2>2 DEF HubTypes
  <2>4. \A k \in Logs : \A i \in DOMAIN logs'[k] : logs'[k][i].ts <= now
    <3>1. \A k \in Logs : k # l => logs'[k] = logs[k]
      BY <1>1, <2>1 DEF HubTypes
    <3>2. logs'[l] = Append(logs[l], [title |-> t, ts |-> now])
      BY <1>1, <2>1 DEF HubTypes
    <3>3. \A i \in DOMAIN logs'[l] : logs'[l][i].ts <= now
      BY <1>1, <2>2, <3>2 DEF Past
    <3>4. QED
      BY <1>1, <3>1, <3>3 DEF Past
  <2>5. QED
    BY <1>1, <2>1, <2>3, <2>4 DEF HubInv, HubTypes, Past, Followed, Latest, NoRepeats
<1>9. CASE Tick
  <2>1. now' = now + 1 /\ now < MaxTime /\ UNCHANGED <<made, logs, last, events, nextId, recent, recorded, run>>
    BY <1>9 DEF Tick, logVars, hubVars
  <2>2. now' \in Time /\ now \in Int
    BY <1>1, <1>2, <2>1 DEF HubTypes, Time
  <2>3. \A x \in Int : x <= now => x <= now'
    BY <2>1, <2>2
  <2>4. Past'
    <3>1. \A l \in Logs : last[l] \in Int /\ \A i \in DOMAIN logs[l] : logs[l][i].ts \in Int
      <4> SUFFICES ASSUME NEW l \in Logs, NEW i \in DOMAIN logs[l]
                   PROVE  last[l] \in Int /\ logs[l][i].ts \in Int
        BY <1>1 DEF HubTypes, Time
      <4>1. logs[l] \in Seq(Line) /\ last[l] \in Time
        BY <1>1 DEF HubTypes
      <4>2. logs[l][i] \in Line
        BY <4>1
      <4>3. QED
        BY <4>1, <4>2 DEF Line, Time
    <3>2. \A i \in DOMAIN events : events[i].ts \in Int
      <4>1. events \in Seq(Event)
        BY <1>1 DEF HubTypes
      <4>2. \A i \in DOMAIN events : events[i] \in Event
        BY <4>1
      <4>3. QED
        BY <4>2 DEF Event, Time
    <3>3. \A k \in Sources \X Reports : recent[k] \in Int
      BY <1>1 DEF HubTypes
    <3>4. QED
      BY <1>1, <2>1, <2>3, <3>1, <3>2, <3>3 DEF Past
  <2>5. QED
    BY <1>1, <2>1, <2>2, <2>4 DEF HubInv, HubTypes, Followed, Latest, NoRepeats
<1>10. CASE PortalRestart
  <2>1. /\ run' = run + 1 /\ events' = <<>> /\ nextId' = 1 /\ recent' = NothingRecent
        /\ last' = [l \in Logs |-> now] /\ UNCHANGED <<now, made, logs, recorded>>
        /\ run' \in 0..MaxRestarts
    BY <1>1, <1>10, StreamAssumption DEF PortalRestart, HubTypes, StreamAssumption
  <2>2. now \in Time /\ now >= 0 /\ now \in Int
    BY <1>1 DEF HubTypes, Time
  <2>3. HubTypes'
    <3>1. -Window \in -Window..MaxTime /\ Cap \in Nat /\ Len(<<>>) = 0
      BY <1>2, StreamAssumption DEF StreamAssumption
    <3>2. recent' \in [Sources \X Reports -> -Window..MaxTime]
      BY <2>1, <3>1 DEF NothingRecent
    <3>3. events' \in Seq(Event) /\ Len(events') <= Cap
      BY <2>1, <3>1
    <3>4. QED
      BY <1>1, <2>1, <2>2, <3>2, <3>3 DEF HubTypes
  <2>4. Past'
    BY <1>1, <1>2, <2>1, <2>2 DEF Past, NothingRecent
  <2>5. Followed'
    BY <1>2, <2>1, <2>2 DEF Followed, NothingRecent, Sources
  <2>6. Latest'
    <3> SUFFICES ASSUME NEW f \in recorded PROVE f.run <= run' /\ f.run # run'
      BY <2>1 DEF Latest
    <3>1. f \in Event /\ run \in 0..MaxRestarts /\ f.run <= run
      BY <1>1 DEF HubTypes, Latest
    <3>2. f.run \in 0..MaxRestarts
      BY <3>1 DEF Event
    <3>3. QED
      BY <2>1, <3>1, <3>2
  <2>7. NoRepeats'
    BY <1>1, <2>1 DEF NoRepeats
  <2>8. QED
    BY <2>3, <2>4, <2>5, <2>6, <2>7 DEF HubInv
<1>11. CASE Connect \/ Stream \/ Disconnect \/ Receive \/ Flush \/ Pump \/ UNCHANGED vars
  BY <1>3, <1>11 DEF Connect, Stream, Disconnect, Receive, Flush, Pump, vars
<1>12. QED
  BY <1>4, <1>6, <1>7, <1>8, <1>9, <1>10, <1>11 DEF Next

\* No two records of the same thing within Window of each other in one run of the
\* portal, whichever order their time stamps came in (emit, _follow_logs,
\* _attach_summary): emit compares with the last record only, and that is enough.
THEOREM RepeatsAreDropped == Spec => []NoRepeats
<1>1. HubInv => NoRepeats
  BY DEF HubInv
<1>2. QED
  BY <1>1, HubInit, HubStep, PTL DEF Spec

----------------------------------------------------------------------------
(* The order of what is recorded.                                          *)

\* Recorded earlier, of an earlier run or with a smaller id.
Before(e, f) == e.run < f.run \/ (e.run = f.run /\ e.id < f.id)

\* e may be shown after f.
Follows(f, e) == f # e /\ (f.from = e.from /\ f.from \in Logs => f.ts < e.ts)

\* What a follower has emitted is not beyond it, ids of this run are below the
\* next one, and a log is recorded in its order.
Chronicle ==
  /\ \A e \in recorded :
       /\ e.run <= run /\ (e.run = run => e.id < nextId)
       /\ e.from \in Logs => e.ts <= last[e.from]
  /\ \A e, f \in recorded : Before(e, f) => Follows(e, f)

\* What EVENTS holds and what is under way is recorded in this run.
Current ==
  /\ \A i \in DOMAIN events : events[i] \in recorded /\ events[i].run = run
  /\ \A i \in DOMAIN wire : wire[i] \in recorded /\ wire[i].run = run

PageTypes ==
  /\ link \in BOOLEAN /\ sent \in Nat /\ wire \in Seq(Event)
  /\ lastId \in Nat /\ pending \subseteq Event /\ queue \in Seq(Event)
  /\ shown \in Seq(Event)

LEMMA TypeGroups == TypeOK <=> HubTypes /\ PageTypes
  BY DEF TypeOK, HubTypes, PageTypes

\* The page's batch and queue are recorded, not above its last id, and may be
\* shown in any order that the sort of a batch leaves open.
Accepted(e) == e \in recorded /\ e.id <= lastId
Page ==
  /\ IsFiniteSet(pending) /\ \A p \in pending : Accepted(p)
  /\ \A i \in DOMAIN queue : Accepted(queue[i])
  /\ \A i \in DOMAIN shown : Accepted(shown[i])
  /\ \A p, q \in pending : p # q => Follows(p, q) \/ Follows(q, p)
  /\ \A i \in DOMAIN queue, p \in pending : Follows(queue[i], p)
  /\ \A i \in DOMAIN shown, p \in pending : Follows(shown[i], p)
  /\ \A i, j \in DOMAIN queue : i < j => Follows(queue[i], queue[j])
  /\ \A i \in DOMAIN shown, j \in DOMAIN queue : Follows(shown[i], queue[j])

StreamInv == HubInv /\ PageTypes /\ Chronicle /\ Current /\ Page

LEMMA StreamInit == Init => StreamInv
<1> SUFFICES ASSUME Init PROVE StreamInv
  OBVIOUS
<1>1. events = <<>> /\ recorded = {} /\ wire = <<>> /\ pending = {} /\ queue = <<>> /\ shown = <<>>
      /\ link = FALSE /\ sent = 0 /\ lastId = 0
  BY DEF Init
<1>2. IsFiniteSet({})
  BY FS_EmptySet
<1>3. Chronicle /\ Current /\ PageTypes
  <2>1. link \in BOOLEAN
    BY <1>1
  <2>2. QED
    BY <1>1, <2>1 DEF Chronicle, Current, PageTypes
<1>4. Page
  BY <1>1, <1>2 DEF Page
<1>5. QED
  BY <1>3, <1>4, HubInit DEF StreamInv

\* Recording more leaves the page as it is.
LEMMA PageFrame ==
  ASSUME Page, recorded \subseteq recorded', UNCHANGED <<lastId, pending, queue, shown>>
  PROVE  Page'
<1>1. \A e : Accepted(e) => Accepted(e)'
  BY DEF Accepted
<1>2. QED
  BY <1>1 DEF Page, Follows

\* What emit does to the record: nothing, or one more event of this run.
LEMMA Emits ==
  ASSUME HubInv, Chronicle, Current, NEW from \in Sources, NEW title \in Reports, NEW ts \in Time,
         from \in Logs => last[from] < ts /\ last'[from] = ts,
         \A l \in Logs : l # from => last'[l] = last[l],
         Emit(from, title, ts), UNCHANGED <<run, wire>>
  PROVE  /\ recorded \subseteq recorded' /\ Chronicle' /\ Current'
         /\ recorded' = recorded \/ \E e \in recorded' \ recorded : recorded' = recorded \cup {e}
<1> DEFINE e == [id |-> nextId, run |-> run, from |-> from, title |-> title, ts |-> ts]
<1>1. HubTypes
  BY DEF HubInv
<1>2. \A l \in Logs : last[l] <= last'[l] /\ last[l] \in Int /\ last'[l] \in Int
  BY <1>1, StreamAssumption DEF HubTypes, Time, StreamAssumption
<1>3. \A f \in recorded : f \in Event /\ f.ts \in Int /\ f.id \in Int /\ f.run \in Int
  BY <1>1 DEF HubTypes, Event, Time
<1>4. CASE ~IsNew(<<from, title>>, ts)
  <2>1. UNCHANGED <<events, nextId, recorded>>
    BY <1>4 DEF Emit, hubVars
  <2>2. \A f \in recorded : f.from \in Logs => f.ts <= last'[f.from]
    BY <1>2, <1>3 DEF Chronicle
  <2>3. QED
    BY <2>1, <2>2 DEF Chronicle, Current, Before, Follows
<1>5. CASE IsNew(<<from, title>>, ts)
  <2>1. /\ nextId' = nextId + 1 /\ events' = Kept(Append(events, e))
        /\ recorded' = recorded \cup {e} /\ nextId \in Int /\ run \in Int
    BY <1>1, <1>5 DEF Emit, HubTypes
  <2>2. \A f \in recorded : Before(f, e) /\ ~Before(e, f) /\ Follows(f, e)
    <3> SUFFICES ASSUME NEW f \in recorded PROVE Before(f, e) /\ ~Before(e, f) /\ Follows(f, e)
      OBVIOUS
    <3>1. f.run <= run /\ (f.run = run => f.id < nextId) /\ (f.from \in Logs => f.ts <= last[f.from])
      BY DEF Chronicle
    <3>2. Before(f, e) /\ ~Before(e, f)
      BY <1>3, <2>1, <3>1 DEF Before
    <3>3. f # e
      BY <1>3, <2>1, <3>1
    <3>4. f.from = from /\ from \in Logs => f.ts < ts
      BY <1>1, <1>2, <1>3, <3>1 DEF Time
    <3>5. QED
      BY <3>2, <3>3, <3>4 DEF Follows
  <2>3. e \notin recorded
    BY <2>2 DEF Follows
  <2>4. Chronicle'
    <3>1. \A f \in recorded : /\ f.run <= run' /\ (f.run = run' => f.id < nextId')
                              /\ f.from \in Logs => f.ts <= last'[f.from]
      BY <1>2, <1>3, <2>1 DEF Chronicle
    <3>2. /\ e.run <= run' /\ (e.run = run' => e.id < nextId')
          /\ e.from \in Logs => e.ts <= last'[e.from]
      BY <1>2, <2>1
    <3>3. ~Before(e, e)
      BY <2>1 DEF Before
    <3>4. \A f, g \in recorded' : Before(f, g) => Follows(f, g)
      BY <2>1, <2>2, <3>3 DEF Chronicle
    <3>5. QED
      BY <2>1, <3>1, <3>2, <3>4 DEF Chronicle
  <2>5. Current'
    <3>1. events \in Seq(Event) /\ e \in Event
      BY <1>1 DEF HubTypes, Event
    <3>2. \A i \in DOMAIN Append(events, e) :
            Append(events, e)[i] \in recorded' /\ Append(events, e)[i].run = run
      BY <2>1, <3>1 DEF Current
    <3>3. \A i \in DOMAIN events' : events'[i] \in recorded' /\ events'[i].run = run
      BY <2>1, <3>1, <3>2 DEF Kept
    <3>4. QED
      BY <2>1, <3>3 DEF Current
  <2>6. QED
    BY <2>1, <2>3, <2>4, <2>5
<1>6. QED
  BY <1>4, <1>5

----------------------------------------------------------------------------
(* The page shows a Feed.                                                  *)

\* What a step does to the feed.
FeedStep == (Page' /\ Chronicle' /\ Current') /\ [TimelineFeed!Record \/ TimelineFeed!Show]_<<recorded, shown>>

\* A step that records at most one event and does not touch the page.
LEMMA RecordStep ==
  ASSUME Page, Chronicle', Current', recorded \subseteq recorded',
         recorded' = recorded \/ \E e \in recorded' \ recorded : recorded' = recorded \cup {e},
         UNCHANGED <<lastId, pending, queue, shown>>
  PROVE  FeedStep
  BY PageFrame DEF FeedStep, TimelineFeed!Record

LEMMA PortalRecords ==
  ASSUME HubInv, Page, Chronicle, Current, NEW title \in Reports, NEW ts \in Time,
         Emit("portal", title, ts), UNCHANGED <<last, run, linkVars, pageVars>>
  PROVE  FeedStep
<1>1. "portal" \in Sources /\ "portal" \notin Logs
  BY StreamAssumption DEF StreamAssumption, Sources
<1>2. UNCHANGED <<last, run, wire, lastId, pending, queue, shown>>
  BY DEF linkVars, pageVars
<1>3. /\ recorded \subseteq recorded' /\ Chronicle' /\ Current'
      /\ recorded' = recorded \/ \E e \in recorded' \ recorded : recorded' = recorded \cup {e}
  BY <1>1, <1>2, Emits
<1>4. QED
  BY <1>2, <1>3, RecordStep

LEMMA FollowRecords ==
  ASSUME HubInv, Page, Chronicle, Current, NEW l \in Logs, Follow(l)
  PROVE  FeedStep
<1>1. PICK i \in DOMAIN logs[l] :
        /\ logs[l][i].ts > last[l] /\ last' = [last EXCEPT ![l] = logs[l][i].ts]
        /\ IF logs[l][i].title = "none" THEN UNCHANGED hubVars
           ELSE Emit(l, logs[l][i].title, logs[l][i].ts)
        /\ UNCHANGED <<run, linkVars, pageVars>>
  BY DEF Follow
<1> DEFINE line == logs[l][i]
<1>2. UNCHANGED <<run, wire, lastId, pending, queue, shown>>
  BY <1>1 DEF linkVars, pageVars
<1>3. logs[l] \in Seq(Line) /\ last \in [Logs -> Time] /\ recorded \subseteq Event
  BY DEF HubInv, HubTypes
<1>4. line \in Line
  BY <1>1, <1>3
<1>5. last'[l] = line.ts /\ (\A k \in Logs : k # l => last'[k] = last[k]) /\ line.ts \in Time
  BY <1>1, <1>3, <1>4 DEF Line
<1>6. CASE line.title = "none"
  <2>1. UNCHANGED <<events, nextId, recorded>>
    BY <1>1, <1>6 DEF hubVars
  <2>2. \A e \in recorded : e.from \in Logs => e.ts <= last'[e.from]
    <3> SUFFICES ASSUME NEW e \in recorded, e.from \in Logs PROVE e.ts <= last'[e.from]
      OBVIOUS
    <3>1. e.ts <= last[e.from] /\ e.ts \in Int /\ last[e.from] \in Int /\ last[l] \in Int /\ line.ts \in Int
      BY <1>3, <1>5 DEF Chronicle, Event, Time
    <3>2. QED
      BY <1>1, <1>5, <3>1
  <2>3. Chronicle'
    BY <1>2, <2>1, <2>2 DEF Chronicle, Before, Follows
  <2>4. Current'
    BY <1>2, <2>1 DEF Current
  <2>5. QED
    BY <1>2, <2>1, <2>3, <2>4, RecordStep
<1>7. CASE line.title # "none"
  <2>1. l \in Sources /\ line.title \in Reports
    BY <1>4, <1>7 DEF Sources, Reports, Line
  <2>2. Emit(l, line.title, line.ts)
    BY <1>1, <1>7
  <2>3. last[l] < line.ts
    BY <1>1, <1>3, <1>5 DEF Time
  <2>4. /\ recorded \subseteq recorded' /\ Chronicle' /\ Current'
        /\ recorded' = recorded \/ \E e \in recorded' \ recorded : recorded' = recorded \cup {e}
    BY <1>2, <1>5, <2>1, <2>2, <2>3, Emits
  <2>5. QED
    BY <1>2, <2>4, RecordStep
<1>8. QED
  BY <1>6, <1>7

\* The hub stays and the page does not show.
LEMMA QuietStep ==
  ASSUME Page', Current', Chronicle, UNCHANGED <<recorded, nextId, run, last, shown>>
  PROVE  FeedStep
  BY DEF FeedStep, Chronicle, Before, Follows

LEMMA StreamSends ==
  ASSUME HubInv, PageTypes, Page, Chronicle, Current, Stream
  PROVE  FeedStep /\ PageTypes'
<1>1. PICK i \in DOMAIN events : wire' = wire \o SubSeq(events, i, Len(events))
  BY DEF Stream
<1>2. UNCHANGED <<events, nextId, recorded, last, run, lastId, pending, queue, shown, link>>
  BY DEF Stream, logVars, hubVars, pageVars
<1>3. sent' = events[Len(events)].id
  BY DEF Stream
<1>4. events \in Seq(Event) /\ wire \in Seq(Event)
  BY DEF HubInv, HubTypes, PageTypes
<1> DEFINE new == SubSeq(events, i, Len(events))
           Now == {e \in Event : e \in recorded /\ e.run = run}
<1>5. \A j \in DOMAIN events : events[j] \in Now
  BY <1>4 DEF Current
<1>6. i \in Int /\ Len(events) \in Int /\ \A j \in i..Len(events) : events[j] \in Now
  BY <1>4, <1>5
<1> HIDE DEF Now
<1>7. new \in Seq(Now)
  BY <1>6, SubSeqProperties
<1>8. wire \in Seq(Now)
  BY <1>4 DEF Current, Now
<1>9. wire' \in Seq(Now)
  BY <1>1, <1>7, <1>8
<1>10. Current'
  <2>1. \A j \in DOMAIN wire' : wire'[j] \in Now
    BY <1>9
  <2>2. QED
    BY <1>2, <1>4, <2>1 DEF Current, Now
<1>11. Page'
  BY <1>2, PageFrame
<1>12. PageTypes'
  <2>1. wire' \in Seq(Event)
    BY <1>1, <1>4, SubSeqProperties
  <2>2. Len(events) \in DOMAIN events
    BY <1>1, <1>4
  <2>3. sent' \in Nat
    <3>1. events[Len(events)] \in Event
      BY <1>4, <2>2
    <3>2. QED
      BY <1>3, <3>1 DEF Event
  <2>4. QED
    BY <1>2, <2>1, <2>3 DEF PageTypes
<1>13. QED
  BY <1>2, <1>10, <1>11, <1>12, QuietStep

LEMMA PageReceives ==
  ASSUME HubInv, PageTypes, Page, Chronicle, Current, Receive
  PROVE  FeedStep /\ PageTypes'
<1>0. PICK e : e = Head(wire)
  OBVIOUS
<1>1. /\ wire # <<>> /\ wire' = Tail(wire)
      /\ UNCHANGED <<events, nextId, recorded, last, run, queue, shown, link, sent>>
  BY DEF Receive, logVars, hubVars
<1>2. wire \in Seq(Event) /\ wire' \in Seq(Event) /\ e \in Event /\ 1 \in DOMAIN wire /\ e = wire[1]
  BY <1>0, <1>1 DEF PageTypes
<1>3. e \in recorded /\ e.run = run
  BY <1>2 DEF Current
<1>4. Current'
  BY <1>1, <1>2 DEF Current, PageTypes
<1>5. CASE e.id <= lastId
  <2>1. UNCHANGED <<lastId, pending>>
    BY <1>0, <1>5 DEF Receive
  <2>2. Page'
    BY <1>1, <2>1, PageFrame
  <2>3. QED
    BY <1>1, <1>2, <1>4, <2>1, <2>2, QuietStep DEF PageTypes
<1>6. CASE ~(e.id <= lastId)
  <2>1. lastId' = e.id /\ pending' = pending \cup {e}
    BY <1>0, <1>6 DEF Receive
  <2>2. lastId < e.id /\ e.id \in Nat /\ lastId \in Nat
    BY <1>2, <1>6 DEF PageTypes, Event
  <2>3. \A f : Accepted(f) => Follows(f, e) /\ f \in recorded' /\ f.id <= lastId'
    <3> SUFFICES ASSUME NEW f, Accepted(f)
                 PROVE  Follows(f, e) /\ f \in recorded' /\ f.id <= lastId'
      OBVIOUS
    <3>1. f \in recorded /\ f.id <= lastId /\ f \in Event
      BY DEF Accepted, HubInv, HubTypes
    <3>2. f.id < e.id /\ f.id \in Int /\ f.id <= lastId'
      BY <2>1, <2>2, <3>1 DEF Event
    <3>3. f.run <= run /\ f.run \in 0..MaxRestarts /\ run \in 0..MaxRestarts
      BY <3>1 DEF Chronicle, Event, HubInv, HubTypes
    <3>4. Before(f, e)
      BY <1>3, <3>2, <3>3 DEF Before
    <3>5. QED
      BY <1>1, <1>3, <3>1, <3>2, <3>4 DEF Chronicle, Accepted
  <2>4. e \in recorded' /\ e.id <= lastId'
    BY <1>1, <1>3, <2>1, <2>2 DEF Accepted
  <2>5. IsFiniteSet(pending')
    BY <2>1, FS_AddElement DEF Page
  <2>6. Page'
    <3>1. \A p \in pending : Follows(p, e)
      BY <2>3 DEF Page
    <3>2. \A p, q \in pending' : p # q => Follows(p, q) \/ Follows(q, p)
      BY <2>1, <3>1 DEF Page
    <3>3. /\ \A i \in DOMAIN queue, p \in pending' : Follows(queue[i], p)
          /\ \A i \in DOMAIN shown, p \in pending' : Follows(shown[i], p)
      BY <2>1, <2>3 DEF Page
    <3>4. /\ \A p \in pending' : p \in recorded' /\ p.id <= lastId'
          /\ \A i \in DOMAIN queue : queue[i] \in recorded' /\ queue[i].id <= lastId'
          /\ \A i \in DOMAIN shown : shown[i] \in recorded' /\ shown[i].id <= lastId'
      BY <2>1, <2>3, <2>4 DEF Page
    <3>5. QED
      BY <1>1, <2>5, <3>2, <3>3, <3>4 DEF Page, Follows, Accepted
  <2>7. PageTypes'
    BY <1>1, <1>2, <2>1, <2>2 DEF PageTypes
  <2>8. QED
    BY <1>1, <1>4, <2>6, <2>7, QuietStep
<1>7. QED
  BY <1>5, <1>6

LEMMA PageFlushes ==
  ASSUME HubInv, PageTypes, Page, Chronicle, Current, Flush
  PROVE  FeedStep /\ PageTypes'
<1>1. /\ pending' = {}
      /\ UNCHANGED <<events, nextId, recorded, last, run, wire, link, sent, lastId, shown>>
  BY DEF Flush, logVars, hubVars, linkVars
<1>2. PICK batch \in [1..Cardinality(pending) -> pending] :
        /\ \A i, j \in DOMAIN batch : i < j => Precedes(batch[i], batch[j])
        /\ queue' = queue \o batch
  BY DEF Flush
<1>3. Cardinality(pending) \in Nat /\ DOMAIN batch = 1..Cardinality(pending)
  BY <1>2, FS_CardinalityType DEF Page
<1>4. batch \in Seq(pending) /\ Len(batch) = Cardinality(pending) /\ batch \in Seq(Event)
  <2>1. \E n \in Nat : batch \in [1..n -> pending]
    BY <1>2, <1>3
  <2>2. batch \in Seq(pending)
    BY <2>1
  <2>3. \A x \in pending : x \in Event
    BY DEF PageTypes
  <2>4. batch \in [1..Cardinality(pending) -> Event]
    BY <1>2, <2>3
  <2>5. batch \in Seq(Event)
    BY <1>3, <2>4
  <2>6. QED
    BY <1>3, <2>2, <2>5
<1>5. queue \in Seq(Event) /\ \A i \in DOMAIN batch : batch[i] \in pending
  BY <1>2 DEF PageTypes
<1>6. /\ queue' \in Seq(Event) /\ Len(queue') = Len(queue) + Len(batch)
      /\ \A i \in 1..Len(queue) + Len(batch) :
           queue'[i] = IF i <= Len(queue) THEN queue[i] ELSE batch[i - Len(queue)]
  BY <1>2, <1>4, <1>5, ConcatProperties
<1>7. /\ DOMAIN queue' = 1..Len(queue) + Len(batch) /\ DOMAIN queue = 1..Len(queue)
      /\ DOMAIN batch = 1..Len(batch) /\ Len(queue) \in Nat /\ Len(batch) \in Nat
  BY <1>4, <1>5, <1>6
<1>8. \A i \in DOMAIN queue' :
        \/ i \in DOMAIN queue /\ queue'[i] = queue[i]
        \/ i - Len(queue) \in DOMAIN batch /\ queue'[i] = batch[i - Len(queue)] /\ i > Len(queue)
  BY <1>6, <1>7
<1>9. \A i, j \in DOMAIN batch : i < j => Follows(batch[i], batch[j])
  <2> SUFFICES ASSUME NEW i \in DOMAIN batch, NEW j \in DOMAIN batch, i < j
               PROVE  Follows(batch[i], batch[j])
    OBVIOUS
  <2>1. /\ batch[i] \in pending /\ batch[j] \in pending /\ batch[i] \in Event /\ batch[j] \in Event
        /\ Precedes(batch[i], batch[j])
    BY <1>2, <1>5 DEF PageTypes
  <2>2. batch[i].ts \in Int /\ batch[j].ts \in Int /\ batch[i].id \in Int /\ batch[j].id \in Int
    BY <2>1 DEF Event, Time
  <2>3. batch[i] # batch[j]
    BY <2>1, <2>2 DEF Precedes
  <2>4. Follows(batch[i], batch[j]) \/ Follows(batch[j], batch[i])
    BY <2>1, <2>3 DEF Page
  <2>5. QED
    BY <2>1, <2>2, <2>3, <2>4 DEF Follows, Precedes
<1>10. \A i, j \in DOMAIN queue' : i < j => Follows(queue'[i], queue'[j])
  <2> SUFFICES ASSUME NEW i \in DOMAIN queue', NEW j \in DOMAIN queue', i < j
               PROVE  Follows(queue'[i], queue'[j])
    OBVIOUS
  <2>1. CASE j \in DOMAIN queue /\ queue'[j] = queue[j]
    <3>1. i \in DOMAIN queue /\ queue'[i] = queue[i]
      BY <1>6, <1>7, <2>1
    <3>2. QED
      BY <2>1, <3>1 DEF Page
  <2>2. CASE /\ j - Len(queue) \in DOMAIN batch /\ queue'[j] = batch[j - Len(queue)]
             /\ i \in DOMAIN queue /\ queue'[i] = queue[i]
    BY <1>5, <2>2 DEF Page
  <2>3. CASE /\ j - Len(queue) \in DOMAIN batch /\ queue'[j] = batch[j - Len(queue)]
             /\ i - Len(queue) \in DOMAIN batch /\ queue'[i] = batch[i - Len(queue)]
    <3>1. i - Len(queue) < j - Len(queue)
      BY <1>7
    <3>2. QED
      BY <1>9, <2>3, <3>1
  <2>4. QED
    BY <1>8, <2>1, <2>2, <2>3
<1>11. \A i \in DOMAIN shown, j \in DOMAIN queue' : Follows(shown[i], queue'[j])
  BY <1>5, <1>8 DEF Page
<1>12. \A i \in DOMAIN queue' : Accepted(queue'[i])
  BY <1>5, <1>8 DEF Page
<1>13. Page'
  <2>1. IsFiniteSet({})
    BY FS_EmptySet
  <2>2. QED
    BY <1>1, <1>10, <1>11, <1>12, <2>1 DEF Page, Accepted, Follows
<1>14. Current' /\ PageTypes'
  BY <1>1, <1>6 DEF Current, PageTypes
<1>15. QED
  BY <1>1, <1>13, <1>14, QuietStep

LEMMA PageShows ==
  ASSUME HubInv, PageTypes, Page, Chronicle, Current, Pump
  PROVE  FeedStep /\ PageTypes'
<1>0. PICK e : e = Head(queue)
  OBVIOUS
<1>1. /\ queue # <<>> /\ queue' = Tail(queue) /\ shown' = Append(shown, e)
      /\ UNCHANGED <<events, nextId, recorded, last, run, wire, link, sent, lastId, pending>>
  BY <1>0 DEF Pump, logVars, hubVars, linkVars
<1>2. queue \in Seq(Event) /\ shown \in Seq(Event)
  BY DEF PageTypes
<1>3. /\ e = queue[1] /\ 1 \in DOMAIN queue /\ e \in Event /\ queue' \in Seq(Event)
      /\ \A i \in DOMAIN queue' : i + 1 \in DOMAIN queue /\ 1 < i + 1 /\ queue'[i] = queue[i + 1]
  BY <1>0, <1>1, <1>2
<1>4. /\ shown' \in Seq(Event)
      /\ \A i \in DOMAIN shown' : (i \in DOMAIN shown /\ shown'[i] = shown[i]) \/ shown'[i] = e
  BY <1>1, <1>2, <1>3
<1>5. Accepted(e)
  BY <1>3 DEF Page
<1>6. \A i \in DOMAIN shown : Follows(shown[i], e)
  BY <1>3 DEF Page
<1>7. TimelineFeed!Show
  <2>1. \A f \in TimelineFeed!Shown : Follows(f, e)
    BY <1>2, <1>6 DEF TimelineFeed!Shown
  <2>2. e \in recorded \ TimelineFeed!Shown
    BY <1>5, <2>1 DEF Accepted, Follows
  <2>3. e.from \in Logs => \A f \in TimelineFeed!Shown : f.from = e.from => f.ts < e.ts
    BY <2>1 DEF Follows
  <2>4. QED
    BY <1>1, <2>2, <2>3 DEF TimelineFeed!Show
<1>8. Page'
  <2>1. \A i \in DOMAIN queue' : Follows(e, queue'[i])
    BY <1>3 DEF Page
  <2>2. \A p \in pending : Follows(e, p)
    BY <1>3 DEF Page
  <2>3. \A i, j \in DOMAIN queue' : i < j => Follows(queue'[i], queue'[j])
    <3> SUFFICES ASSUME NEW i \in DOMAIN queue', NEW j \in DOMAIN queue', i < j
                 PROVE  Follows(queue'[i], queue'[j])
      OBVIOUS
    <3>1. i + 1 < j + 1 /\ i + 1 \in DOMAIN queue /\ j + 1 \in DOMAIN queue
      BY <1>3
    <3>2. QED
      BY <1>3, <3>1 DEF Page
  <2>4. \A i \in DOMAIN shown', j \in DOMAIN queue' : Follows(shown'[i], queue'[j])
    BY <1>3, <1>4, <2>1 DEF Page
  <2>5. \A i \in DOMAIN shown', p \in pending : Follows(shown'[i], p)
    BY <1>4, <2>2 DEF Page
  <2>6. \A i \in DOMAIN queue', p \in pending : Follows(queue'[i], p)
    BY <1>3 DEF Page
  <2>7. /\ \A i \in DOMAIN queue' : Accepted(queue'[i])
        /\ \A i \in DOMAIN shown' : Accepted(shown'[i])
    BY <1>3, <1>4, <1>5 DEF Page
  <2>8. QED
    BY <1>1, <2>3, <2>4, <2>5, <2>6, <2>7 DEF Page, Accepted, Follows
<1>9. Current' /\ PageTypes'
  BY <1>1, <1>3, <1>4 DEF Current, PageTypes
<1>10. Chronicle'
  BY <1>1 DEF Chronicle, Before, Follows
<1>11. QED
  BY <1>7, <1>8, <1>9, <1>10 DEF FeedStep

\* The portal starts again: a log's next line is later than all of its record.
LEMMA RestartStep ==
  ASSUME HubInv, PageTypes, Page, Chronicle, Current, PortalRestart
  PROVE  FeedStep /\ PageTypes'
<1>1. /\ run' = run + 1 /\ events' = <<>> /\ last' = [l \in Logs |-> now]
      /\ link' = FALSE /\ wire' = <<>> /\ sent' = 0
      /\ UNCHANGED <<recorded, lastId, pending, queue, shown>>
  BY DEF PortalRestart, pageVars
<1>2. run \in Int /\ now \in Int /\ \A l \in Logs : last[l] <= now /\ last[l] \in Int
  BY DEF HubInv, HubTypes, Past, Time
<1>3. Chronicle'
  <2>1. ASSUME NEW e \in recorded
        PROVE  e.run <= run' /\ e.run # run' /\ (e.from \in Logs => e.ts <= last'[e.from])
    <3>1. e \in Event /\ e.run <= run /\ (e.from \in Logs => e.ts <= last[e.from])
      BY DEF Chronicle, HubInv, HubTypes
    <3>2. e.run \in Int /\ e.ts \in Int
      BY <3>1 DEF Event, Time
    <3>3. QED
      BY <1>1, <1>2, <3>1, <3>2
  <2>2. QED
    BY <1>1, <2>1 DEF Chronicle, Before, Follows
<1>4. Current' /\ PageTypes'
  <2>1. link' \in BOOLEAN
    BY <1>1
  <2>2. QED
    BY <1>1, <2>1 DEF Current, PageTypes
<1>5. Page'
  BY <1>1, PageFrame
<1>6. QED
  BY <1>1, <1>3, <1>4, <1>5 DEF FeedStep

LEMMA StreamStep == StreamInv /\ [Next]_vars => FeedStep /\ StreamInv'
<1> SUFFICES ASSUME StreamInv, [Next]_vars PROVE FeedStep /\ StreamInv'
  OBVIOUS
<1>1. HubInv /\ PageTypes /\ Chronicle /\ Current /\ Page /\ HubInv'
  BY HubStep DEF StreamInv
<1>2. SUFFICES FeedStep /\ PageTypes'
  BY <1>1 DEF StreamInv, FeedStep
<1>3. CASE UNCHANGED <<hubVars, run, last, linkVars, pageVars>>
  <2>1. UNCHANGED <<events, nextId, recorded, run, last, link, sent, wire, lastId, pending, queue, shown>>
    BY <1>3 DEF hubVars, linkVars, pageVars
  <2>2. Page' /\ Current' /\ PageTypes'
    BY <1>1, <2>1, PageFrame DEF Current, PageTypes
  <2>3. QED
    BY <1>1, <2>1, <2>2, QuietStep
<1>4. CASE \E l \in Logs : Follow(l)
  <2>1. PICK l \in Logs : Follow(l)
    BY <1>4
  <2>2. UNCHANGED <<linkVars, pageVars>>
    BY <2>1 DEF Follow
  <2>3. QED
    BY <1>1, <2>1, <2>2, FollowRecords DEF PageTypes, linkVars, pageVars
<1>5. CASE \E t \in Titles : PortalEmits(t)
  <2>1. PICK t \in Titles : PortalEmits(t)
    BY <1>5
  <2>2. PICK ts \in Time : Emit("portal", t, ts)
    BY <2>1 DEF PortalEmits
  <2>3. UNCHANGED <<last, run, linkVars, pageVars>>
    BY <2>1 DEF PortalEmits
  <2>4. t \in Reports
    BY DEF Reports
  <2>5. QED
    BY <1>1, <2>2, <2>3, <2>4, PortalRecords DEF PageTypes, linkVars, pageVars
<1>6. CASE AttachSummary
  <2>1. PICK i \in DOMAIN events : Emit("portal", "online", events[i].ts)
    BY <1>6 DEF AttachSummary
  <2>2. UNCHANGED <<last, run, linkVars, pageVars>>
    BY <1>6 DEF AttachSummary
  <2>3. events[i].ts \in Time
    <3>1. events \in Seq(Event)
      BY <1>1 DEF HubInv, HubTypes
    <3>2. events[i] \in Event
      BY <3>1
    <3>3. QED
      BY <3>2 DEF Event
  <2>4. "online" \in Reports
    BY DEF Reports
  <2>5. QED
    BY <1>1, <2>1, <2>2, <2>3, <2>4, PortalRecords DEF PageTypes, linkVars, pageVars
<1>7. CASE Connect \/ Disconnect
  <2>1. /\ UNCHANGED <<events, nextId, recorded, run, last, lastId, pending, queue, shown>>
        /\ wire' = <<>> /\ (link' = TRUE \/ link' = FALSE) /\ (sent' = lastId \/ sent' = 0)
    BY <1>7 DEF Connect, Disconnect, logVars, hubVars, pageVars
  <2>2. link' \in BOOLEAN
    BY <2>1
  <2>3. Current' /\ PageTypes'
    BY <1>1, <2>1, <2>2 DEF Current, PageTypes
  <2>4. Page'
    BY <1>1, <2>1, PageFrame
  <2>5. QED
    BY <1>1, <2>1, <2>3, <2>4, QuietStep
<1>8. CASE (\E l \in Logs : \E t \in Titles \cup {"none"} : Logged(l, t)) \/ Tick \/ UNCHANGED vars
  BY <1>3, <1>8 DEF Logged, Tick, vars, logVars
<1>9. QED
  BY <1>1, <1>4, <1>5, <1>6, <1>7, <1>8, StreamSends, PageReceives, PageFlushes, PageShows, RestartStep
     DEF Next

LEMMA StreamAlways == Spec => []StreamInv
  BY StreamInit, StreamStep, PTL DEF Spec

\* Every variable of the timeline has its type: EVENTS never outgrows its maxlen
\* (emit, api_events, the page's handlers).
THEOREM TypeCorrect == Spec => []TypeOK
<1>1. StreamInv => TypeOK
  BY TypeGroups DEF StreamInv, HubInv
<1>2. QED
  BY <1>1, StreamAlways, PTL

\* The page shows recorded events only, each once and every log's in the order of
\* that log, over breaking connections, the sort of each batch and restarts of
\* the portal (emit, _follow_logs, api_events, onmessage, onEvent, pump).
THEOREM TimelineIsAFeed == Spec => FeedKept
<1>1. Init => TimelineFeed!Init
  BY DEF Init, TimelineFeed!Init
<1>2. StreamInv /\ [Next]_vars
        => [TimelineFeed!Record \/ TimelineFeed!Show]_<<recorded, shown>>
  BY StreamStep DEF FeedStep
<1>3. QED
  BY <1>1, <1>2, StreamAlways, PTL DEF Spec, FeedKept, TimelineFeed!Spec

----------------------------------------------------------------------------
(* Nothing is lost on its way.                                             *)

\* The ids of EVENTS grow.
Growing == \A i, j \in DOMAIN events : i < j => events[i].id < events[j].id

\* Nobody is ahead of the portal; what is on the wire, in the order of its ids,
\* is what the generator has sent and the page has not handled.
Ahead ==
  run = 0 =>
    /\ lastId < nextId /\ sent < nextId
    /\ IF link THEN lastId <= sent ELSE wire = <<>>
    /\ \A i \in DOMAIN wire : lastId < wire[i].id /\ wire[i].id <= sent
    /\ \A i, j \in DOMAIN wire : i < j => wire[i].id < wire[j].id

OnWire(e) == \E j \in DOMAIN wire : wire[j] = e
Cursor    == IF link THEN sent ELSE lastId
Safe(e)   == OnPage(e) \/ OnWire(e) \/ e.id > Cursor

LostInv == Growing /\ Ahead /\ NoneLost

LEMMA LostIs == NoneLost <=> (run = 0 => \A i \in DOMAIN events : Safe(events[i]))
  BY DEF NoneLost, Safe, OnWire, Cursor

\* A step of the page and its connection: what was safe is safe.
LEMMA SafeStays ==
  ASSUME LostInv, UNCHANGED <<events, run, nextId>>, Ahead',
         run = 0 => \A i \in DOMAIN events : Safe(events[i]) => Safe(events[i])'
  PROVE  LostInv'
<1>1. run = 0 => \A i \in DOMAIN events : Safe(events[i])'
  BY LostIs DEF LostInv
<1>2. Growing'
  BY DEF LostInv, Growing
<1>3. NoneLost'
  BY <1>1 DEF NoneLost, Safe, OnWire, Cursor, OnPage
<1>4. QED
  BY <1>2, <1>3 DEF LostInv

\* Emit adds an event whose id nobody has asked for yet.
LEMMA EmitSafe ==
  ASSUME StreamInv, LostInv, NEW from, NEW title, NEW ts, Emit(from, title, ts),
         UNCHANGED <<run, linkVars, pageVars>>
  PROVE  LostInv'
<1> DEFINE e == [id |-> nextId, run |-> run, from |-> from, title |-> title, ts |-> ts]
<1>1. UNCHANGED <<run, link, sent, wire, lastId, pending, queue, shown>>
  BY DEF linkVars, pageVars
<1>2. /\ events \in Seq(Event) /\ nextId \in Nat /\ lastId \in Nat /\ sent \in Nat
      /\ \A i \in DOMAIN events : events[i].id < nextId /\ events[i].id \in Nat
  <2>1. events \in Seq(Event) /\ nextId \in Nat /\ lastId \in Nat /\ sent \in Nat
    BY DEF StreamInv, HubInv, HubTypes, PageTypes
  <2>2. \A i \in DOMAIN events : events[i] \in Event /\ events[i].id < nextId
    BY <2>1 DEF StreamInv, Current, Chronicle
  <2>3. QED
    BY <2>1, <2>2 DEF Event
<1>3. CASE UNCHANGED hubVars
  BY <1>1, <1>3 DEF hubVars, LostInv, Growing, Ahead, NoneLost, OnPage
<1>4. CASE events' = Kept(Append(events, e)) /\ nextId' = nextId + 1
  <2> DEFINE all == Append(events, e)
  <2>1. \A i \in DOMAIN all : all[i].id \in Nat /\ (all[i] = e \/ \E j \in DOMAIN events : all[i] = events[j])
    BY <1>2
  <2>2. \A i, j \in DOMAIN all : i < j => all[i].id < all[j].id
    BY <1>2 DEF LostInv, Growing
  <2>3. \A i \in DOMAIN events' : \E j \in DOMAIN all : events'[i] = all[j]
    BY <1>2, <1>4 DEF Kept
  <2>4. Growing'
    <3>1. \A i \in DOMAIN Tail(all) :
            i \in Nat /\ i + 1 \in DOMAIN all /\ Tail(all)[i] = all[i + 1]
      <4>1. e \in {e} \cup {events[i] : i \in DOMAIN events}
        OBVIOUS
      <4>2. all \in Seq({e} \cup {events[i] : i \in DOMAIN events}) /\ all # <<>>
        BY <1>2
      <4>3. QED
        BY <4>2
    <3>2. \A i, j \in DOMAIN Tail(all) : i < j => Tail(all)[i].id < Tail(all)[j].id
      BY <2>2, <3>1
    <3>3. QED
      BY <1>4, <2>2, <3>2 DEF Kept, Growing
  <2>5. Ahead'
    BY <1>1, <1>2, <1>4 DEF LostInv, Ahead
  <2>6. ASSUME run = 0, NEW x, x = e \/ \E j \in DOMAIN events : x = events[j]
        PROVE  Safe(x)
    <3>1. CASE x = e
      BY <1>2, <2>6, <3>1 DEF LostInv, Ahead, Safe, Cursor
    <3>2. CASE x # e
      BY <2>6, <3>2, LostIs DEF LostInv
    <3>3. QED
      BY <3>1, <3>2
  <2>7. \A x : Safe(x) => Safe(x)'
    BY <1>1 DEF Safe, OnPage, OnWire, Cursor
  <2>8. NoneLost'
    <3>1. run = 0 => \A i \in DOMAIN events' : Safe(events'[i])
      BY <2>1, <2>3, <2>6
    <3>2. run = 0 => \A i \in DOMAIN events' :
                       \/ OnPage(events'[i]) \/ OnWire(events'[i]) \/ events'[i].id > Cursor
      BY <3>1 DEF Safe
    <3>3. QED
      BY <1>1, <3>2 DEF NoneLost, OnPage, OnWire, Cursor
  <2>9. QED
    BY <2>4, <2>5, <2>8 DEF LostInv
<1>5. QED
  BY <1>3, <1>4 DEF Emit

LEMMA StreamSafe ==
  ASSUME StreamInv, LostInv, Stream
  PROVE  LostInv'
<1>1. PICK i \in DOMAIN events :
        /\ events[i].id > sent /\ \A j \in 1..i - 1 : events[j].id <= sent
        /\ wire' = wire \o SubSeq(events, i, Len(events))
  BY DEF Stream
<1>2. /\ sent' = events[Len(events)].id /\ link
      /\ UNCHANGED <<events, nextId, run, link, lastId, pending, queue, shown>>
  BY DEF Stream, hubVars, pageVars
<1>3. events \in Seq(Event) /\ wire \in Seq(Event) /\ sent \in Nat /\ lastId \in Nat /\ link \in BOOLEAN
  BY DEF StreamInv, HubInv, HubTypes, PageTypes
<1>4. \A j \in DOMAIN events : events[j].id \in Nat /\ events[j].id < nextId
  <2>1. \A j \in DOMAIN events : events[j] \in Event /\ events[j].id < nextId
    BY <1>3 DEF StreamInv, Current, Chronicle
  <2>2. QED
    BY <2>1 DEF Event
<1>5. \A j, k \in DOMAIN events : j < k => events[j].id < events[k].id
  BY DEF LostInv, Growing
<1> DEFINE new == SubSeq(events, i, Len(events))
<1>6. /\ new \in Seq(Event) /\ Len(new) = Len(events) - i + 1
      /\ \A j \in 1..Len(new) : new[j] = events[i + j - 1]
  BY <1>1, <1>3, SubSeqProperties
<1>7. /\ wire' \in Seq(Event) /\ Len(wire') = Len(wire) + Len(new)
      /\ \A j \in 1..Len(wire) + Len(new) :
           wire'[j] = IF j <= Len(wire) THEN wire[j] ELSE new[j - Len(wire)]
  BY <1>1, <1>3, <1>6, ConcatProperties
<1> HIDE DEF new
<1>8. /\ Len(wire) \in Nat /\ Len(new) \in Nat /\ Len(events) \in Nat
      /\ i \in Nat \ {0} /\ i <= Len(events)
      /\ DOMAIN wire = 1..Len(wire) /\ DOMAIN new = 1..Len(new) /\ DOMAIN events = 1..Len(events)
      /\ DOMAIN wire' = 1..Len(wire) + Len(new)
  BY <1>3, <1>6, <1>7
<1>9. \A j \in DOMAIN wire' :
        \/ j \in DOMAIN wire /\ wire'[j] = wire[j]
        \/ j > Len(wire) /\ i + (j - Len(wire)) - 1 \in i..Len(events)
             /\ wire'[j] = events[i + (j - Len(wire)) - 1]
  <2> TAKE j \in DOMAIN wire'
  <2>1. CASE j <= Len(wire)
    BY <1>7, <1>8, <2>1
  <2>2. CASE j > Len(wire)
    <3>1. j - Len(wire) \in 1..Len(new) /\ wire'[j] = new[j - Len(wire)]
      BY <1>7, <1>8, <2>2
    <3>2. j - Len(wire) <= Len(events) - i + 1
      BY <1>6, <3>1
    <3>3. i + (j - Len(wire)) - 1 \in i..Len(events)
      BY <1>8, <3>1, <3>2
    <3>4. QED
      BY <1>6, <2>2, <3>1, <3>3
  <2>3. QED
    BY <1>8, <2>1, <2>2
<1>10. Ahead'
  <2> SUFFICES ASSUME run = 0 PROVE Ahead'
    BY <1>2 DEF Ahead
  <2>1. /\ lastId < nextId /\ lastId <= sent
        /\ \A j \in DOMAIN wire : lastId < wire[j].id /\ wire[j].id <= sent /\ wire[j].id \in Nat
        /\ \A j, k \in DOMAIN wire : j < k => wire[j].id < wire[k].id
    <3>1. \A j \in DOMAIN wire : wire[j] \in Event
      BY <1>3
    <3>2. QED
      BY <1>2, <3>1 DEF LostInv, Ahead, Event
  <2>2. sent < sent' /\ sent' < nextId /\ sent' \in Nat
        /\ \A j \in i..Len(events) : j \in DOMAIN events /\ sent < events[j].id /\ events[j].id <= sent'
    <3>1. Len(events) \in DOMAIN events /\ i <= Len(events) /\ i \in Nat
      BY <1>1, <1>3
    <3>2. \A j \in i..Len(events) : /\ j \in DOMAIN events
                                    /\ j = i \/ events[i].id < events[j].id
                                    /\ j = Len(events) \/ events[j].id < events[Len(events)].id
      BY <1>3, <1>5, <3>1
    <3>3. events[i].id \in Nat /\ sent' = events[Len(events)].id /\ sent' \in Nat /\ sent' < nextId
      BY <1>2, <1>4, <3>1
    <3>4. \A j \in i..Len(events) : /\ j \in DOMAIN events /\ events[j].id \in Nat
                                    /\ events[i].id <= events[j].id /\ events[j].id <= sent'
      BY <1>4, <3>2, <3>3
    <3>5. sent < events[i].id
      BY <1>1, <1>3, <3>3
    <3>6. \A j \in i..Len(events) : sent < events[j].id
      BY <1>3, <3>3, <3>4, <3>5
    <3>7. Len(events) \in i..Len(events)
      BY <3>1
    <3>8. sent < sent'
      BY <1>2, <3>6, <3>7
    <3>9. QED
      BY <3>3, <3>4, <3>6, <3>8
  <2>3. \A j \in DOMAIN wire' : lastId < wire'[j].id /\ wire'[j].id <= sent'
    BY <1>3, <1>4, <1>9, <2>1, <2>2
  <2>4. ASSUME NEW j \in DOMAIN wire', NEW k \in DOMAIN wire', j < k
        PROVE  wire'[j].id < wire'[k].id
    <3>1. CASE k \in DOMAIN wire /\ wire'[k] = wire[k]
      <4>1. j \in DOMAIN wire /\ wire'[j] = wire[j]
        BY <1>8, <1>9, <2>4, <3>1
      <4>2. QED
        BY <2>1, <2>4, <3>1, <4>1
    <3>2. CASE /\ j \in DOMAIN wire /\ wire'[j] = wire[j]
               /\ i + (k - Len(wire)) - 1 \in i..Len(events)
               /\ wire'[k] = events[i + (k - Len(wire)) - 1]
      BY <1>3, <1>4, <2>1, <2>2, <3>2
    <3>3. CASE /\ i + (j - Len(wire)) - 1 \in i..Len(events)
               /\ wire'[j] = events[i + (j - Len(wire)) - 1]
               /\ i + (k - Len(wire)) - 1 \in i..Len(events)
               /\ wire'[k] = events[i + (k - Len(wire)) - 1]
      <4>1. i + (j - Len(wire)) - 1 < i + (k - Len(wire)) - 1
        BY <1>8, <2>4
      <4>2. QED
        BY <1>5, <2>2, <3>3, <4>1
    <3>4. QED
      BY <1>8, <1>9, <2>4, <3>1, <3>2, <3>3
  <2>5. /\ lastId' < nextId' /\ sent' < nextId' /\ link' /\ lastId' <= sent'
        /\ \A j \in DOMAIN wire' : lastId' < wire'[j].id /\ wire'[j].id <= sent'
    <3>1. lastId <= sent'
      BY <1>3, <2>1, <2>2
    <3>2. QED
      BY <1>2, <2>1, <2>2, <2>3, <3>1
  <2>6. \A j, k \in DOMAIN wire' : j < k => wire'[j].id < wire'[k].id
    BY <2>4
  <2>7. QED
    BY <2>5, <2>6 DEF Ahead
<1>11. ASSUME run = 0, NEW k \in DOMAIN events, Safe(events[k]) PROVE Safe(events[k])'
  <2>1. CASE k >= i
    <3>1. k - i + 1 \in 1..Len(new) /\ new[k - i + 1] = events[k]
      <4>1. k \in Nat /\ k <= Len(events)
        BY <1>8
      <4>2. k - i + 1 \in 1..Len(new)
        BY <1>6, <1>8, <2>1, <4>1
      <4>3. i + (k - i + 1) - 1 = k
        BY <1>8, <4>1
      <4>4. QED
        BY <1>6, <4>2, <4>3
    <3>2. Len(wire) + (k - i + 1) \in DOMAIN wire' /\ wire'[Len(wire) + (k - i + 1)] = events[k]
      <4> DEFINE m == k - i + 1
      <4>1. m \in 1..Len(new) /\ new[m] = events[k]
        BY <3>1
      <4> HIDE DEF m
      <4>2. Len(wire) + m \in 1..Len(wire) + Len(new) /\ ~(Len(wire) + m <= Len(wire))
              /\ (Len(wire) + m) - Len(wire) = m
        BY <1>8, <4>1
      <4>3. wire'[Len(wire) + m] = new[m]
        BY <1>7, <4>2
      <4>4. QED
        BY <1>8, <4>1, <4>2, <4>3 DEF m
    <3>3. OnWire(events[k])'
      BY <1>2, <3>2 DEF OnWire
    <3>4. QED
      BY <3>3 DEF Safe
  <2>2. CASE k < i
    <3>1. events[k].id <= sent
      BY <1>1, <1>3, <2>2
    <3>2. OnPage(events[k]) \/ OnWire(events[k])
      BY <1>2, <1>3, <1>4, <1>11, <3>1 DEF Safe, Cursor
    <3>3. OnPage(events[k]) => OnPage(events[k])'
      BY <1>2 DEF OnPage
    <3>4. OnWire(events[k]) => OnWire(events[k])'
      <4>1. \A j \in DOMAIN wire : j \in DOMAIN wire' /\ wire'[j] = wire[j]
        BY <1>7, <1>8
      <4>2. QED
        BY <1>2, <4>1 DEF OnWire
    <3>5. QED
      BY <3>2, <3>3, <3>4 DEF Safe
  <2>3. QED
    BY <1>1, <1>3, <2>1, <2>2
<1>12. QED
  BY <1>2, <1>10, <1>11, SafeStays

\* The page takes the next of what is on the wire into its batch, or has it.
LEMMA ReceiveSafe ==
  ASSUME StreamInv, LostInv, Receive
  PROVE  LostInv'
<1>0. PICK e : e = Head(wire)
  OBVIOUS
<1>1. /\ wire # <<>> /\ wire' = Tail(wire)
      /\ UNCHANGED <<events, nextId, run, queue, shown, link, sent>>
  BY DEF Receive, hubVars
<1>2. wire \in Seq(Event) /\ lastId \in Nat
  BY DEF StreamInv, PageTypes
<1>3. /\ 1 \in DOMAIN wire /\ e = wire[1] /\ e.id \in Nat
      /\ \A j \in DOMAIN wire' : j + 1 \in DOMAIN wire /\ 1 < j + 1 /\ wire'[j] = wire[j + 1]
      /\ \A j \in DOMAIN wire : j = 1 \/ (j - 1 \in DOMAIN wire' /\ wire'[j - 1] = wire[j])
  <2>1. 1 \in DOMAIN wire /\ e = wire[1] /\ Len(wire) \in Nat /\ DOMAIN wire = 1..Len(wire)
        /\ DOMAIN wire' = 1..Len(wire) - 1 /\ \A j \in 1..Len(wire) - 1 : wire'[j] = wire[j + 1]
    BY <1>0, <1>1, <1>2
  <2>2. e \in Event
    BY <1>2, <2>1
  <2>3. \A j \in DOMAIN wire' : j + 1 \in DOMAIN wire /\ 1 < j + 1 /\ wire'[j] = wire[j + 1]
    BY <2>1
  <2>4. \A j \in DOMAIN wire : j = 1 \/ (j - 1 \in 1..Len(wire) - 1 /\ j - 1 + 1 = j)
    BY <2>1
  <2>5. \A j \in DOMAIN wire : j = 1 \/ (j - 1 \in DOMAIN wire' /\ wire'[j - 1] = wire[j])
    BY <2>1, <2>4
  <2>6. e.id \in Nat
    BY <2>2 DEF Event
  <2>7. QED
    BY <2>1, <2>3, <2>5, <2>6
<1>4. CASE run # 0
  <2>1. Ahead'
    BY <1>1, <1>4 DEF Ahead
  <2>2. QED
    BY <1>1, <1>4, <2>1, SafeStays
<1>5. CASE run = 0
  <2>1. /\ lastId < nextId /\ sent < nextId /\ link
        /\ \A i \in DOMAIN wire : lastId < wire[i].id /\ wire[i].id <= sent
        /\ \A i, j \in DOMAIN wire : i < j => wire[i].id < wire[j].id
    BY <1>1, <1>5 DEF LostInv, Ahead
  <2>2. lastId < e.id /\ e.id <= sent
    BY <1>3, <2>1
  <2>3. lastId' = e.id /\ pending' = pending \cup {e}
    BY <1>0, <1>2, <1>3, <2>2 DEF Receive
  <2>4. /\ \A i \in DOMAIN wire' : e.id < wire'[i].id /\ wire'[i].id <= sent
        /\ \A i, j \in DOMAIN wire' : i < j => wire'[i].id < wire'[j].id
    <3>1. \A i \in DOMAIN wire' : e.id < wire'[i].id /\ wire'[i].id <= sent
      BY <1>3, <2>1
    <3>2. ASSUME NEW i \in DOMAIN wire', NEW j \in DOMAIN wire', i < j
          PROVE  wire'[i].id < wire'[j].id
      <4>1. i + 1 < j + 1
        BY <1>2, <1>1, <3>2
      <4>2. QED
        BY <1>3, <2>1, <4>1
    <3>3. QED
      BY <3>1, <3>2
  <2>5. e.id < nextId
    <3>1. sent \in Nat /\ nextId \in Nat
      BY DEF StreamInv, PageTypes, HubInv, HubTypes
    <3>2. QED
      BY <1>3, <2>1, <2>2, <3>1
  <2>6. Ahead'
    BY <1>1, <2>1, <2>2, <2>3, <2>4, <2>5 DEF Ahead
  <2>7. ASSUME NEW x, Safe(x) PROVE Safe(x)'
    <3>1. OnPage(x) => OnPage(x)'
      BY <1>1, <2>3 DEF OnPage
    <3>2. OnWire(x) => OnPage(x)' \/ OnWire(x)'
      BY <1>3, <2>3 DEF OnPage, OnWire
    <3>3. x.id > Cursor => (x.id > Cursor)'
      BY <1>1, <2>1 DEF Cursor
    <3>4. QED
      BY <2>7, <3>1, <3>2, <3>3 DEF Safe
  <2>8. QED
    BY <1>1, <2>6, <2>7, SafeStays
<1>6. QED
  BY <1>4, <1>5

\* A broken connection: what was on the wire is above the page's last id.
LEMMA LinkSafe ==
  ASSUME StreamInv, LostInv, Connect \/ Disconnect
  PROVE  LostInv'
<1>1. /\ wire' = <<>> /\ link' = ~link
      /\ UNCHANGED <<events, nextId, run, lastId, pending, queue, shown>>
  BY DEF Connect, Disconnect, hubVars, pageVars, StreamInv, PageTypes
<1>2. /\ link \in BOOLEAN /\ lastId \in Nat /\ sent \in Nat /\ nextId \in Nat \ {0}
      /\ wire \in Seq(Event)
  BY DEF StreamInv, HubInv, HubTypes, PageTypes
<1>3. sent' = (IF link THEN 0 ELSE lastId)
  BY <1>2 DEF Connect, Disconnect
<1>4. Ahead'
  <2> SUFFICES ASSUME run = 0
               PROVE  lastId < nextId /\ sent' < nextId /\ (link' => lastId <= sent')
    BY <1>1 DEF Ahead
  <2>1. lastId < nextId
    BY DEF LostInv, Ahead
  <2>2. QED
    <3>1. CASE link
      <4>1. ~link'
        BY <1>1, <3>1
      <4>2. sent' = 0
        BY <1>3, <3>1
      <4>3. sent' < nextId
        BY <1>2, <4>2
      <4>4. QED
        BY <2>1, <4>1, <4>3
    <3>2. CASE ~link
      BY <1>1, <1>2, <1>3, <2>1, <3>2
    <3>3. QED
      BY <3>1, <3>2
<1>5. ASSUME run = 0, NEW i \in DOMAIN events, Safe(events[i]) PROVE Safe(events[i])'
  <2>1. OnPage(events[i]) => OnPage(events[i])'
    BY <1>1 DEF OnPage
  <2>2. Cursor' = lastId
    BY <1>1, <1>2, <1>3 DEF Cursor
  <2>3. OnWire(events[i]) => events[i].id > lastId
    <3>1. \A j \in DOMAIN wire : lastId < wire[j].id
      BY <1>5 DEF LostInv, Ahead
    <3>2. \A j \in DOMAIN wire : wire[j].id \in Nat
      <4>1. \A j \in DOMAIN wire : wire[j] \in Event
        BY <1>2
      <4>2. QED
        BY <4>1 DEF Event
    <3>3. QED
      BY <1>2, <3>1, <3>2 DEF OnWire
  <2>4. events[i].id > Cursor => events[i].id > lastId
    <3>1. Cursor \in Nat /\ lastId <= Cursor
      BY <1>2, <1>5 DEF LostInv, Ahead, Cursor
    <3>2. events[i].id \in Nat
      <4>1. events \in Seq(Event)
        BY DEF StreamInv, HubInv, HubTypes
      <4>2. events[i] \in Event
        BY <4>1
      <4>3. QED
        BY <4>2 DEF Event
    <3>3. QED
      BY <1>2, <3>1, <3>2
  <2>5. Safe(events[i])' <=> OnPage(events[i])' \/ OnWire(events[i])' \/ events[i].id > lastId
    BY <1>1, <2>2 DEF Safe
  <2>6. QED
    BY <1>5, <2>1, <2>3, <2>4, <2>5 DEF Safe
<1>6. QED
  BY <1>1, <1>4, <1>5, SafeStays

\* The batch takes every event that was waiting along.
LEMMA FlushSafe ==
  ASSUME StreamInv, LostInv, Flush
  PROVE  LostInv'
<1>1. UNCHANGED <<events, nextId, run, link, sent, wire, lastId, shown>>
  BY DEF Flush, hubVars, linkVars
<1>2. PICK batch \in [1..Cardinality(pending) -> pending] :
        /\ \A i, j \in DOMAIN batch : i < j => Precedes(batch[i], batch[j])
        /\ queue' = queue \o batch
  BY DEF Flush
<1>3. Cardinality(pending) \in Nat /\ DOMAIN batch = 1..Cardinality(pending) /\ IsFiniteSet(pending)
  BY <1>2, FS_CardinalityType DEF StreamInv, Page
<1>4. \A p \in pending : \E i \in DOMAIN batch : batch[i] = p
  <2>1. ASSUME NEW i \in DOMAIN batch, NEW j \in DOMAIN batch, i < j
        PROVE  batch[i] # batch[j]
    <3>1. batch[i] \in Event /\ Precedes(batch[i], batch[j])
      BY <1>2, <2>1 DEF StreamInv, PageTypes
    <3>2. batch[i].ts \in Int /\ batch[i].id \in Int
      BY <3>1 DEF Event, Time
    <3>3. QED
      BY <3>1, <3>2 DEF Precedes
  <2>2. batch \in Injection(1..Cardinality(pending), pending)
    <3>1. \A i, j \in DOMAIN batch : i = j \/ i < j \/ j < i
      BY <1>3
    <3>2. IsInjective(batch)
      BY <2>1, <3>1 DEF IsInjective
    <3>3. QED
      BY <1>2, <3>2 DEF Injection
  <2>3. Cardinality(1..Cardinality(pending)) = Cardinality(pending)
    <3>1. PICK n \in Nat : n = Cardinality(pending)
      BY <1>3
    <3>2. Cardinality(1..n) = IF 1 > n THEN 0 ELSE n - 1 + 1
      BY FS_Interval
    <3>3. QED
      BY <3>1, <3>2
  <2>4. batch \in Surjection(1..Cardinality(pending), pending)
    BY <1>3, <2>2, <2>3, FS_Injection
  <2>5. QED
    BY <1>3, <2>4 DEF Surjection
<1>5. queue \in Seq(Event) /\ batch \in Seq(Event) /\ Len(batch) = Cardinality(pending)
  <2>1. \A x \in pending : x \in Event
    BY DEF StreamInv, PageTypes
  <2>2. \E n \in Nat : batch \in [1..n -> Event] /\ n = Cardinality(pending)
    BY <1>2, <1>3, <2>1
  <2>3. QED
    BY <2>2 DEF StreamInv, PageTypes
<1>6. /\ Len(queue') = Len(queue) + Len(batch) /\ queue' \in Seq(Event)
      /\ \A i \in 1..Len(queue) + Len(batch) :
           queue'[i] = IF i <= Len(queue) THEN queue[i] ELSE batch[i - Len(queue)]
  BY <1>2, <1>5, ConcatProperties
<1>7. /\ DOMAIN queue' = 1..Len(queue) + Len(batch) /\ DOMAIN batch = 1..Len(batch)
      /\ DOMAIN queue = 1..Len(queue) /\ Len(queue) \in Nat /\ Len(batch) \in Nat
  BY <1>5, <1>6
<1>8. \A i \in DOMAIN batch : Len(queue) + i \in DOMAIN queue' /\ queue'[Len(queue) + i] = batch[i]
  <2> TAKE i \in DOMAIN batch
  <2>1. /\ Len(queue) + i \in 1..Len(queue) + Len(batch) /\ ~(Len(queue) + i <= Len(queue))
        /\ (Len(queue) + i) - Len(queue) = i
    BY <1>7
  <2>2. QED
    BY <1>6, <1>7, <2>1
<1>9. \A p \in pending : \E i \in DOMAIN queue' : queue'[i] = p
  BY <1>4, <1>8
<1>10. \A i \in DOMAIN queue : i \in DOMAIN queue' /\ queue'[i] = queue[i]
  BY <1>6, <1>7
<1>11. \A x : OnPage(x) => OnPage(x)'
  BY <1>1, <1>9, <1>10 DEF OnPage
<1>12. Ahead'
  BY <1>1 DEF LostInv, Ahead
<1>13. \A x : Safe(x) => Safe(x)'
  BY <1>1, <1>11 DEF Safe, OnWire, Cursor
<1>14. QED
  BY <1>1, <1>12, <1>13, SafeStays

\* The page reveals the head of its queue.
LEMMA PumpSafe ==
  ASSUME StreamInv, LostInv, Pump
  PROVE  LostInv'
<1>1. /\ queue # <<>> /\ queue' = Tail(queue) /\ shown' = Append(shown, Head(queue))
      /\ UNCHANGED <<events, nextId, run, link, sent, wire, lastId, pending>>
  BY DEF Pump, hubVars, linkVars
<1>2. queue \in Seq(Event) /\ shown \in Seq(Event)
  BY DEF StreamInv, PageTypes
<1>3. \A j \in DOMAIN shown : j \in DOMAIN shown' /\ shown'[j] = shown[j]
  BY <1>1, <1>2
<1>4. \E j \in DOMAIN shown' : shown'[j] = queue[1]
  <2>1. Len(shown) + 1 \in DOMAIN shown' /\ shown'[Len(shown) + 1] = queue[1]
    BY <1>1, <1>2
  <2>2. QED
    BY <2>1
<1>5. \A j \in DOMAIN queue : j = 1 \/ (j - 1 \in DOMAIN queue' /\ queue'[j - 1] = queue[j])
  <2>1. Len(queue) \in Nat /\ DOMAIN queue = 1..Len(queue)
        /\ DOMAIN queue' = 1..Len(queue) - 1 /\ \A j \in 1..Len(queue) - 1 : queue'[j] = queue[j + 1]
    BY <1>1, <1>2
  <2>2. \A j \in DOMAIN queue : j = 1 \/ (j - 1 \in 1..Len(queue) - 1 /\ j - 1 + 1 = j)
    BY <2>1
  <2>3. QED
    BY <2>1, <2>2
<1>6. \A x : OnPage(x) => OnPage(x)'
  BY <1>1, <1>3, <1>4, <1>5 DEF OnPage
<1>7. Ahead'
  BY <1>1 DEF LostInv, Ahead
<1>8. \A x : Safe(x) => Safe(x)'
  BY <1>1, <1>6 DEF Safe, OnWire, Cursor
<1>9. QED
  BY <1>1, <1>7, <1>8, SafeStays

\* Steps that touch neither EVENTS nor the page, and the restart.
LEMMA QuietSafe ==
  ASSUME StreamInv, LostInv,
         \/ UNCHANGED <<hubVars, run, linkVars, pageVars>>
         \/ PortalRestart
  PROVE  LostInv'
<1>1. CASE UNCHANGED <<hubVars, run, linkVars, pageVars>>
  BY <1>1 DEF hubVars, linkVars, pageVars, LostInv, Growing, Ahead, NoneLost, OnPage
<1>2. CASE PortalRestart
  <2>1. events' = <<>> /\ run' # 0
    <3>1. run \in Nat /\ run' = run + 1 /\ events' = <<>>
      BY <1>2 DEF PortalRestart, StreamInv, HubInv, HubTypes
    <3>2. QED
      BY <3>1
  <2>2. QED
    BY <2>1 DEF LostInv, Growing, Ahead, NoneLost
<1>3. QED
  BY <1>1, <1>2

LEMMA LostInit == Init => LostInv
<1> SUFFICES ASSUME Init PROVE LostInv
  OBVIOUS
<1>1. /\ events = <<>> /\ nextId = 1 /\ link = FALSE /\ sent = 0 /\ wire = <<>> /\ lastId = 0
  BY DEF Init
<1>2. QED
  BY <1>1 DEF LostInv, Growing, Ahead, NoneLost

LEMMA LostNext == StreamInv /\ LostInv /\ [Next]_vars => LostInv'
<1> SUFFICES ASSUME StreamInv, LostInv, [Next]_vars PROVE LostInv'
  OBVIOUS
<1>1. CASE \E l \in Logs : Follow(l)
  <2>1. PICK l \in Logs : Follow(l)
    BY <1>1
  <2>2. PICK i \in DOMAIN logs[l] :
          IF logs[l][i].title = "none" THEN UNCHANGED hubVars
          ELSE Emit(l, logs[l][i].title, logs[l][i].ts)
    BY <2>1 DEF Follow
  <2>3. UNCHANGED <<run, linkVars, pageVars>>
    BY <2>1 DEF Follow
  <2>4. QED
    BY <2>2, <2>3, EmitSafe, QuietSafe
<1>2. CASE (\E t \in Titles : PortalEmits(t)) \/ AttachSummary
  <2>1. PICK title, ts : Emit("portal", title, ts)
    BY <1>2 DEF PortalEmits, AttachSummary
  <2>2. UNCHANGED <<run, linkVars, pageVars>>
    BY <1>2 DEF PortalEmits, AttachSummary
  <2>3. QED
    BY <2>1, <2>2, EmitSafe
<1>3. CASE \/ \E l \in Logs : \E t \in Titles \cup {"none"} : Logged(l, t)
           \/ Tick \/ UNCHANGED vars
  <2>1. UNCHANGED <<hubVars, run, linkVars, pageVars>>
    BY <1>3 DEF Logged, Tick, vars
  <2>2. QED
    BY <2>1, QuietSafe
<1>4. QED
  BY <1>1, <1>2, <1>3, LinkSafe, StreamSafe, ReceiveSafe, FlushSafe, PumpSafe, QuietSafe DEF Next

\* Over any number of connections that break at any moment, and whatever falls
\* out of the full deque, no event that EVENTS still holds is skipped: it is on
\* the page, on the wire, or above the id from which the generator or the page's
\* next request goes on (emit, api_events, connectEvents, onmessage, onEvent, pump).
THEOREM NothingIsLost == Spec => []NoneLost
<1>1. LostInv => NoneLost
  BY DEF LostInv
<1>2. QED
  BY <1>1, LostInit, LostNext, StreamAlways, PTL DEF Spec
=============================================================================
