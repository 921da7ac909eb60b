---------------------------- MODULE EventStream ----------------------------
(***************************************************************************)
(* The signalling timeline, from the containers' logs to one browser: the  *)
(* log followers and the portal's own threads emit into a bounded deque    *)
(* (portal/app.py), /api/events streams what a client has not seen, and    *)
(* the page buffers, sorts and reveals (static/index.html).                *)
(***************************************************************************)
EXTENDS Integers, Sequences, FiniteSets

CONSTANTS
  Logs,       \* the containers whose logs are followed
  Titles,     \* what their lines and the portal's threads report
  Window,     \* a repeat within this many ticks is dropped (1.5 s in the code)
  Cap,        \* EVENTS.maxlen (400 in the code)
  MaxTime,    \* bound on the clock
  MaxMade,    \* bound on how many log lines and portal events there are
  MaxRestarts \* bound on how often the portal is restarted

ASSUME StreamAssumption ==
  /\ "portal" \notin Logs /\ Titles \cap {"none", "online"} = {}
  /\ Window \in Nat \ {0, 1} /\ Cap \in Nat \ {0}
  /\ MaxTime \in Nat /\ MaxMade \in Nat /\ MaxRestarts \in Nat

Time    == 0..MaxTime
Sources == Logs \cup {"portal"}
Reports == Titles \cup {"online"} \* _attach_summary's "Phone online in ... ms"
Line    == [title : Titles \cup {"none"}, ts : Time] \* "none": the parser has no use for it
Event   == [id : Nat \ {0}, run : 0..MaxRestarts, from : Sources, title : Reports, ts : Time]

VARIABLES
  now,      \* the clock all containers share
  made,     \* lines and portal events so far, bounded by MaxMade
  logs,     \* each container's log
  last,     \* the time stamp each follower has read up to
  events,   \* EVENTS
  nextId,   \* _event_id + 1
  recent,   \* _recent_titles, long ago for a key that is not there
  run,      \* how often the portal was restarted
  link,     \* is an EventSource connected
  sent,     \* the id its generator has streamed up to
  wire,     \* what it has sent and the page has not handled
  lastId,   \* the page's lastId
  pending,  \* the page's pending, a set: the timer's handler sorts it
  queue,    \* the page's queue
  shown,    \* history: what the page has revealed
  recorded  \* history: every event that ever was in EVENTS

logVars  == <<made, logs, last>>
hubVars  == <<events, nextId, recent, recorded>>
linkVars == <<link, sent, wire>>
pageVars == <<lastId, pending, queue, shown>>
vars     == <<now, logVars, hubVars, run, linkVars, pageVars>>

TypeOK ==
  /\ now \in Time /\ made \in 0..MaxMade /\ run \in 0..MaxRestarts
  /\ logs \in [Logs -> Seq(Line)] /\ last \in [Logs -> Time]
  /\ events \in Seq(Event) /\ Len(events) <= Cap
  /\ nextId \in Nat \ {0}
  /\ recent \in [Sources \X Reports -> -Window..MaxTime]
  /\ link \in BOOLEAN /\ sent \in Nat /\ wire \in Seq(Event)
  /\ lastId \in Nat /\ pending \subseteq Event /\ queue \in Seq(Event)
  /\ shown \in Seq(Event) /\ recorded \subseteq Event

NothingRecent == [k \in Sources \X Reports |-> -Window]

Init ==
  /\ now = 0 /\ made = 0 /\ run = 0
  /\ logs = [l \in Logs |-> <<>>] /\ last = [l \in Logs |-> 0]
  /\ events = <<>> /\ nextId = 1 /\ recent = NothingRecent /\ recorded = {}
  /\ link = FALSE /\ sent = 0 /\ wire = <<>>
  /\ lastId = 0 /\ pending = {} /\ queue = <<>> /\ shown = <<>>

----------------------------------------------------------------------------
(* Recording.                                                              *)

\* Mutant: _recent_titles is not written.
RepeatsPass(key, ts) == TRUE

\* Nothing of this source and title within Window of ts, before or after.
IsNew(key, ts) == ts - recent[key] >= Window \/ recent[key] - ts >= Window

\* Mutant: the deque has no maxlen.
Unbounded(list) == list

\* The oldest event falls out of a full deque.
Kept(list) == IF Len(list) > Cap THEN Tail(list) ELSE list

Emit(from, title, ts) ==
  LET e == [id |-> nextId, run |-> run, from |-> from, title |-> title, ts |-> ts]
  IN  IF IsNew(<<from, title>>, ts)
      THEN /\ recent' = [recent EXCEPT ![<<from, title>>] = ts]
           /\ nextId' = nextId + 1
           /\ events' = Kept(Append(events, e))
           /\ recorded' = recorded \cup {e}
      ELSE UNCHANGED hubVars

\* A container logs a line.
Logged(l, title) ==
  /\ made < MaxMade /\ made' = made + 1
  /\ logs' = [logs EXCEPT ![l] = Append(@, [title |-> title, ts |-> now])]
  /\ UNCHANGED <<now, last, hubVars, run, linkVars, pageVars>>

\* _follow_logs takes the next line after `last`; one with the time stamp of
\* the line before it is skipped for good.
Follow(l) ==
  \E i \in DOMAIN logs[l] :
    LET line == logs[l][i]
    IN  /\ line.ts > last[l] /\ \A j \in 1..i - 1 : logs[l][j].ts <= last[l]
        /\ last' = [last EXCEPT ![l] = line.ts]
        /\ IF line.title = "none" THEN UNCHANGED hubVars ELSE Emit(l, line.title, line.ts)
        /\ UNCHANGED <<now, made, logs, run, linkVars, pageVars>>

\* A thread of the portal emits; it took the time before it got _event_lock.
PortalEmits(title) ==
  /\ made < MaxMade /\ made' = made + 1
  /\ \E ts \in {now, now - 1} \cap Time : Emit("portal", title, ts)
  /\ UNCHANGED <<now, logs, last, run, linkVars, pageVars>>

\* _attach_summary, for the operation that began at the latest after the one
\* before: its event gets the time of the last tunnel's line, which is over.
AttachSummary ==
  /\ made < MaxMade /\ made' = made + 1
  /\ \E i \in DOMAIN events :
       /\ events[i].from \in Logs /\ events[i].ts > recent[<<"portal", "online">>]
       /\ Emit("portal", "online", events[i].ts)
  /\ UNCHANGED <<now, logs, last, run, linkVars, pageVars>>

----------------------------------------------------------------------------
(* Streaming: /api/events and the page's EventSource.                      *)

\* Mutant: a new EventSource asks only for what is still to come.
ConnectLate ==
  /\ ~link /\ link' = TRUE /\ sent' = nextId - 1 /\ wire' = <<>>
  /\ UNCHANGED <<now, logVars, hubVars, run, pageVars>>

\* connectEvents: ask for what comes after the last event received.
Connect ==
  /\ ~link /\ link' = TRUE /\ sent' = lastId /\ wire' = <<>>
  /\ UNCHANGED <<now, logVars, hubVars, run, pageVars>>

\* One round of the generator: what is above `sent` is the end of the deque, as
\* ids grow.
Stream ==
  /\ link
  /\ \E i \in DOMAIN events :
       /\ events[i].id > sent /\ \A j \in 1..i - 1 : events[j].id <= sent
       /\ wire' = wire \o SubSeq(events, i, Len(events))
  /\ sent' = events[Len(events)].id
  /\ UNCHANGED <<now, logVars, hubVars, run, link, pageVars>>

\* Mutant: the page takes the batch for received as it comes in.
ReceiveAhead ==
  /\ wire # <<>> /\ wire' = Tail(wire)
  /\ IF Head(wire).id <= lastId THEN UNCHANGED <<lastId, pending>>
     ELSE lastId' = wire[Len(wire)].id /\ pending' = pending \cup {Head(wire)}
  /\ UNCHANGED <<now, logVars, hubVars, run, link, sent, queue, shown>>

\* The connection breaks; what was under way is gone.
Disconnect ==
  /\ link /\ link' = FALSE /\ wire' = <<>> /\ sent' = 0
  /\ UNCHANGED <<now, logVars, hubVars, run, pageVars>>

Receive ==
  /\ wire # <<>> /\ wire' = Tail(wire)
  /\ IF Head(wire).id <= lastId THEN UNCHANGED <<lastId, pending>>
     ELSE lastId' = Head(wire).id /\ pending' = pending \cup {Head(wire)}
  /\ UNCHANGED <<now, logVars, hubVars, run, link, sent, queue, shown>>

----------------------------------------------------------------------------
(* Showing.                                                                *)

\* Mutant: the newest first.
NewestFirst(a, b) == a.ts > b.ts \/ (a.ts = b.ts /\ a.id > b.id)

\* By time stamp; the sort is stable and pending was in the order of the ids.
Precedes(a, b) == a.ts < b.ts \/ (a.ts = b.ts /\ a.id < b.id)

\* The 700 ms timer, restarted by each event, runs out.
Flush ==
  /\ pending # {} /\ pending' = {}
  /\ \E batch \in [1..Cardinality(pending) -> pending] :
       /\ \A i, j \in DOMAIN batch : i < j => Precedes(batch[i], batch[j])
       /\ queue' = queue \o batch
  /\ UNCHANGED <<now, logVars, hubVars, run, linkVars, lastId, shown>>

Pump ==
  /\ queue # <<>> /\ queue' = Tail(queue) /\ shown' = Append(shown, Head(queue))
  /\ UNCHANGED <<now, logVars, hubVars, run, linkVars, lastId, pending>>

----------------------------------------------------------------------------
Tick ==
  /\ now < MaxTime /\ now' = now + 1
  /\ UNCHANGED <<logVars, hubVars, run, linkVars, pageVars>>

\* The portal starts again: ids from 1, followers from now; the page stays.
PortalRestart ==
  /\ run < MaxRestarts /\ run' = run + 1
  /\ events' = <<>> /\ nextId' = 1 /\ recent' = NothingRecent
  /\ last' = [l \in Logs |-> now]
  /\ link' = FALSE /\ wire' = <<>> /\ sent' = 0
  /\ UNCHANGED <<now, made, logs, recorded, pageVars>>

Next ==
  \/ \E l \in Logs : Follow(l) \/ \E t \in Titles \cup {"none"} : Logged(l, t)
  \/ \E t \in Titles : PortalEmits(t)
  \/ AttachSummary
  \/ Connect \/ Stream \/ Disconnect \/ Receive \/ Flush \/ Pump
  \/ Tick \/ PortalRestart

\* The followers, the generator and the page's timers run; nothing has to be
\* logged, and a connection may break at any time, but not always in the end.
Fairness ==
  /\ \A l \in Logs : WF_vars(Follow(l))
  /\ WF_vars(Connect) /\ SF_vars(Stream) /\ SF_vars(Receive)
  /\ WF_vars(Flush) /\ WF_vars(Pump)

Spec == Init /\ [][Next]_vars /\ Fairness

----------------------------------------------------------------------------
(* Properties.                                                             *)

\* The timeline keeps the promises of Feed: only recorded events, each once,
\* every log in its order, over reconnects, lost batches and restarts.
TimelineFeed == INSTANCE Feed WITH Logs <- Logs, recorded <- recorded, shown <- shown
FeedKept == TimelineFeed!Spec

\* Two events that say the same are at least Window apart, whichever order
\* their time stamps came in (emit).
NoRepeats ==
  \A e, f \in recorded :
    e # f /\ e.run = f.run /\ e.from = f.from /\ e.title = f.title
      => e.ts - f.ts >= Window \/ f.ts - e.ts >= Window

\* While the portal is not restarted, nothing that EVENTS still holds is lost on
\* its way, whatever breaks: the page has it, or it is on the wire, or it is
\* above the id the generator, or the page's next request, goes on from.
OnPage(e) ==
  \/ e \in pending
  \/ \E j \in DOMAIN queue : queue[j] = e
  \/ \E j \in DOMAIN shown : shown[j] = e
NoneLost ==
  run = 0 =>
    \A i \in DOMAIN events :
      \/ OnPage(events[i]) \/ \E j \in DOMAIN wire : wire[j] = events[i]
      \/ events[i].id > IF link THEN sent ELSE lastId

\* While the portal is not restarted, the page shows in the end every event
\* that EVENTS still holds, whatever connections broke under way.
Retained == \A i \in DOMAIN events : \E j \in DOMAIN shown : shown[j] = events[i]
CatchesUp == [](run = 0) => <>[]Retained
=============================================================================
