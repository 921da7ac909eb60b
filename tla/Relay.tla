------------------------------- MODULE Relay -------------------------------
(***************************************************************************)
(* The central-cloud relay of portal/app.py: each connection from the      *)
(* phone is forwarded to the edge node, and every chunk of either          *)
(* direction waits for the WAN delay.  A line is one direction, named      *)
(* after the side it reads from; _pump is a reader and a sender task with  *)
(* a queue between them.  All connections come from one address, the UPF's *)
(* NAT, so relay_clients is there or not.                                  *)
(***************************************************************************)
EXTENDS Integers, Sequences

CONSTANTS
  Conns,     \* the connections there may be, all of them to the RTSP port
  Endings,   \* how a side's transport may end: "eof", "reset", "timeout"
  MaxDelay,  \* the most the WAN delay may be (200 ms in the code)
  MaxChunks, \* bound on the chunks sent
  MaxTime    \* bound on the clock

ASSUME RelayAssumption ==
  /\ Endings \subseteq {"eof", "reset", "timeout"}
  /\ MaxDelay \in Nat /\ MaxChunks \in Nat /\ MaxTime \in Nat

Ports == {"rtsp", "probe"}
Lines == Conns \X {"phone", "edge"}
Phone(c) == <<c, "phone">>
Edge(c)  == <<c, "edge">>
Both(c)  == {Phone(c), Edge(c)}
Far(l)   == <<l[1], IF l[2] = "phone" THEN "edge" ELSE "phone">> \* where a line ends
Chunks == 1..MaxChunks

VARIABLES
  now, delay,
  taken,     \* the ports another process listens on
  bound,     \* the ports the portal listens on
  serving,   \* the supervisor has assigned servers and ended
  handler,   \* each connection: "none", "connecting", "relaying" or "done"
  sock,      \* each connection's two transports
  queue,     \* each line's queue of chunks and the end mark
  reader, sender, \* each line's two tasks
  listed,    \* relay_clients has the address
  accepted, passed, \* history: what each line has read and has written
  sent       \* chunks sent so far

portVars == <<taken, bound, serving>>
connVars   == <<handler, sock, listed>>
lineVars   == <<queue, reader, sender, accepted, passed>>
vars == <<now, delay, sent, portVars, connVars, lineVars>>

Item == [due : 0..MaxTime, chunk : Chunks]
End  == [due |-> 0, chunk |-> 0]

\* A transport: "eof" when its peer has only stopped sending, "closed" when
\* the relay has closed it.
TypeOK ==
  /\ now \in 0..MaxTime /\ delay \in 0..MaxDelay /\ sent \in 0..MaxChunks
  /\ taken \subseteq Ports /\ bound \subseteq Ports \ taken
  /\ serving \in BOOLEAN
  /\ handler \in [Conns -> {"none", "connecting", "relaying", "done"}]
  /\ sock \in [Lines -> {"none", "open", "closed"} \cup Endings]
  /\ queue \in [Lines -> Seq(Item \cup {End})]
  /\ reader \in [Lines -> {"idle", "read", "wait", "done", "raised"}]
  /\ sender \in [Lines -> {"send", "done", "failed", "raised"}]
  /\ listed \in BOOLEAN
  /\ accepted \in [Lines -> Seq(Item)] /\ passed \in [Lines -> Seq(Chunks)]

Init ==
  /\ now = 0 /\ delay \in 0..MaxDelay /\ sent = 0
  /\ taken \in SUBSET Ports /\ bound = {} /\ serving = FALSE
  /\ handler = [c \in Conns |-> "none"] /\ listed = FALSE
  /\ sock = [l \in Lines |-> "none"]
  /\ queue = [l \in Lines |-> <<>>]
  /\ reader = [l \in Lines |-> "idle"] /\ sender = [l \in Lines |-> "send"]
  /\ accepted = [l \in Lines |-> <<>>] /\ passed = [l \in Lines |-> <<>>]

----------------------------------------------------------------------------
(* _relay_supervisor.                                                      *)

\* A port is free for neither another process nor a listener of our own.
CanBind(port) == port \notin taken \cup bound

\* Mutant: one attempt and no retry.
SuperviseOnce ==
  /\ ~serving /\ serving' = TRUE /\ bound' = {port \in Ports : CanBind(port)}
  /\ UNCHANGED <<now, delay, sent, taken, connVars, lineVars>>

\* One attempt: the listener bound first stays when the second cannot be bound,
\* as servers is assigned only after both and is empty when they are closed.
Supervise ==
  /\ ~serving /\ CanBind("rtsp")
  /\ IF CanBind("probe") THEN bound' = Ports /\ serving' = TRUE
     ELSE bound' = bound \cup {"rtsp"} /\ UNCHANGED serving
  /\ UNCHANGED <<now, delay, sent, taken, connVars, lineVars>>

\* The other process gives a port back.
PortFreed ==
  /\ \E port \in taken : taken' = taken \ {port}
  /\ UNCHANGED <<now, delay, sent, bound, serving, connVars, lineVars>>

\* Mutant: what is asked for is taken as it is.
Unclamped(ms) == ms
Clamped(ms) == IF ms < 0 THEN 0 ELSE IF ms > MaxDelay THEN MaxDelay ELSE ms

\* /api/wan-delay, with numbers on both sides of what is allowed.
SetDelay ==
  /\ \E ms \in -1..MaxDelay + 1 : Clamped(ms) # delay /\ delay' = Clamped(ms)
  /\ UNCHANGED <<now, sent, portVars, connVars, lineVars>>

----------------------------------------------------------------------------
(* _relay_handler.                                                         *)

Accept(c) ==
  /\ "rtsp" \in bound /\ handler[c] = "none"
  /\ handler' = [handler EXCEPT ![c] = "connecting"]
  /\ sock' = [sock EXCEPT ![Phone(c)] = "open"]
  /\ UNCHANGED <<now, delay, sent, portVars, listed, lineVars>>

Connected(c) ==
  /\ handler[c] = "connecting"
  /\ handler' = [handler EXCEPT ![c] = "relaying"]
  /\ sock' = [sock EXCEPT ![Edge(c)] = "open"] /\ listed' = TRUE
  /\ reader' = [reader EXCEPT ![Phone(c)] = "read", ![Edge(c)] = "read"]
  /\ UNCHANGED <<now, delay, sent, portVars, queue, sender, accepted, passed>>

Refused(c) ==
  /\ handler[c] = "connecting"
  /\ handler' = [handler EXCEPT ![c] = "done"]
  /\ sock' = [sock EXCEPT ![Phone(c)] = IF @ \in {"open", "eof"} THEN "closed" ELSE @]
  /\ UNCHANGED <<now, delay, sent, portVars, listed, lineVars>>

\* Both pumps have returned or raised.
HandlerEnds(c) ==
  /\ handler[c] = "relaying" /\ \A l \in Both(c) : reader[l] \in {"done", "raised"}
  /\ handler' = [handler EXCEPT ![c] = "done"] /\ listed' = FALSE
  /\ UNCHANGED <<now, delay, sent, portVars, sock, lineVars>>

----------------------------------------------------------------------------
(* _pump: the task that reads.                                             *)

\* Mutant: what is due first goes first.
SoonestFirst(list, item) ==
  LET before == SelectSeq(list, LAMBDA i : i.due <= item.due)
  IN  Append(before, item) \o SelectSeq(list, LAMBDA i : i.due > item.due)
Queued(list, item) == Append(list, item)

\* A chunk arrives from the line's side and is queued.
Read(l) ==
  /\ reader[l] = "read" /\ sock[l] = "open"
  /\ sent < MaxChunks /\ now + delay <= MaxTime /\ sent' = sent + 1
  /\ LET item == [due |-> now + delay, chunk |-> sent + 1]
     IN  /\ queue' = [queue EXCEPT ![l] = Queued(@, item)]
         /\ accepted' = [accepted EXCEPT ![l] = Append(@, item)]
  /\ UNCHANGED <<now, delay, portVars, connVars, reader, sender, passed>>

\* Mutants: the end mark overtakes the chunks that are still waiting, or is
\* forgotten.
EndFirst(list) == <<End>> \o list
NoEnd(list) == list
EndLast(list) == Append(list, End)

\* read() returns nothing, or raises a ConnectionError.
ReadEnds(l) ==
  /\ reader[l] = "read" /\ sock[l] \in {"eof", "closed", "reset"}
  /\ reader' = [reader EXCEPT ![l] = "wait"]
  /\ queue' = [queue EXCEPT ![l] = EndLast(@)]
  /\ UNCHANGED <<now, delay, sent, portVars, connVars, sender, accepted, passed>>

\* A TimeoutError is no ConnectionError: it leaves _pump, the sender stays.
ReadRaises(l) ==
  /\ reader[l] = "read" /\ sock[l] = "timeout"
  /\ reader' = [reader EXCEPT ![l] = "raised"]
  /\ UNCHANGED <<now, delay, sent, portVars, connVars, queue, sender, accepted, passed>>

\* Mutant: the writer is left open.
LeaveOpen(state) == state
Closed(state) == IF state \in {"open", "eof"} THEN "closed" ELSE state

\* The sender has ended: close the other side, unless the task raised what
\* _pump does not catch.
PumpEnds(l) ==
  /\ reader[l] = "wait" /\ sender[l] # "send"
  /\ IF sender[l] = "raised" THEN reader' = [reader EXCEPT ![l] = "raised"] /\ UNCHANGED sock
     ELSE /\ reader' = [reader EXCEPT ![l] = "done"]
          /\ sock' = [sock EXCEPT ![Far(l)] = Closed(@)]
  /\ UNCHANGED <<now, delay, sent, portVars, handler, listed, queue, sender, accepted, passed>>

----------------------------------------------------------------------------
(* _pump: the task that sends.                                             *)

\* The head of the queue, when it is due, is written to the other side or
\* finds it gone, which write and drain raise as what ended that side.
Send(l) ==
  /\ sender[l] = "send" /\ queue[l] # <<>> /\ Head(queue[l]).due <= now
  /\ queue' = [queue EXCEPT ![l] = Tail(@)]
  /\ LET item == Head(queue[l])
         to   == sock[Far(l)]
     IN  IF item = End THEN sender' = [sender EXCEPT ![l] = "done"] /\ UNCHANGED passed
         ELSE IF to \in {"open", "eof"}
         THEN passed' = [passed EXCEPT ![l] = Append(@, item.chunk)] /\ UNCHANGED sender
         ELSE /\ sender' = [sender EXCEPT ![l] = IF to = "timeout" THEN "raised" ELSE "failed"]
              /\ UNCHANGED passed
  /\ UNCHANGED <<now, delay, sent, portVars, connVars, reader, accepted>>

----------------------------------------------------------------------------
\* A side stops sending, resets the connection, or is gone without a word.
SideEnds(l) ==
  /\ \E how \in Endings :
       /\ sock[l] = "open" \/ (sock[l] = "eof" /\ how = "reset")
       /\ sock' = [sock EXCEPT ![l] = how]
  /\ UNCHANGED <<now, delay, sent, portVars, handler, listed, lineVars>>

Tick ==
  /\ now < MaxTime /\ now' = now + 1
  /\ UNCHANGED <<delay, sent, portVars, connVars, lineVars>>

Reader(l) == ReadEnds(l) \/ ReadRaises(l) \/ PumpEnds(l)

Next ==
  \/ Supervise \/ PortFreed \/ SetDelay \/ Tick
  \/ \E c \in Conns : Accept(c) \/ Connected(c) \/ Refused(c) \/ HandlerEnds(c)
  \/ \E l \in Lines : Read(l) \/ Reader(l) \/ Send(l) \/ SideEnds(l)

\* The tasks of the event loop run and time passes; nobody has to connect, send
\* or end, nor to free a port.
Fairness ==
  /\ WF_vars(Supervise) /\ WF_vars(Tick)
  /\ \A c \in Conns : WF_vars(Connected(c) \/ Refused(c) \/ HandlerEnds(c))
  /\ \A l \in Lines : WF_vars(Reader(l)) /\ WF_vars(Send(l))

Spec == Init /\ [][Next]_vars /\ Fairness

----------------------------------------------------------------------------
(* Properties.                                                             *)

\* Each direction is a line with a delay: in order, once, not early, whatever
\* the delay is changed to while chunks are waiting (_pump).
Wan == INSTANCE DelayLine
         WITH Lines <- Lines, Chunks <- Chunks, MaxDelay <- MaxDelay,
              now <- now, accepted <- accepted, passed <- passed
WanDelays == Wan!Spec

\* What the relay closes it has emptied first: all that was read from one side
\* has been written to the other.
NothingDropped ==
  \A l \in Lines : sock[Far(l)] = "closed"
    => passed[l] = [i \in 1..Len(accepted[l]) |-> accepted[l][i].chunk]

\* What a line waits for is bounded: while its sender runs, every chunk in the
\* queue is due within MaxDelay, and a reader that waits for it to end has its
\* end mark there.
DrainsInTime ==
  \A l \in Lines : sender[l] = "send" =>
    /\ \A i \in DOMAIN queue[l] : queue[l][i].due <= now + MaxDelay
    /\ reader[l] = "wait" => \E i \in DOMAIN queue[l] : queue[l][i] = End

\* When one side stops sending or resets, the connection comes to its end,
\* whichever tasks fail on the way.
HandlersEnd ==
  \A c \in Conns : (\E l \in Both(c) : sock[l] \in {"eof", "reset"}) ~> handler[c] = "done"

\* And leaves no transport open, unless one side was lost to a timeout.
NoLeak ==
  \A c \in Conns : handler[c] = "done" /\ (\A l \in Both(c) : sock[l] # "timeout")
    => \A l \in Both(c) : sock[l] \notin {"open", "eof"}

\* Once no other process holds the RTSP port, the relay listens on it, although
\* the supervisor may have failed on either port before.
RtspServed == <>[]("rtsp" \notin taken) => <>[]("rtsp" \in bound)
=============================================================================
