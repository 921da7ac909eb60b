----------------------------- MODULE RelayProofs -----------------------------
(***************************************************************************)
(* Theorems about Relay, for any connections, delays and bounds: it is a   *)
(* delay line, closes no side before all is written to it, and leaves no   *)
(* side open.                                                              *)
(***************************************************************************)
EXTENDS Relay, SequenceTheorems, TLAPS

----------------------------------------------------------------------------
(* Type correctness.                                                       *)

PortsOK ==
  /\ now \in 0..MaxTime /\ delay \in 0..MaxDelay /\ sent \in 0..MaxChunks
  /\ taken \subseteq Ports /\ bound \subseteq Ports \ taken /\ serving \in BOOLEAN

ConnOK ==
  /\ handler \in [Conns -> {"none", "connecting", "relaying", "done"}]
  /\ sock \in [Lines -> {"none", "open", "closed"} \cup Endings]
  /\ listed \in BOOLEAN

TaskOK ==
  /\ reader \in [Lines -> {"idle", "read", "wait", "done", "raised"}]
  /\ sender \in [Lines -> {"send", "done", "failed", "raised"}]

QueueOK ==
  /\ queue \in [Lines -> Seq(Item \cup {End})]
  /\ accepted \in [Lines -> Seq(Item)] /\ passed \in [Lines -> Seq(Chunks)]

LEMMA TypeGroups ==
  /\ TypeOK <=> PortsOK /\ ConnOK /\ TaskOK /\ QueueOK
  /\ TypeOK' <=> PortsOK' /\ ConnOK' /\ TaskOK' /\ QueueOK'
  BY DEF TypeOK, PortsOK, ConnOK, TaskOK, QueueOK

LEMMA Frames ==
  /\ PortsOK /\ UNCHANGED <<now, delay, sent, portVars>> => PortsOK'
  /\ ConnOK /\ UNCHANGED connVars => ConnOK'
  /\ TaskOK /\ UNCHANGED <<reader, sender>> => TaskOK'
  /\ QueueOK /\ UNCHANGED <<queue, accepted, passed>> => QueueOK'
  BY DEF PortsOK, ConnOK, TaskOK, QueueOK, portVars, connVars

LEMMA Sided ==
  /\ \A c \in Conns : Phone(c) \in Lines /\ Edge(c) \in Lines /\ Phone(c) # Edge(c)
                      /\ Far(Phone(c)) = Edge(c) /\ Far(Edge(c)) = Phone(c)
  /\ \A l \in Lines : /\ Far(l) \in Lines /\ Far(l) # l /\ Far(Far(l)) = l
                      /\ \E c \in Conns : l \in Both(c) /\ Far(l) \in Both(c)
  BY DEF Lines, Phone, Edge, Far, Both

LEMMA EndIsNoItem == End \notin Item /\ (\A i \in Item : i # End /\ i.due \in Nat /\ i.chunk \in Chunks)
  BY RelayAssumption DEF RelayAssumption, End, Item, Chunks

LEMMA TypeInit == Init => TypeOK
<1> SUFFICES ASSUME Init PROVE TypeOK
  OBVIOUS
<1>1. PortsOK
  <2>1. serving \in BOOLEAN
    BY DEF Init
  <2>2. QED
    BY <2>1, RelayAssumption DEF RelayAssumption, Init, PortsOK
<1>2. ConnOK
  <2>1. listed \in BOOLEAN
    BY DEF Init
  <2>2. QED
    BY <2>1 DEF Init, ConnOK
<1>3. TaskOK /\ QueueOK
  BY DEF Init, TaskOK, QueueOK
<1>4. QED
  BY <1>1, <1>2, <1>3, TypeGroups

\* The supervisor, the delay, the clock and the handlers.
LEMMA PortType ==
  ASSUME TypeOK, Supervise \/ PortFreed \/ SetDelay \/ Tick
  PROVE  TypeOK'
<1> USE TypeGroups
<1>1. ConnOK' /\ TaskOK' /\ QueueOK'
  BY Frames DEF Supervise, PortFreed, SetDelay, Tick, connVars, lineVars
<1>2. PortsOK'
  <2>1. CASE Supervise
    <3>1. serving' \in BOOLEAN
      BY <2>1 DEF Supervise, PortsOK
    <3>2. QED
      BY <2>1, <3>1 DEF Supervise, PortsOK, CanBind, Ports
  <2>2. CASE PortFreed
    BY <2>2 DEF PortFreed, PortsOK
  <2>3. CASE SetDelay
    BY <2>3, RelayAssumption DEF RelayAssumption, SetDelay, Clamped, PortsOK, portVars
  <2>4. CASE Tick
    BY <2>4, RelayAssumption DEF RelayAssumption, Tick, PortsOK, portVars
  <2>5. QED
    BY <2>1, <2>2, <2>3, <2>4
<1>3. QED
  BY <1>1, <1>2

LEMMA HandlerType ==
  ASSUME TypeOK, NEW c \in Conns, Accept(c) \/ Connected(c) \/ Refused(c) \/ HandlerEnds(c)
  PROVE  TypeOK'
<1> USE TypeGroups
<1>0. Phone(c) \in Lines /\ Edge(c) \in Lines
  BY Sided
<1>1. PortsOK' /\ QueueOK'
  BY Frames DEF Accept, Connected, Refused, HandlerEnds, lineVars
<1>2. TaskOK'
  BY Frames DEF Accept, Connected, Refused, HandlerEnds, lineVars, TaskOK
<1>3. ConnOK'
  <2>1. CASE Accept(c)
    BY <1>0, <2>1 DEF Accept, ConnOK
  <2>2. CASE Connected(c)
    <3>1. listed' \in BOOLEAN
      BY <2>2 DEF Connected
    <3>2. QED
      BY <1>0, <2>2, <3>1 DEF Connected, ConnOK
  <2>3. CASE Refused(c)
    BY <1>0, <2>3 DEF Refused, ConnOK
  <2>4. CASE HandlerEnds(c)
    <3>1. listed' \in BOOLEAN
      BY <2>4 DEF HandlerEnds
    <3>2. QED
      BY <2>4, <3>1 DEF HandlerEnds, ConnOK
  <2>5. QED
    BY <2>1, <2>2, <2>3, <2>4
<1>4. QED
  BY <1>1, <1>2, <1>3

LEMMA LineType ==
  ASSUME TypeOK, NEW l \in Lines,
         Read(l) \/ Reader(l) \/ Send(l) \/ SideEnds(l)
  PROVE  TypeOK'
<1> USE TypeGroups
<1>0. Far(l) \in Lines
  BY Sided
<1>1. CASE Read(l)
  <2> DEFINE item == [due |-> now + delay, chunk |-> sent + 1]
  <2>1. item \in Item /\ sent' \in 0..MaxChunks
    BY <1>1, RelayAssumption DEF RelayAssumption, Read, Item, Chunks, PortsOK
  <2>2. /\ queue' = [queue EXCEPT ![l] = Append(queue[l], item)]
        /\ accepted' = [accepted EXCEPT ![l] = Append(accepted[l], item)]
        /\ UNCHANGED passed
    BY <1>1 DEF Read, Queued
  <2> HIDE DEF item
  <2>3. QueueOK'
    BY <1>0, <2>1, <2>2 DEF QueueOK
  <2>4. PortsOK'
    BY <1>1, <2>1 DEF Read, PortsOK, portVars
  <2>5. QED
    BY <1>1, <2>3, <2>4, Frames DEF Read
<1>2. CASE ReadEnds(l)
  <2>1. queue' = [queue EXCEPT ![l] = Append(queue[l], End)]
    BY <1>2 DEF ReadEnds, EndLast
  <2>2. QueueOK'
    <3>1. Append(queue[l], End) \in Seq(Item \cup {End})
      BY DEF QueueOK
    <3>2. UNCHANGED <<accepted, passed>>
      BY <1>2 DEF ReadEnds
    <3>3. QED
      BY <2>1, <3>1, <3>2 DEF QueueOK
  <2>3. TaskOK'
    BY <1>0, <1>2 DEF ReadEnds, TaskOK
  <2>4. QED
    BY <1>2, <2>2, <2>3, Frames DEF ReadEnds
<1>3. CASE ReadRaises(l)
  <2>1. TaskOK'
    BY <1>0, <1>3 DEF ReadRaises, TaskOK
  <2>2. QED
    BY <1>3, <2>1, Frames DEF ReadRaises
<1>4. CASE PumpEnds(l)
  <2>1. TaskOK'
    BY <1>0, <1>4 DEF PumpEnds, TaskOK
  <2>2. ConnOK'
    BY <1>0, <1>4 DEF PumpEnds, Closed, ConnOK
  <2>3. QED
    BY <1>4, <2>1, <2>2, Frames DEF PumpEnds
<1>5. CASE Send(l)
  <2> DEFINE q == queue[l]
  <2>1. q \in Seq(Item \cup {End}) /\ q # <<>> /\ Head(q) \in Item \cup {End}
        /\ Tail(q) \in Seq(Item \cup {End})
    BY <1>0, <1>5 DEF Send, QueueOK
  <2>2. queue' = [queue EXCEPT ![l] = Tail(q)] /\ UNCHANGED accepted
    BY <1>5 DEF Send
  <2>3. \/ UNCHANGED passed
        \/ /\ Head(q) # End
           /\ passed' = [passed EXCEPT ![l] = Append(passed[l], Head(q).chunk)]
    BY <1>5 DEF Send
  <2> HIDE DEF q
  <2>4. QueueOK'
    <3>1. queue' \in [Lines -> Seq(Item \cup {End})]
      BY <2>1, <2>2 DEF QueueOK
    <3>2. passed' \in [Lines -> Seq(Chunks)]
      <4>1. CASE UNCHANGED passed
        BY <4>1 DEF QueueOK
      <4>2. CASE ~UNCHANGED passed
        <5>1. Head(q) \in Item /\ Head(q).chunk \in Chunks
          BY <2>1, <2>3, <4>2, EndIsNoItem
        <5>2. Append(passed[l], Head(q).chunk) \in Seq(Chunks)
          BY <5>1 DEF QueueOK
        <5>3. QED
          BY <2>3, <4>2, <5>2 DEF QueueOK
      <4>3. QED
        BY <4>1, <4>2
    <3>3. QED
      BY <2>2, <3>1, <3>2 DEF QueueOK
  <2>5. TaskOK'
    BY <1>0, <1>5 DEF Send, TaskOK
  <2>6. QED
    BY <1>5, <2>4, <2>5, Frames DEF Send
<1>6. CASE SideEnds(l)
  <2>1. ConnOK'
    BY <1>0, <1>6 DEF SideEnds, ConnOK
  <2>2. QED
    BY <1>6, <2>1, Frames DEF SideEnds, lineVars
<1>7. QED
  BY <1>1, <1>2, <1>3, <1>4, <1>5, <1>6 DEF Reader

LEMMA TypeStep == TypeOK /\ [Next]_vars => TypeOK'
<1>1. TypeOK /\ UNCHANGED vars => TypeOK'
  BY Frames, TypeGroups DEF vars, lineVars
<1>2. QED
  BY <1>1, PortType, HandlerType, LineType DEF Next

\* Every variable has its type in every state: the delay stays within what is
\* allowed, and no port is bound that another process has (_relay_supervisor,
\* /api/wan-delay).
THEOREM TypeCorrect == Spec => []TypeOK
  BY TypeInit, TypeStep, PTL DEF Spec

----------------------------------------------------------------------------
(* A line's queue holds what it has read and not written, and the end mark. *)

\* q is what follows the first p elements of a.
Rest(a, p, q) == Len(a) = p + Len(q) /\ \A i \in 1..Len(q) : q[i] = a[p + i]

LEMMA RestGrows ==
  ASSUME NEW S, NEW a \in Seq(S), NEW q \in Seq(S), NEW p \in Nat, NEW x \in S, Rest(a, p, q)
  PROVE  Rest(Append(a, x), p, Append(q, x))
<1>1. Len(Append(a, x)) = Len(a) + 1 /\ Len(Append(q, x)) = Len(q) + 1
  OBVIOUS
<1>2. Len(a) \in Nat /\ Len(q) \in Nat /\ Len(a) = p + Len(q)
  BY DEF Rest
<1>3. ASSUME NEW i \in 1..Len(q) + 1 PROVE Append(q, x)[i] = Append(a, x)[p + i]
  <2>1. CASE i <= Len(q)
    <3>1. Append(q, x)[i] = q[i] /\ Append(a, x)[p + i] = a[p + i]
      BY <1>2, <2>1
    <3>2. QED
      BY <1>2, <2>1, <3>1 DEF Rest
  <2>2. CASE i = Len(q) + 1
    <3>1. p + i = Len(a) + 1
      BY <1>2, <2>2
    <3>2. QED
      BY <2>2, <3>1
  <2>3. QED
    BY <1>2, <2>1, <2>2
<1>4. QED
  BY <1>1, <1>2, <1>3 DEF Rest

LEMMA RestShrinks ==
  ASSUME NEW S, NEW a \in Seq(S), NEW q \in Seq(S), NEW p \in Nat, Rest(a, p, q), q # <<>>
  PROVE  p + 1 <= Len(a) /\ Head(q) = a[p + 1] /\ Rest(a, p + 1, Tail(q))
<1>1. /\ Len(q) \in Nat /\ Len(q) >= 1 /\ Head(q) = q[1] /\ Len(Tail(q)) = Len(q) - 1
      /\ \A i \in 1..Len(q) - 1 : Tail(q)[i] = q[i + 1]
  OBVIOUS
<1>2. Len(a) = p + Len(q) /\ \A i \in 1..Len(q) : q[i] = a[p + i]
  BY DEF Rest
<1>3. \A i \in 1..Len(q) - 1 : Tail(q)[i] = a[(p + 1) + i]
  <2> TAKE i \in 1..Len(q) - 1
  <2>1. i + 1 \in 1..Len(q) /\ p + (i + 1) = (p + 1) + i
    BY <1>1
  <2>2. QED
    BY <1>1, <1>2, <2>1
<1>4. QED
  BY <1>1, <1>2, <1>3 DEF Rest

\* All that a line has put into its queue.
Entered(l) == IF reader[l] = "wait" THEN Append(accepted[l], End) ELSE accepted[l]

Written(l) ==
  /\ Len(passed[l]) <= Len(accepted[l])
  /\ \A i \in 1..Len(passed[l]) : passed[l][i] = accepted[l][i].chunk

LineInv(l) ==
  /\ Written(l)
  /\ reader[l] = "idle" => Len(accepted[l]) = 0 /\ sender[l] = "send"
  /\ sender[l] = "done" => Len(passed[l]) = Len(accepted[l]) /\ reader[l] \notin {"idle", "read"}
  /\ sender[l] = "send" => reader[l] # "done" /\ Rest(Entered(l), Len(passed[l]), queue[l])

LEMMA LineFrame ==
  ASSUME NEW l \in Lines, LineInv(l), queue'[l] = queue[l], accepted'[l] = accepted[l],
         passed'[l] = passed[l], reader'[l] = reader[l], sender'[l] = sender[l]
  PROVE  LineInv(l)'
  BY DEF LineInv, Written, Entered, Rest

\* A step of one line leaves the others alone.
LEMMA OtherLines ==
  ASSUME TypeOK, NEW l \in Lines, Read(l) \/ Reader(l) \/ Send(l) \/ SideEnds(l),
         NEW k \in Lines, k # l
  PROVE  /\ queue'[k] = queue[k] /\ accepted'[k] = accepted[k] /\ passed'[k] = passed[k]
         /\ reader'[k] = reader[k] /\ sender'[k] = sender[k]
  BY DEF TypeOK, Read, Reader, ReadEnds, ReadRaises, PumpEnds, Send, SideEnds, lineVars

LEMMA LineTypes ==
  ASSUME TypeOK, NEW l \in Lines
  PROVE  /\ queue[l] \in Seq(Item \cup {End}) /\ accepted[l] \in Seq(Item)
         /\ accepted[l] \in Seq(Item \cup {End}) /\ Entered(l) \in Seq(Item \cup {End})
         /\ passed[l] \in Seq(Chunks)
         /\ Len(accepted[l]) \in Nat /\ Len(passed[l]) \in Nat
<1>1. queue[l] \in Seq(Item \cup {End}) /\ accepted[l] \in Seq(Item) /\ passed[l] \in Seq(Chunks)
  BY DEF TypeOK
<1>2. accepted[l] \in Seq(Item \cup {End})
  BY <1>1
<1>3. Append(accepted[l], End) \in Seq(Item \cup {End})
  BY <1>2
<1>4. QED
  BY <1>1, <1>2, <1>3 DEF Entered

LEMMA ReadLine ==
  ASSUME TypeOK, NEW l \in Lines, LineInv(l), Read(l)
  PROVE  LineInv(l)'
<1> DEFINE item == [due |-> now + delay, chunk |-> sent + 1]
<1>1. /\ accepted'[l] = Append(accepted[l], item) /\ queue'[l] = Append(queue[l], item)
      /\ passed'[l] = passed[l] /\ reader'[l] = "read" /\ reader[l] = "read"
      /\ sender'[l] = sender[l]
  BY DEF Read, Queued, TypeOK
<1>2. item \in Item
  BY RelayAssumption DEF RelayAssumption, Read, Item, Chunks, TypeOK
<1> HIDE DEF item
<1>3. /\ Len(accepted'[l]) = Len(accepted[l]) + 1
      /\ \A i \in 1..Len(accepted[l]) : accepted'[l][i] = accepted[l][i]
  BY <1>1, <1>2, LineTypes
<1>4. Written(l)'
  <2>1. Len(passed[l]) <= Len(accepted[l])
    BY DEF LineInv, Written
  <2>2. \A i \in 1..Len(passed[l]) : i \in 1..Len(accepted[l])
    BY <2>1, LineTypes
  <2>3. \A i \in 1..Len(passed'[l]) : passed'[l][i] = accepted'[l][i].chunk
    BY <1>1, <1>3, <2>2 DEF LineInv, Written
  <2>4. Len(passed'[l]) <= Len(accepted'[l])
    BY <1>1, <1>3, <2>1, LineTypes
  <2>5. QED
    BY <2>3, <2>4 DEF Written
<1>5. sender[l] = "send" => Rest(Entered(l)', Len(passed[l]), Append(queue[l], item))
  <2>1. Entered(l) = accepted[l] /\ Entered(l)' = Append(accepted[l], item)
    BY <1>1 DEF Entered
  <2>2. QED
    BY <1>2, <2>1, LineTypes, RestGrows DEF LineInv
<1>6. QED
  BY <1>1, <1>4, <1>5 DEF LineInv

LEMMA ReaderLine ==
  ASSUME TypeOK, NEW l \in Lines, LineInv(l), Reader(l)
  PROVE  LineInv(l)'
<1>1. CASE ReadEnds(l)
  <2>1. /\ queue'[l] = Append(queue[l], End) /\ reader'[l] = "wait" /\ reader[l] = "read"
        /\ UNCHANGED <<accepted, passed, sender>>
    BY <1>1 DEF ReadEnds, EndLast, TypeOK
  <2>2. Entered(l) = accepted[l] /\ Entered(l)' = Append(accepted[l], End)
    BY <2>1 DEF Entered
  <2>3. sender[l] = "send" => Rest(Entered(l)', Len(passed[l]), Append(queue[l], End))
    BY <2>2, LineTypes, RestGrows DEF LineInv
  <2>4. Written(l)'
    BY <2>1 DEF LineInv, Written
  <2>5. QED
    BY <2>1, <2>3, <2>4 DEF LineInv
<1>2. CASE ReadRaises(l)
  <2>1. /\ reader'[l] = "raised" /\ reader[l] = "read"
        /\ UNCHANGED <<queue, accepted, passed, sender>>
    BY <1>2 DEF ReadRaises, TypeOK
  <2>2. Entered(l)' = Entered(l)
    BY <2>1 DEF Entered
  <2>3. QED
    BY <2>1, <2>2 DEF LineInv, Written
<1>3. CASE PumpEnds(l)
  <2>1. /\ reader'[l] \in {"done", "raised"} /\ reader[l] = "wait" /\ sender[l] # "send"
        /\ UNCHANGED <<queue, accepted, passed, sender>>
    BY <1>3 DEF PumpEnds, TypeOK
  <2>2. QED
    BY <2>1 DEF LineInv, Written
<1>4. QED
  BY <1>1, <1>2, <1>3 DEF Reader

\* The head of a queue that is not empty is the oldest item that was not
\* written, or the end mark after all of them.
LEMMA HeadOfQueue ==
  ASSUME TypeOK, NEW l \in Lines, LineInv(l), sender[l] = "send", queue[l] # <<>>
  PROVE  /\ Head(queue[l]) # End =>
              /\ Len(passed[l]) + 1 <= Len(accepted[l])
              /\ Head(queue[l]) = accepted[l][Len(passed[l]) + 1]
         /\ Head(queue[l]) = End => Len(passed[l]) = Len(accepted[l]) /\ reader[l] = "wait"
         /\ Rest(Entered(l), Len(passed[l]) + 1, Tail(queue[l]))
<1> DEFINE p == Len(passed[l])
           n == Len(accepted[l])
<1>1. /\ p + 1 <= Len(Entered(l)) /\ Head(queue[l]) = Entered(l)[p + 1]
      /\ Rest(Entered(l), p + 1, Tail(queue[l]))
  BY LineTypes, RestShrinks DEF LineInv
<1>2. p \in Nat /\ n \in Nat /\ p <= n
  BY LineTypes DEF LineInv, Written
<1>3. CASE p + 1 <= n
  <2>1. Entered(l)[p + 1] = accepted[l][p + 1] /\ accepted[l][p + 1] \in Item
    BY <1>2, <1>3, LineTypes DEF Entered
  <2>2. QED
    BY <1>1, <1>3, <2>1, EndIsNoItem
<1>4. CASE p = n
  <2>1. reader[l] = "wait"
    BY <1>1, <1>2, <1>4 DEF Entered
  <2>2. Entered(l)[p + 1] = End
    BY <1>4, <2>1, LineTypes DEF Entered
  <2>3. QED
    BY <1>1, <1>4, <2>1, <2>2
<1>5. QED
  BY <1>2, <1>3, <1>4

LEMMA SendLine ==
  ASSUME TypeOK, NEW l \in Lines, LineInv(l), Send(l)
  PROVE  LineInv(l)'
<1>1. /\ sender[l] = "send" /\ queue[l] # <<>> /\ queue'[l] = Tail(queue[l])
      /\ UNCHANGED <<reader, accepted>>
  BY DEF Send, TypeOK
<1>2. \/ Head(queue[l]) = End /\ sender'[l] = "done" /\ UNCHANGED passed
      \/ /\ Head(queue[l]) # End /\ sender'[l] = "send"
         /\ passed'[l] = Append(passed[l], Head(queue[l]).chunk)
      \/ Head(queue[l]) # End /\ sender'[l] \in {"failed", "raised"} /\ UNCHANGED passed
  BY DEF Send, TypeOK
<1>3. reader[l] \notin {"idle", "done"}
  BY <1>1, HeadOfQueue, LineTypes DEF LineInv
<1>4. CASE sender'[l] # "send"
  <2>1. UNCHANGED passed /\ (sender'[l] = "done" => Head(queue[l]) = End)
    BY <1>2, <1>4
  <2>2. QED
    BY <1>1, <1>3, <1>4, <2>1, HeadOfQueue DEF LineInv, Written
<1>5. CASE sender'[l] = "send"
  <2> DEFINE p == Len(passed[l])
  <2>1. /\ Head(queue[l]) # End /\ passed'[l] = Append(passed[l], Head(queue[l]).chunk)
    BY <1>2, <1>5
  <2>2. /\ p + 1 <= Len(accepted[l]) /\ Head(queue[l]) = accepted[l][p + 1] /\ p \in Nat
    BY <1>1, <2>1, HeadOfQueue, LineTypes
  <2>3. /\ Len(passed'[l]) = p + 1 /\ passed'[l][p + 1] = accepted[l][p + 1].chunk
        /\ \A i \in 1..p : passed'[l][i] = passed[l][i]
    BY <2>1, <2>2, LineTypes
  <2>4. Written(l)'
    <3>1. \A i \in 1..p : passed[l][i] = accepted[l][i].chunk
      BY DEF LineInv, Written
    <3>2. \A i \in 1..p + 1 : passed'[l][i] = accepted[l][i].chunk
      <4> TAKE i \in 1..p + 1
      <4>1. i \in 1..p \/ i = p + 1
        BY <2>2
      <4>2. QED
        BY <2>3, <3>1, <4>1
    <3>3. QED
      BY <1>1, <2>2, <2>3, <3>2 DEF Written
  <2>5. Entered(l)' = Entered(l)
    BY <1>1 DEF Entered
  <2>6. Rest(Entered(l)', Len(passed'[l]), queue'[l])
    BY <1>1, <2>3, <2>5, HeadOfQueue
  <2>7. QED
    BY <1>1, <1>3, <1>5, <2>4, <2>6 DEF LineInv
<1>6. QED
  BY <1>4, <1>5

Lined == \A l \in Lines : LineInv(l)

LEMMA LinedInit == Init => Lined
<1> SUFFICES ASSUME Init, NEW l \in Lines PROVE LineInv(l)
  BY DEF Lined
<1>1. /\ queue[l] = <<>> /\ accepted[l] = <<>> /\ passed[l] = <<>>
      /\ reader[l] = "idle" /\ sender[l] = "send"
  BY DEF Init
<1>2. Len(<<>>) = 0
  OBVIOUS
<1>3. QED
  BY <1>1, <1>2 DEF LineInv, Written, Entered, Rest

\* A connection that is being set up has idle readers.
Unused == \A l \in Lines : handler[l[1]] \in {"none", "connecting"} => reader[l] = "idle"

LEMMA LinedStep == TypeOK /\ Unused /\ Lined /\ [Next]_vars => Lined'
<1> SUFFICES ASSUME TypeOK, Unused, Lined, [Next]_vars PROVE Lined'
  OBVIOUS
<1>1. CASE UNCHANGED lineVars \/ UNCHANGED vars
  <2>1. UNCHANGED <<queue, reader, sender, accepted, passed>>
    BY <1>1 DEF vars, lineVars
  <2>2. QED
    BY <2>1, LineFrame DEF Lined
<1>2. ASSUME NEW c \in Conns, Connected(c) PROVE Lined'
  <2>1. UNCHANGED <<queue, sender, accepted, passed>>
    BY <1>2 DEF Connected
  <2>2. \A l \in Lines : reader'[l] = reader[l] \/ (reader[l] = "idle" /\ reader'[l] = "read")
    <3>1. \A l \in Lines \ Both(c) : reader'[l] = reader[l]
      BY <1>2 DEF Connected, TypeOK, Both
    <3>2. \A l \in Both(c) : l \in Lines /\ l[1] = c /\ reader'[l] = "read"
      <4>1. Phone(c) \in Lines /\ Edge(c) \in Lines /\ Phone(c)[1] = c /\ Edge(c)[1] = c
            /\ Phone(c) # Edge(c)
        BY DEF Phone, Edge, Lines
      <4>2. reader' = [reader EXCEPT ![Phone(c)] = "read", ![Edge(c)] = "read"]
        BY <1>2 DEF Connected
      <4>3. reader \in [Lines -> {"idle", "read", "wait", "done", "raised"}]
        BY DEF TypeOK
      <4>4. reader'[Phone(c)] = "read" /\ reader'[Edge(c)] = "read"
        BY <4>1, <4>2, <4>3
      <4>5. QED
        BY <4>1, <4>4 DEF Both
    <3>3. handler[c] = "connecting"
      BY <1>2 DEF Connected
    <3>4. QED
      BY <3>1, <3>2, <3>3 DEF Unused
  <2>3. ASSUME NEW l \in Lines, reader[l] = "idle", reader'[l] = "read" PROVE LineInv(l)'
    BY <2>1, <2>3 DEF Lined, LineInv, Written, Entered
  <2>4. QED
    BY <2>1, <2>2, <2>3, LineFrame DEF Lined
<1>3. ASSUME NEW l \in Lines, Read(l) \/ Reader(l) \/ Send(l) PROVE Lined'
  <2>1. LineInv(l)'
    BY <1>3, ReadLine, ReaderLine, SendLine DEF Lined
  <2>2. \A k \in Lines : k # l => LineInv(k)'
    BY <1>3, OtherLines, LineFrame DEF Lined
  <2>3. QED
    BY <2>1, <2>2 DEF Lined
<1>4. QED
  BY <1>1, <1>2, <1>3 DEF Next, Supervise, PortFreed, SetDelay, Tick, Accept, Refused,
                          HandlerEnds, SideEnds, lineVars

----------------------------------------------------------------------------
(* The two sides of a connection.                                          *)

Open(l) == sock[l] \in {"open", "eof"}

\* How far a connection is, what its tasks have met, and which of its sides may
\* still be open.
SideInv(l) ==
  /\ handler[l[1]] = "none" => sock[l] = "none"
  /\ handler[l[1]] = "connecting" /\ l[2] = "edge" => sock[l] = "none"
  /\ handler[l[1]] = "connecting" /\ l[2] = "phone" => sock[l] # "none"
  /\ handler[l[1]] \in {"none", "connecting"} => reader[l] = "idle"
  /\ reader[l] # "idle" => sock[l] # "none" /\ sock[Far(l)] # "none"
  /\ sender[l] \in {"failed", "raised"} => reader[l] # "idle" /\ ~Open(Far(l))
  /\ sender[l] = "raised" => sock[Far(l)] = "timeout"
  /\ reader[l] = "done" => ~Open(Far(l))
  /\ reader[l] = "raised" => "timeout" \in {sock[l], sock[Far(l)]}
  /\ sock[Far(l)] = "closed" =>
       \/ reader[l] = "done" /\ sender[l] = "done"
       \/ reader[l] = "idle" /\ handler[l[1]] = "done"
  /\ handler[l[1]] = "done" =>
       reader[l] \in {"done", "raised"} \/ (~Open(l) /\ ~Open(Far(l)))

Sidewise == \A l \in Lines : SideInv(l)

\* The two lines of a connection.
LEMMA Pairs ==
  ASSUME NEW l \in Lines
  PROVE  /\ l[1] \in Conns /\ l[2] \in {"phone", "edge"} /\ Far(l) \in Lines /\ Far(l)[1] = l[1]
         /\ Far(l) # l /\ Far(Far(l)) = l /\ Far(l)[2] # l[2]
         /\ \A k \in Lines : k[1] = l[1] => k \in {l, Far(l)}
         /\ \A k \in Lines : Far(k) = l => k = Far(l)
         /\ (l = Phone(l[1]) /\ l[2] = "phone") \/ (l = Edge(l[1]) /\ l[2] = "edge")
  BY DEF Lines, Far, Phone, Edge

LEMMA SideFrame ==
  ASSUME NEW l \in Lines, SideInv(l), handler'[l[1]] = handler[l[1]], reader'[l] = reader[l],
         sender'[l] = sender[l], sock'[l] = sock[l], sock'[Far(l)] = sock[Far(l)]
  PROVE  SideInv(l)'
  BY DEF SideInv, Open

LEMMA SideInit == Init => Sidewise
  BY Pairs DEF Init, Sidewise, SideInv, Open

\* Steps of the handler of c: its two lines change, no other.
LEMMA HandlerSides ==
  ASSUME TypeOK, Sidewise, NEW c \in Conns,
         Accept(c) \/ Connected(c) \/ Refused(c) \/ HandlerEnds(c)
  PROVE  Sidewise'
<1> DEFINE p == Phone(c)
           e == Edge(c)
<1>1. /\ p \in Lines /\ e \in Lines /\ p # e /\ Far(p) = e /\ Far(e) = p
      /\ p[1] = c /\ e[1] = c /\ p[2] = "phone" /\ e[2] = "edge"
  BY Sided DEF Phone, Edge
<1> HIDE DEF p, e
<1>2. SideInv(p) /\ SideInv(e) /\ UNCHANGED sender
  BY <1>1 DEF Sidewise, Accept, Connected, Refused, HandlerEnds, lineVars
<1>3. ASSUME NEW k \in Lines, k # p, k # e PROVE SideInv(k)'
  <2>1. k[1] # c /\ Far(k) # p /\ Far(k) # e
    BY <1>1, <1>3, Pairs
  <2>2. /\ handler'[k[1]] = handler[k[1]] /\ reader'[k] = reader[k]
        /\ sock'[k] = sock[k] /\ sock'[Far(k)] = sock[Far(k)]
    BY <1>3, <2>1, Pairs DEF Accept, Connected, Refused, HandlerEnds, lineVars, TypeOK, p, e
  <2>3. QED
    BY <1>2, <2>2, SideFrame DEF Sidewise
<1>4. CASE Accept(c)
  <2>1. /\ handler[c] = "none" /\ handler'[c] = "connecting" /\ UNCHANGED reader
        /\ sock'[p] = "open" /\ sock'[e] = sock[e]
    BY <1>1, <1>4 DEF Accept, TypeOK, lineVars, p, e
  <2>2. SideInv(p)' /\ SideInv(e)'
    BY <1>1, <1>2, <2>1 DEF SideInv, Open
  <2>3. QED
    BY <1>3, <2>2 DEF Sidewise
<1>5. CASE Connected(c)
  <2>1. /\ handler[c] = "connecting" /\ handler'[c] = "relaying"
        /\ reader'[p] = "read" /\ reader'[e] = "read"
        /\ sock'[e] = "open" /\ sock'[p] = sock[p]
    BY <1>1, <1>5 DEF Connected, TypeOK, p, e
  <2>2. SideInv(p)' /\ SideInv(e)'
    BY <1>1, <1>2, <2>1 DEF SideInv, Open
  <2>3. QED
    BY <1>3, <2>2 DEF Sidewise
<1>6. CASE Refused(c)
  <2>1. /\ handler[c] = "connecting" /\ handler'[c] = "done" /\ UNCHANGED reader
        /\ sock'[p] = IF sock[p] \in {"open", "eof"} THEN "closed" ELSE sock[p]
        /\ sock'[e] = sock[e]
    BY <1>1, <1>6 DEF Refused, TypeOK, lineVars, p, e
  <2>2. SideInv(p)' /\ SideInv(e)'
    BY <1>1, <1>2, <2>1 DEF SideInv, Open
  <2>3. QED
    BY <1>3, <2>2 DEF Sidewise
<1>7. CASE HandlerEnds(c)
  <2>1. /\ handler[c] = "relaying" /\ handler'[c] = "done" /\ UNCHANGED <<reader, sock>>
        /\ {reader[p], reader[e]} \subseteq {"done", "raised"}
    BY <1>1, <1>7 DEF HandlerEnds, TypeOK, lineVars, Both, p, e
  <2>2. SideInv(p)' /\ SideInv(e)'
    BY <1>1, <1>2, <2>1 DEF SideInv, Open
  <2>3. QED
    BY <1>3, <2>2 DEF Sidewise
<1>8. QED
  BY <1>4, <1>5, <1>6, <1>7

\* Steps of one line: it and the one back change, no other.
LEMMA LineSides ==
  ASSUME TypeOK, Lined, Sidewise, NEW l \in Lines,
         Read(l) \/ Reader(l) \/ Send(l) \/ SideEnds(l)
  PROVE  Sidewise'
<1> DEFINE f == Far(l)
<1>1. f \in Lines /\ f # l /\ Far(f) = l /\ f[1] = l[1]
  BY Pairs
<1>2. SideInv(l) /\ SideInv(f) /\ LineInv(l) /\ UNCHANGED handler
      /\ reader'[f] = reader[f] /\ sender'[f] = sender[f]
  BY <1>1, OtherLines
     DEF Sidewise, Lined, Read, Reader, ReadEnds, ReadRaises, PumpEnds, Send, SideEnds, connVars
<1>3. ASSUME NEW k \in Lines, k # l, k # f PROVE SideInv(k)'
  <2>1. Far(k) # l /\ Far(k) # f /\ Far(k) \in Lines
    BY <1>1, <1>3, Pairs
  <2>2. /\ reader'[k] = reader[k] /\ sender'[k] = sender[k]
        /\ sock'[k] = sock[k] /\ sock'[Far(k)] = sock[Far(k)]
    BY <1>3, <2>1, OtherLines DEF TypeOK, Read, Reader, ReadEnds, ReadRaises, PumpEnds, Send,
                                  SideEnds, connVars
  <2>3. QED
    BY <1>2, <2>2, SideFrame DEF Sidewise
<1>4. SideInv(l)' /\ SideInv(f)' => Sidewise'
  BY <1>3 DEF Sidewise
<1>5. CASE Read(l)
  BY <1>1, <1>2, <1>4, <1>5, SideFrame DEF Read, connVars
<1>6. CASE ReadEnds(l)
  <2>1. reader[l] = "read" /\ reader'[l] = "wait" /\ UNCHANGED <<sock, sender>>
    BY <1>6 DEF ReadEnds, connVars, TypeOK
  <2>2. QED
    BY <1>1, <1>2, <1>4, <2>1, SideFrame DEF SideInv, Open
<1>7. CASE ReadRaises(l)
  <2>1. reader[l] = "read" /\ reader'[l] = "raised" /\ UNCHANGED <<sock, sender>>
        /\ sock[l] = "timeout"
    BY <1>7 DEF ReadRaises, connVars, TypeOK
  <2>2. QED
    BY <1>1, <1>2, <1>4, <2>1, SideFrame DEF SideInv, Open
<1>8. CASE PumpEnds(l)
  <2>1. reader[l] = "wait" /\ sender[l] # "send" /\ UNCHANGED sender
    BY <1>8 DEF PumpEnds
  <2>2. CASE sender[l] = "raised"
    <3>1. reader'[l] = "raised" /\ UNCHANGED sock
      BY <1>8, <2>2 DEF PumpEnds, TypeOK
    <3>2. QED
      BY <1>1, <1>2, <1>4, <2>1, <2>2, <3>1, SideFrame DEF SideInv, Open
  <2>3. CASE sender[l] # "raised"
    <3>1. /\ reader'[l] = "done" /\ sock'[l] = sock[l] /\ sender[l] \in {"done", "failed"}
          /\ sock'[f] = IF sock[f] \in {"open", "eof"} THEN "closed" ELSE sock[f]
      BY <1>1, <1>8, <2>1, <2>3 DEF PumpEnds, Closed, TypeOK
    <3>2. SideInv(l)'
      BY <1>1, <1>2, <2>1, <2>3, <3>1 DEF SideInv, Open
    <3>3. SideInv(f)'
      BY <1>1, <1>2, <2>1, <3>1 DEF SideInv, Open
    <3>4. QED
      BY <1>4, <3>2, <3>3
  <2>4. QED
    BY <2>2, <2>3
<1>9. CASE Send(l)
  <2>1. sender[l] = "send" /\ queue[l] # <<>> /\ UNCHANGED <<sock, reader>>
    BY <1>9 DEF Send, connVars
  <2>2. \/ sender'[l] \in {"send", "done"}
        \/ sender'[l] = "failed" /\ ~Open(f)
        \/ sender'[l] = "raised" /\ sock[f] = "timeout"
    BY <1>9 DEF Send, TypeOK, Open
  <2>3. reader[l] # "idle"
    BY <1>2, <2>1, HeadOfQueue, LineTypes DEF LineInv
  <2>4. QED
    BY <1>1, <1>2, <1>4, <2>1, <2>2, <2>3, SideFrame DEF SideInv, Open
<1>10. CASE SideEnds(l)
  <2>1. /\ sock[l] \in {"open", "eof"} /\ sock'[l] \in {"eof", "reset", "timeout"}
        /\ sock'[f] = sock[f] /\ UNCHANGED <<reader, sender>>
    BY <1>1, <1>10, RelayAssumption DEF RelayAssumption, SideEnds, TypeOK, lineVars
  <2>2. SideInv(l)'
    BY <1>1, <1>2, <2>1 DEF SideInv, Open
  <2>3. SideInv(f)'
    BY <1>1, <1>2, <2>1 DEF SideInv, Open
  <2>4. QED
    BY <1>4, <2>2, <2>3
<1>11. QED
  BY <1>5, <1>6, <1>7, <1>8, <1>9, <1>10 DEF Reader

RelayInv == TypeOK /\ Lined /\ Sidewise

LEMMA RelayInit == Init => RelayInv
  BY TypeInit, LinedInit, SideInit DEF RelayInv

LEMMA RelayStep == RelayInv /\ [Next]_vars => RelayInv'
<1> SUFFICES ASSUME RelayInv, [Next]_vars PROVE RelayInv'
  OBVIOUS
<1>1. TypeOK' /\ Lined'
  BY TypeStep, LinedStep DEF RelayInv, Unused, Sidewise, SideInv
<1>2. CASE UNCHANGED <<connVars, lineVars>> \/ UNCHANGED vars
  <2>1. UNCHANGED <<handler, sock, reader, sender>>
    BY <1>2 DEF vars, connVars, lineVars
  <2>2. QED
    BY <1>1, <2>1, SideFrame DEF RelayInv, Sidewise
<1>3. QED
  BY <1>1, <1>2, HandlerSides, LineSides
     DEF RelayInv, Next, Supervise, PortFreed, SetDelay, Tick

LEMMA RelayAlways == Spec => []RelayInv
  BY RelayInit, RelayStep, PTL DEF Spec

\* What the relay closes it has emptied first: everything read from one side was
\* written to the other before that one is closed, in whichever order sides end,
\* tasks fail and handlers give up (_pump's end mark and its close).
THEOREM NothingIsDropped == Spec => []NothingDropped
<1>1. RelayInv => NothingDropped
  <2> SUFFICES ASSUME RelayInv, NEW l \in Lines, sock[Far(l)] = "closed"
               PROVE  passed[l] = [i \in 1..Len(accepted[l]) |-> accepted[l][i].chunk]
    BY DEF NothingDropped
  <2>1. LineInv(l) /\ SideInv(l) /\ TypeOK
    BY DEF RelayInv, Lined, Sidewise
  <2>2. Len(passed[l]) = Len(accepted[l]) /\ Written(l)
    BY <2>1, LineTypes DEF LineInv, SideInv, Written
  <2>3. passed[l] \in Seq(Chunks)
    BY <2>1 DEF TypeOK
  <2>4. passed[l] = [i \in 1..Len(passed[l]) |-> passed[l][i]]
    BY <2>3
  <2>5. \A i \in 1..Len(passed[l]) : passed[l][i] = accepted[l][i].chunk
    BY <2>2 DEF Written
  <2>6. QED
    BY <2>2, <2>4, <2>5
<1>2. QED
  BY <1>1, RelayAlways, PTL

\* A connection that is over leaves neither transport open, unless one of them
\* was lost to a TimeoutError, which _pump does not catch.
THEOREM NothingLeaks == Spec => []NoLeak
<1>1. RelayInv => NoLeak
  <2> SUFFICES ASSUME RelayInv, NEW c \in Conns, handler[c] = "done",
                      \A l \in Both(c) : sock[l] # "timeout", NEW l \in Both(c)
               PROVE  sock[l] \notin {"open", "eof"}
    BY DEF NoLeak
  <2>1. l \in Lines /\ l[1] = c /\ Far(l) \in Both(c) /\ Far(l) \in Lines /\ Far(l)[1] = c
        /\ Far(Far(l)) = l
    BY Sided, Pairs DEF Both, Phone, Edge
  <2>2. SideInv(Far(l))
    BY <2>1 DEF RelayInv, Sidewise
  <2>3. QED
    BY <2>1, <2>2 DEF SideInv, Open
<1>2. QED
  BY <1>1, RelayAlways, PTL

----------------------------------------------------------------------------
(* What a line waits for is bounded.                                       *)

\* No chunk was given more than the largest delay from when it was read.
DueInv == \A l \in Lines : \A i \in DOMAIN accepted[l] : accepted[l][i].due <= now + MaxDelay

LEMMA DueStep == TypeOK /\ DueInv /\ [Next]_vars => DueInv'
<1> SUFFICES ASSUME TypeOK, DueInv, [Next]_vars PROVE DueInv'
  OBVIOUS
<1>1. /\ now \in Nat /\ delay \in Nat /\ delay <= MaxDelay /\ MaxDelay \in Nat
      /\ accepted \in [Lines -> Seq(Item)]
  BY RelayAssumption DEF RelayAssumption, TypeOK
<1>2. ASSUME UNCHANGED accepted, now' \in {now, now + 1} PROVE DueInv'
  <2> SUFFICES ASSUME NEW l \in Lines, NEW i \in DOMAIN accepted[l]
               PROVE  accepted[l][i].due <= now' + MaxDelay
    BY <1>2 DEF DueInv
  <2>1. accepted[l][i] \in Item
    BY <1>1
  <2>2. accepted[l][i].due \in Nat
    BY <2>1 DEF Item
  <2>3. accepted[l][i].due <= now + MaxDelay
    BY DEF DueInv
  <2>4. QED
    BY <1>1, <1>2, <2>2, <2>3
<1>3. ASSUME NEW l \in Lines, Read(l) PROVE DueInv'
  <2> DEFINE item == [due |-> now + delay, chunk |-> sent + 1]
  <2>1. accepted' = [accepted EXCEPT ![l] = Append(@, item)] /\ UNCHANGED now
    BY <1>3 DEF Read
  <2> SUFFICES ASSUME NEW k \in Lines, NEW i \in DOMAIN accepted'[k]
               PROVE  accepted'[k][i].due <= now + MaxDelay
    BY <2>1 DEF DueInv
  <2>2. item.due <= now + MaxDelay
    BY <1>1
  <2>3. accepted'[k][i] = item \/ (i \in DOMAIN accepted[k] /\ accepted'[k][i] = accepted[k][i])
    <3>1. accepted[k] \in Seq(Item)
      BY <1>1
    <3>2. accepted'[k] = accepted[k] \/ accepted'[k] = Append(accepted[k], item)
      BY <1>1, <2>1
    <3>3. QED
      BY <3>1, <3>2
  <2>4. QED
    BY <2>2, <2>3 DEF DueInv
<1>4. CASE Tick
  BY <1>2, <1>4 DEF Tick, lineVars
<1>5. CASE UNCHANGED <<now, lineVars>> \/ UNCHANGED vars
  BY <1>2, <1>5 DEF lineVars, vars
<1>6. ASSUME NEW l \in Lines, Reader(l) \/ Send(l) PROVE DueInv'
  BY <1>2, <1>6 DEF Reader, ReadEnds, ReadRaises, PumpEnds, Send
<1>7. ASSUME NEW c \in Conns, Connected(c) PROVE DueInv'
  BY <1>2, <1>7 DEF Connected
<1>8. QED
  BY <1>3, <1>4, <1>5, <1>6, <1>7
     DEF Next, Supervise, PortFreed, SetDelay, Accept, Refused, HandlerEnds, SideEnds

\* While a line's sender runs, the longest it may sleep is bounded by the largest
\* delay, however often /api/wan-delay was changed, and a reader that awaits it
\* has left the end mark that ends it (_pump).
THEOREM LinesDrain == Spec => []DrainsInTime
<1>1. Init => DueInv
  BY DEF Init, DueInv
<1>2. RelayInv /\ DueInv => DrainsInTime
  <2> SUFFICES ASSUME RelayInv, DueInv, NEW l \in Lines, sender[l] = "send"
               PROVE  /\ \A i \in DOMAIN queue[l] : queue[l][i].due <= now + MaxDelay
                      /\ reader[l] = "wait" => \E i \in DOMAIN queue[l] : queue[l][i] = End
    BY DEF DrainsInTime
  <2> DEFINE p == Len(passed[l])
  <2>1. TypeOK /\ LineInv(l) /\ Rest(Entered(l), p, queue[l]) /\ p <= Len(accepted[l])
    BY DEF RelayInv, Lined, LineInv, Written
  <2>2. /\ queue[l] \in Seq(Item \cup {End}) /\ accepted[l] \in Seq(Item) /\ p \in Nat
        /\ DOMAIN queue[l] = 1..Len(queue[l]) /\ Len(queue[l]) \in Nat
        /\ now \in Nat /\ MaxDelay \in Nat
    <3>1. passed[l] \in Seq(Chunks) /\ now \in Nat /\ MaxDelay \in Nat
      BY <2>1, RelayAssumption DEF RelayAssumption, TypeOK
    <3>2. QED
      BY <2>1, <3>1, LineTypes
  <2> HIDE DEF p
  <2>3. /\ Len(Entered(l)) = p + Len(queue[l])
        /\ \A i \in 1..Len(queue[l]) : queue[l][i] = Entered(l)[p + i]
    BY <2>1 DEF Rest
  <2>4. \A j \in 1..Len(Entered(l)) :
          Entered(l)[j] = End \/ (j \in DOMAIN accepted[l] /\ Entered(l)[j] = accepted[l][j])
    BY <2>2 DEF Entered
  <2>5. \A j \in 1..Len(Entered(l)) : Entered(l)[j].due <= now + MaxDelay
    <3>1. End.due <= now + MaxDelay
      BY <2>2 DEF End
    <3>2. QED
      BY <2>4, <3>1 DEF DueInv
  <2>6. \A i \in DOMAIN queue[l] : p + i \in 1..Len(Entered(l))
    BY <2>2, <2>3
  <2>7. ASSUME reader[l] = "wait" PROVE \E i \in DOMAIN queue[l] : queue[l][i] = End
    <3>1. Entered(l) = Append(accepted[l], End)
      BY <2>7 DEF Entered
    <3>2. Len(Entered(l)) = Len(accepted[l]) + 1 /\ Entered(l)[Len(accepted[l]) + 1] = End
      BY <2>2, <3>1
    <3>3. Len(queue[l]) \in 1..Len(queue[l]) /\ p + Len(queue[l]) = Len(accepted[l]) + 1
      <4>1. Len(accepted[l]) \in Nat /\ p + Len(queue[l]) = Len(accepted[l]) + 1
        BY <2>2, <2>3, <3>2
      <4>2. QED
        BY <2>1, <2>2, <4>1
    <3>4. QED
      BY <2>2, <2>3, <3>2, <3>3
  <2>8. QED
    BY <2>2, <2>3, <2>5, <2>6, <2>7
<1>3. RelayInv => TypeOK
  BY DEF RelayInv
<1>4. QED
  BY <1>1, <1>2, <1>3, DueStep, RelayAlways, PTL DEF Spec

----------------------------------------------------------------------------
(* The relay is a delay line.                                              *)

LEMMA WanStep ==
  ASSUME RelayInv, [Next]_vars
  PROVE  [Wan!Tick \/ \E l \in Lines : Wan!Accept(l) \/ Wan!Pass(l)]_<<now, accepted, passed>>
<1>0. TypeOK
  BY DEF RelayInv
<1>1. ASSUME NEW l \in Lines, Read(l) PROVE Wan!Accept(l)
  <2>1. delay \in 0..MaxDelay /\ sent + 1 \in Chunks
    BY <1>0, <1>1, RelayAssumption DEF RelayAssumption, TypeOK, Read, Chunks
  <2>2. accepted' = [accepted EXCEPT ![l] = Append(@, [due |-> now + delay, chunk |-> sent + 1])]
        /\ UNCHANGED <<now, passed>>
    BY <1>1 DEF Read
  <2>3. QED
    BY <2>1, <2>2 DEF Wan!Accept
<1>2. ASSUME NEW l \in Lines, Send(l) PROVE Wan!Pass(l) \/ UNCHANGED <<now, accepted, passed>>
  <2>1. CASE UNCHANGED passed
    BY <1>2, <2>1 DEF Send
  <2>2. CASE ~UNCHANGED passed
    <3>1. /\ sender[l] = "send" /\ queue[l] # <<>> /\ Head(queue[l]).due <= now
          /\ Head(queue[l]) # End /\ UNCHANGED <<now, accepted>>
          /\ passed' = [passed EXCEPT ![l] = Append(@, Head(queue[l]).chunk)]
      BY <1>2, <2>2 DEF Send
    <3>2. LineInv(l)
      BY DEF RelayInv, Lined
    <3>3. /\ Len(passed[l]) + 1 <= Len(accepted[l])
          /\ Head(queue[l]) = accepted[l][Len(passed[l]) + 1]
      BY <1>0, <3>1, <3>2, HeadOfQueue
    <3>4. QED
      BY <3>1, <3>3 DEF Wan!Pass
  <2>3. QED
    BY <2>1, <2>2
<1>3. CASE Tick
  BY <1>3 DEF Tick, lineVars, Wan!Tick
<1>4. CASE UNCHANGED <<now, lineVars>> \/ UNCHANGED vars
  BY <1>4 DEF lineVars, vars
<1>5. ASSUME NEW l \in Lines, Reader(l) PROVE UNCHANGED <<now, accepted, passed>>
  BY <1>5 DEF Reader, ReadEnds, ReadRaises, PumpEnds
<1>6. ASSUME NEW c \in Conns, Connected(c) PROVE UNCHANGED <<now, accepted, passed>>
  BY <1>6 DEF Connected
<1>7. QED
  BY <1>1, <1>2, <1>3, <1>4, <1>5, <1>6
     DEF Next, Supervise, PortFreed, SetDelay, Accept, Refused, HandlerEnds, SideEnds

\* Each direction of each connection is a delay line: what is read from one side
\* is written to the other in order, once, not early and with nothing left out
\* in between, whatever the delay is changed to meanwhile (_pump).
THEOREM RelayIsADelayLine == Spec => WanDelays
<1>1. Init => Wan!Init
  BY DEF Init, Wan!Init
<1>2. QED
  BY <1>1, RelayAlways, WanStep, PTL DEF Spec, WanDelays, Wan!Spec
=============================================================================
