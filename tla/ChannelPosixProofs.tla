------------------------- MODULE ChannelPosixProofs -------------------------
(***************************************************************************)
(* The safety properties of ChannelPosix, for any sizes of the messages,   *)
(* the pipes and the buffer, and that each direction of a channel          *)
(* implements MessagePipe.  The invariant follows the units of a direction *)
(* from the queue of the writer to the buffer of the reader: what was read *)
(* and what is in the pipe are one stream of consecutive units, that       *)
(* begins where the reader's listener stopped and ends where the writer    *)
(* will go on.                                                             *)
(***************************************************************************)
EXTENDS ChannelPosix, SequenceTheorems, WellFoundedInduction, TLAPS

----------------------------------------------------------------------------
(* The invariant.                                                          *)

\* What end e sent: the Hello message, then others in the order of their ids.
SentOK(e) ==
  /\ Len(sent[e]) >= 1 /\ sent[e][1].size = 1 /\ sent[e][1].fd = 0
  /\ \A k \in 1 .. Len(sent[e]) :
       /\ sent[e][k].id = k - 1 /\ sent[e][k].whole
       /\ sent[e][k].fd # 0 => sent[e][k].fd = k - 1 /\ ~uses_fifo

\* The id of the next message to be written, or to be sent.
NextId(e) == Len(sent[e]) - Len(output[e])

\* The queue has the last messages sent.  The descriptor of the first may be
\* gone already: then its header says that it has one.
OutputOK(e) ==
  /\ Len(output[e]) <= Len(sent[e])
  /\ \A i \in 1 .. Len(output[e]) :
       LET m == output[e][i] IN
         /\ m.id = NextId(e) + i - 1 /\ m.size = sent[e][m.id + 1].size
         /\ (m.fd \/ m.num_fds) <=> sent[e][m.id + 1].fd # 0
         /\ i > 1 /\ m.num_fds => m.fd
  /\ ~Closed(e) =>
       IF output[e] = <<>> THEN written[e] = 0
       ELSE /\ written[e] < output[e][1].size
            /\ written[e] > 0 => ~output[e][1].fd

\* The units that e wrote and its peer has not parsed.  A closed end reads no
\* more.
Stream(e) == input[Peer(e)] \o IF Closed(Peer(e)) THEN <<>> ELSE pipe[e]

\* Unit v is the one after u.
Follows(u, v) ==
  IF u.part < u.size THEN v.id = u.id /\ v.part = u.part + 1
  ELSE v.id = u.id + 1 /\ v.part = 1

Chained(s) == \A k \in 1 .. Len(s) - 1 : Follows(s[k], s[k + 1])

\* Unit u is of a message in the sequence s of those sent.
IsUnitOf(s, u) ==
  /\ u.id < Len(s) /\ u.part <= u.size
  /\ u.size = s[u.id + 1].size
  /\ u.num_fds <=> s[u.id + 1].fd # 0

\* A stream begins with the first unit of message number first, and what comes
\* after it is unit next.
Begins(s, first) == s # <<>> => s[1].id = first /\ s[1].part = 1
Ends(s, first, next) ==
  IF s = <<>> THEN next.id = first /\ next.part = 1 ELSE Follows(s[Len(s)], next)

StreamOK(e) ==
  /\ \A k \in 1 .. Len(Stream(e)) : IsUnitOf(sent[e], Stream(e)[k])
  /\ Chained(Stream(e))
  /\ Begins(Stream(e), Len(delivered[Peer(e)]))
  /\ ~Closed(e) /\ ~Closed(Peer(e)) =>
       Ends(Stream(e), Len(delivered[Peer(e)]), [id |-> NextId(e), part |-> written[e] + 1])

\* The descriptors that e sent and its peer has not received are of messages
\* not delivered, in their order; that of a message of which a unit was written
\* is among them, and none is of a message whose descriptor is still to be sent.
FdsOK(e) ==
  ~Closed(Peer(e)) =>
    /\ \A j \in 1 .. Len(fds[e]) :
         /\ fds[e][j] >= Len(delivered[Peer(e)]) /\ fds[e][j] < Len(sent[e])
         /\ sent[e][fds[e][j] + 1].fd # 0
         /\ \A i \in 1 .. j - 1 : fds[e][i] < fds[e][j]
         /\ \A i \in 1 .. Len(output[e]) : output[e][i].fd => fds[e][j] < output[e][i].id
    /\ \A k \in 1 .. Len(Stream(e)) :
         Stream(e)[k].num_fds => \E j \in 1 .. Len(fds[e]) : fds[e][j] = Stream(e)[k].id
    /\ \A i \in 1 .. Len(output[e]) :
         ~Closed(e) /\ output[e][i].num_fds /\ ~output[e][i].fd =>
           \E j \in 1 .. Len(fds[e]) : fds[e][j] = output[e][i].id

\* Where the IO thread of e is, and the marks of a blocked write.  A server that
\* heard of its client for the first time, its first message still to be
\* parsed, has not greeted it.
FirstRead(e) == at[e] \in {"read", "parse"} /\ delivered[e] = <<>>

ThreadOK(e) ==
  /\ at[e] = "new" => waiting[e]
  /\ e = "client" /\ waiting[e] => at[e] = "new"
  /\ listening[e] => uses_fifo
  /\ at[e] \notin {"new", "idle"} \/ write_watch[e] => ~waiting[e]
  /\ at[e] = "parse" => open[e]
  /\ at[e] \in {"listener", "reply"} => delivered[e] # <<>>
  /\ open[e] /\ ~waiting[e] /\ delivered[e] = <<>> /\ e = "server" /\ ~uses_fifo => FirstRead(e)
  /\ delivered[e] = <<>> => (input[e] # <<>> <=> at[e] = "parse")
  /\ at[e] = "read" /\ open[e] /\ delivered[e] = <<>> => pipe[Peer(e)] # <<>> \/ Gone(Peer(e))
  /\ open[e] => ~listening[e]
  /\ open[e] /\ ~uses_fifo /\ (e = "client" \/ delivered[e] # <<>>) => fd_pipe[e]
  /\ Closed(e) => ~fd_pipe[e]
  /\ open[e] /\ blocked[e] => write_watch[e]
  /\ at[e] \in {"idle", "read", "parse", "listener"} /\ open[e] /\ ~waiting[e] /\ output[e] # <<>> =>
       (blocked[e] /\ write_watch[e]) \/ (e = "server" /\ greeting /\ at[e] # "idle")

IInv ==
  /\ TypeOK
  /\ \A e \in End : SentOK(e) /\ OutputOK(e) /\ StreamOK(e) /\ FdsOK(e) /\ ThreadOK(e)
----------------------------------------------------------------------------
(* Type correctness.                                                       *)

LEMMA TwoEnds ==
  /\ End = {"server", "client"}
  /\ \A e \in End : Peer(e) \in End /\ Peer(e) # e /\ Peer(Peer(e)) = e
  /\ \A d, e \in End : d = e \/ d = Peer(e)
BY DEF End, Peer

LEMMA Sizes ==
  /\ MaxSize \in Nat /\ MaxSize >= 1
  /\ Capacity \in Nat /\ BufferSize \in Nat /\ BufferSize >= 1
BY ConstantsOK DEF ConstantsOK

LEMMA InitType == Init => TypeOK
<1> SUFFICES ASSUME Init PROVE TypeOK
  OBVIOUS
<1>1. Hello \in Message /\ <<Hello>> \in Seq(Message)
  BY Sizes DEF Hello, Message
<1>2. <<[id |-> 0, size |-> 1, whole |-> TRUE, fd |-> 0]>> \in Seq(Parcel)
  BY Sizes DEF Parcel
<1>3. uses_fifo \in BOOLEAN
  BY ConstantsOK DEF ConstantsOK, Init
<1>4. /\ at \in [End -> Points] /\ waiting \in [End -> BOOLEAN]
      /\ blocked \in [End -> BOOLEAN] /\ write_watch \in [End -> BOOLEAN]
      /\ client_pipe \in BOOLEAN /\ greeting \in BOOLEAN
      /\ told \in [End -> {"nothing", "closed", "refused", "error"}]
  BY <1>3 DEF Init, Points
<1>5. /\ listening \in [End -> BOOLEAN] /\ open \in [End -> BOOLEAN]
      /\ fd_pipe \in [End -> BOOLEAN]
  BY <1>3 DEF Init
<1>6. /\ output \in [End -> Seq(Message)] /\ written \in [End -> 0 .. MaxSize - 1]
      /\ input \in [End -> Seq(Unit)] /\ pipe \in [End -> Seq(Unit)]
      /\ fds \in [End -> Seq(Nat)]
      /\ sent \in [End -> Seq(Parcel)] /\ delivered \in [End -> Seq(Parcel)]
  BY <1>1, <1>2, Sizes DEF Init
<1> QED  BY <1>3, <1>4, <1>5, <1>6 DEF TypeOK

\* Closing keeps the types of what it changes.
LEMMA CloseType ==
  ASSUME TypeOK, NEW e \in End, Close(e)
  PROVE  /\ listening' \in [End -> BOOLEAN] /\ open' \in [End -> BOOLEAN]
         /\ client_pipe' \in BOOLEAN /\ fd_pipe' \in [End -> BOOLEAN]
         /\ write_watch' \in [End -> BOOLEAN] /\ output' \in [End -> Seq(Message)]
         /\ pipe' \in [End -> Seq(Unit)] /\ fds' \in [End -> Seq(Nat)]
<1>1. /\ listening' \in [End -> BOOLEAN] /\ open' \in [End -> BOOLEAN]
      /\ fd_pipe' \in [End -> BOOLEAN]
      /\ write_watch' \in [End -> BOOLEAN]
  BY DEF TypeOK, Close
<1>2. client_pipe' \in BOOLEAN
  BY Zenon DEF TypeOK, Close
<1>3. output' \in [End -> Seq(Message)]
  BY DEF TypeOK, Close
<1>4. pipe' \in [End -> Seq(Unit)]
  BY EmptySeq, TwoEnds DEF TypeOK, Close
<1>5. fds' \in [End -> Seq(Nat)]
  BY EmptySeq, TwoEnds DEF TypeOK, Close
<1> QED  BY <1>1, <1>2, <1>3, <1>4, <1>5

LEMMA MoveToType ==
  ASSUME TypeOK, NEW e \in End, NEW point \in Points, MoveTo(e, point)
  PROVE  at' \in [End -> Points]
BY DEF TypeOK, MoveTo

LEMMA ReturnType ==
  ASSUME TypeOK, NEW e \in End, Return(e)
  PROVE  at' \in [End -> Points]
BY DEF TypeOK, MoveTo, Return, Points

LEMMA OwnerType ==
  ASSUME TypeOK, NEW e \in End,
         \/ Connect(e) \/ OwnerCloses(e)
         \/ \E size \in 1 .. MaxSize, fd \in WithFd : (uses_fifo => ~fd) /\ Send(e, size, fd)
  PROVE  TypeOK'
<1>1. CASE Connect(e)
  <2>1. at' \in [End -> Points]
    BY <1>1 DEF TypeOK, Connect, MoveTo, ProcessOutgoing, Points, Callers
  <2>2. waiting' \in [End -> BOOLEAN] /\ blocked' \in [End -> BOOLEAN]
    BY <1>1 DEF TypeOK, Connect, ProcessOutgoing
  <2> QED  BY <1>1, <2>1, <2>2 DEF TypeOK, Connect, closeVars, historyVars
<1>2. CASE OwnerCloses(e)
  <2>1. Close(e)
    BY <1>2 DEF OwnerCloses
  <2>2. told' \in [End -> {"nothing", "closed", "refused", "error"}]
    BY <1>2 DEF TypeOK, OwnerCloses, Tell
  <2>3. UNCHANGED <<at, uses_fifo, waiting, greeting, blocked, written, input, sent, delivered>>
    BY <1>2 DEF OwnerCloses, handshakeVars, ioVars
  <2> QED  BY <2>1, <2>2, <2>3, CloseType DEF TypeOK
<1>3. ASSUME NEW size \in 1 .. MaxSize, NEW fd \in WithFd, Send(e, size, fd)
      PROVE  TypeOK'
  <2>1. Len(sent[e]) \in Nat /\ fd \in BOOLEAN
    BY ConstantsOK DEF TypeOK, ConstantsOK
  <2>2. /\ [id |-> Len(sent[e]), size |-> size, whole |-> TRUE,
            fd |-> IF fd THEN Len(sent[e]) ELSE 0] \in Parcel
        /\ [id |-> Len(sent[e]), size |-> size, fd |-> fd, num_fds |-> FALSE] \in Message
    BY <2>1 DEF Parcel, Message
  <2>3. sent' \in [End -> Seq(Parcel)] /\ output' \in [End -> Seq(Message)]
    BY <1>3, <2>2, AppendProperties DEF TypeOK, Send, Enqueue
  <2>4. at' \in [End -> Points]
    BY <1>3 DEF TypeOK, Send, MoveTo, ProcessOutgoing, Points, Callers
  <2>5. blocked' \in [End -> BOOLEAN]
    BY <1>3 DEF TypeOK, Send, ProcessOutgoing
  <2> QED  BY <1>3, <2>3, <2>4, <2>5 DEF TypeOK, Send, handshakeVars
<1> QED  BY <1>1, <1>2, <1>3

LEMMA ReturnFromType ==
  ASSUME TypeOK, NEW e \in End, ReturnTrue(e) \/ ReturnFalse(e)
  PROVE  TypeOK'
<1>1. at' \in [End -> Points]
  BY ReturnType DEF ReturnTrue, ReturnFalse
<1>2. CASE ReturnTrue(e)
  BY <1>1, <1>2 DEF TypeOK, ReturnTrue, closeVars, handshakeVars, ioVars, historyVars
<1>3. CASE ReturnFalse(e)
  <2>1. Close(e) \/ UNCHANGED closeVars
    BY <1>3 DEF ReturnFalse
  <2>2. told' \in [End -> {"nothing", "closed", "refused", "error"}]
    BY <1>3 DEF TypeOK, ReturnFalse, Tell
  <2>3. UNCHANGED <<uses_fifo, waiting, greeting, blocked, written, input, sent, delivered>>
    BY <1>3 DEF ReturnFalse, handshakeVars, ioVars
  <2>4. CASE Close(e)
    BY <1>1, <2>2, <2>3, <2>4, CloseType DEF TypeOK
  <2>5. CASE UNCHANGED closeVars
    BY <1>1, <2>2, <2>3, <2>5 DEF TypeOK, closeVars
  <2> QED  BY <2>1, <2>4, <2>5
<1> QED  BY <1>2, <1>3

\* The message at the head of the queue once its descriptor is sent.
LEMMA CommittedMessage ==
  ASSUME TypeOK, NEW e \in End, output[e] # <<>>
  PROVE  /\ output[e][1] = Head(output[e]) /\ output[e][1] \in Message
         /\ Committed(e) \in Message
         /\ Committed(e).id = output[e][1].id /\ Committed(e).size = output[e][1].size
         /\ Committed(e).fd = FALSE
         /\ Committed(e).num_fds = (output[e][1].num_fds \/ NeedsFd(e))
         /\ NeedsFd(e) = (written[e] = 0 /\ output[e][1].fd)
<1>1. output[e] \in Seq(Message) /\ written[e] \in Nat
  BY DEF TypeOK
<1>2. output[e][1] = Head(output[e]) /\ output[e][1] \in Message
  BY <1>1, HeadTailProperties
<1>3. NeedsFd(e) = (written[e] = 0 /\ output[e][1].fd) /\ NeedsFd(e) \in BOOLEAN
  BY <1>2 DEF NeedsFd, Message
<1> HIDE DEF NeedsFd
<1>4. /\ Committed(e) \in Message
      /\ Committed(e).id = output[e][1].id /\ Committed(e).size = output[e][1].size
      /\ Committed(e).fd = FALSE
      /\ Committed(e).num_fds = (output[e][1].num_fds \/ NeedsFd(e))
  BY <1>2, <1>3 DEF Committed, Message
<1> QED  BY <1>2, <1>3, <1>4

\* The units of a message, and those that are still to be written.
LEMMA MessageUnits ==
  ASSUME NEW m \in Message
  PROVE  /\ UnitsOf(m) \in Seq(Unit) /\ Len(UnitsOf(m)) = m.size
         /\ \A k \in 1 .. m.size : UnitsOf(m)[k] =
              [id |-> m.id, part |-> k, size |-> m.size, num_fds |-> m.num_fds]
<1>1. m.size \in 1 .. MaxSize /\ m.id \in Nat /\ m.num_fds \in BOOLEAN
  BY DEF Message
<1>2. \A k \in 1 .. m.size :
        [id |-> m.id, part |-> k, size |-> m.size, num_fds |-> m.num_fds] \in Unit
  BY <1>1, Sizes DEF Unit
<1>3. UnitsOf(m) \in [1 .. m.size -> Unit]
  BY <1>2 DEF UnitsOf
<1>4. UnitsOf(m) \in Seq(Unit) /\ Len(UnitsOf(m)) = m.size
  BY <1>1, <1>3, Sizes
<1> QED  BY <1>4 DEF UnitsOf

LEMMA UnwrittenUnits ==
  ASSUME TypeOK, NEW e \in End, output[e] # <<>>
  PROVE  /\ Unwritten(e) \in Seq(Unit)
         /\ Len(Unwritten(e)) = IF written[e] < output[e][1].size
                                THEN output[e][1].size - written[e] ELSE 0
         /\ \A k \in 1 .. Len(Unwritten(e)) : Unwritten(e)[k] =
              [id |-> output[e][1].id, part |-> written[e] + k, size |-> output[e][1].size,
               num_fds |-> Committed(e).num_fds]
<1> DEFINE m == Committed(e)
           size == output[e][1].size
           w == written[e]
<1>1. /\ m \in Message /\ m.id = output[e][1].id /\ m.size = size
      /\ output[e][1] = Head(output[e]) /\ output[e][1] \in Message
  BY CommittedMessage
<1>2. size \in Nat /\ size >= 1 /\ w \in Nat /\ size \in Int /\ w + 1 \in Int
  <2>1. size \in 1 .. MaxSize
    BY <1>1 DEF Message
  <2>2. w \in Nat
    BY Sizes DEF TypeOK
  <2> QED  BY <2>1, <2>2, Sizes
<1>3. /\ UnitsOf(m) \in Seq(Unit) /\ Len(UnitsOf(m)) = size
      /\ \A k \in 1 .. size : UnitsOf(m)[k] =
           [id |-> m.id, part |-> k, size |-> m.size, num_fds |-> m.num_fds]
  BY <1>1, MessageUnits
<1>4. Unwritten(e) = SubSeq(UnitsOf(m), w + 1, size)
  BY <1>1 DEF Unwritten
<1> HIDE DEF m, size, w
<1>5. \A i \in w + 1 .. size : UnitsOf(m)[i] \in Unit
  BY <1>2, <1>3, ElementOfSeq
<1>6. /\ Unwritten(e) \in Seq(Unit)
      /\ Len(Unwritten(e)) = IF w + 1 <= size THEN size - (w + 1) + 1 ELSE 0
      /\ \A i \in 1 .. size - (w + 1) + 1 : Unwritten(e)[i] = UnitsOf(m)[w + 1 + i - 1]
  BY <1>2, <1>4, <1>5, SubSeqProperties
<1>7. Len(Unwritten(e)) = IF w < size THEN size - w ELSE 0
  BY <1>2, <1>6
<1>8. ASSUME NEW k \in 1 .. Len(Unwritten(e))
      PROVE  Unwritten(e)[k] = [id |-> m.id, part |-> w + k, size |-> m.size, num_fds |-> m.num_fds]
  <2>1. k \in 1 .. size - (w + 1) + 1 /\ w + 1 + k - 1 = w + k /\ w + k \in 1 .. size
    BY <1>2, <1>7
  <2> QED  BY <1>3, <1>6, <2>1
<1> QED  BY <1>1, <1>6, <1>7, <1>8 DEF m, size, w

\* What a write takes.
LEMMA WritableUnits ==
  ASSUME TypeOK, NEW e \in End, output[e] # <<>>
  PROVE  /\ Writable(e) \in Seq(Unit)
         /\ Len(Writable(e)) <= Len(Unwritten(e)) /\ Len(Unwritten(e)) \in Nat
         /\ \A k \in 1 .. Len(Writable(e)) : Writable(e)[k] =
              [id |-> output[e][1].id, part |-> written[e] + k, size |-> output[e][1].size,
               num_fds |-> Committed(e).num_fds]
<1> DEFINE all == Unwritten(e)
           n == IF Len(all) < Capacity - Len(pipe[e]) THEN Len(all) ELSE Capacity - Len(pipe[e])
<1>1. all \in Seq(Unit) /\ Len(all) \in Nat
  BY UnwrittenUnits
<1>2. n \in Int /\ n <= Len(all)
  BY <1>1, Sizes DEF TypeOK
<1>3. Writable(e) = SubSeq(all, 1, n)
  BY DEF Writable
<1> HIDE DEF n
<1>4. \A i \in 1 .. n : all[i] \in Unit
  BY <1>1, <1>2
<1>5. /\ SubSeq(all, 1, n) \in Seq(Unit)
      /\ Len(SubSeq(all, 1, n)) = IF 1 <= n THEN n - 1 + 1 ELSE 0
      /\ \A i \in 1 .. n - 1 + 1 : SubSeq(all, 1, n)[i] = all[1 + i - 1]
  BY <1>2, <1>4, SubSeqProperties
<1>6. Len(SubSeq(all, 1, n)) = IF 1 <= n THEN n ELSE 0
  BY <1>2, <1>5
<1>7. ASSUME NEW k \in 1 .. Len(Writable(e))
      PROVE  Writable(e)[k] = all[k] /\ k \in 1 .. Len(all)
  <2>1. k \in 1 .. n - 1 + 1 /\ 1 + k - 1 = k /\ k \in 1 .. Len(all)
    BY <1>1, <1>2, <1>3, <1>6
  <2> QED  BY <1>3, <1>5, <2>1
<1> QED  BY <1>1, <1>2, <1>3, <1>5, <1>6, <1>7, UnwrittenUnits

LEMMA WritingType ==
  ASSUME TypeOK, NEW e \in End, WriteMessage(e) \/ WriteFdBlocks(e)
  PROVE  TypeOK'
<1>1. output[e] \in Seq(Message) /\ output[e] # <<>> /\ written[e] \in 0 .. MaxSize - 1
  BY DEF TypeOK, WriteMessage, WriteFdBlocks
<1>2. output[e][1] \in Message /\ output[e][1] = Head(output[e]) /\ Committed(e) \in Message
  BY <1>1, CommittedMessage
<1>3. Tail(output[e]) \in Seq(Message)
  BY <1>1, HeadTailProperties
<1>4. CASE WriteMessage(e)
  <2>1. fds' \in [End -> Seq(Nat)]
    <3>1. Head(output[e]).id \in Nat
      BY <1>2 DEF Message
    <3> QED  BY <1>4, <3>1, AppendProperties DEF TypeOK, WriteMessage
  <2>2. pipe' \in [End -> Seq(Unit)]
    BY <1>1, <1>4, WritableUnits, ConcatProperties DEF TypeOK, WriteMessage
  <2>3. written' \in [End -> 0 .. MaxSize - 1]
    <3>1. WrittenAfter(e) \in 0 .. MaxSize - 1
      <4>1. /\ Len(Unwritten(e)) = IF written[e] < output[e][1].size
                                   THEN output[e][1].size - written[e] ELSE 0
            /\ Len(Writable(e)) \in Nat /\ Len(Unwritten(e)) \in Nat
            /\ Len(Writable(e)) <= Len(Unwritten(e))
        BY <1>1, UnwrittenUnits, WritableUnits
      <4>2. output[e][1].size \in 1 .. MaxSize
        BY <1>2 DEF Message
      <4>3. CASE Len(Writable(e)) = Len(Unwritten(e))
        BY <4>3, Sizes DEF WrittenAfter
      <4>4. CASE Len(Writable(e)) # Len(Unwritten(e))
        <5>1. WrittenAfter(e) = written[e] + Len(Writable(e))
          BY <4>4 DEF WrittenAfter
        <5>2. /\ Len(Writable(e)) < Len(Unwritten(e)) /\ written[e] < output[e][1].size
              /\ Len(Unwritten(e)) = output[e][1].size - written[e]
          BY <4>1, <4>4
        <5>3. written[e] \in Nat /\ output[e][1].size \in Nat /\ output[e][1].size <= MaxSize
          BY <1>1, <4>2, Sizes
        <5>4. /\ written[e] + Len(Writable(e)) \in Nat
              /\ written[e] + Len(Writable(e)) < output[e][1].size
          BY <4>1, <5>2, <5>3
        <5> QED  BY <5>1, <5>3, <5>4, Sizes
      <4> QED  BY <4>3, <4>4
    <3> QED  BY <1>4, <3>1 DEF TypeOK, WriteMessage
  <2>4. output' \in [End -> Seq(Message)]
    <3>1. <<Committed(e)>> \o Tail(output[e]) \in Seq(Message)
      BY <1>2, <1>3, ConcatProperties
    <3> QED  BY <1>3, <1>4, <3>1 DEF TypeOK, WriteMessage
  <2>5. /\ at' \in [End -> Points] /\ blocked' \in [End -> BOOLEAN]
        /\ write_watch' \in [End -> BOOLEAN]
    <3>1. BlockWrite(e) \/ UNCHANGED <<at, blocked, write_watch>>
      BY <1>4 DEF WriteMessage
    <3>2. CASE BlockWrite(e)
      BY <3>2, ReturnType DEF BlockWrite, TypeOK
    <3>3. CASE UNCHANGED <<at, blocked, write_watch>>
      BY <3>3 DEF TypeOK
    <3> QED  BY <3>1, <3>2, <3>3
  <2> QED  BY <1>4, <2>1, <2>2, <2>3, <2>4, <2>5 DEF TypeOK, WriteMessage, handshakeVars, historyVars
<1>5. CASE WriteFdBlocks(e)
  <2>1. output' \in [End -> Seq(Message)]
    <3>1. [output[e][1] EXCEPT !.num_fds = TRUE] \in Message
      BY <1>2 DEF Message
    <3>2. 1 \in 1 .. Len(output[e])
      BY <1>1, EmptySeq
    <3>3. [output[e] EXCEPT ![1] = [output[e][1] EXCEPT !.num_fds = TRUE]] \in Seq(Message)
      BY <1>1, <3>1, <3>2, ExceptSeq
    <3>4. output' = [output EXCEPT ![e] =
                       [output[e] EXCEPT ![1] = [output[e][1] EXCEPT !.num_fds = TRUE]]]
      BY <1>5 DEF WriteFdBlocks
    <3> QED  BY <3>3, <3>4 DEF TypeOK
  <2>2. /\ at' \in [End -> Points] /\ blocked' \in [End -> BOOLEAN]
        /\ write_watch' \in [End -> BOOLEAN]
    BY <1>5, ReturnType DEF WriteFdBlocks, BlockWrite, TypeOK
  <2> QED  BY <1>5, <2>1, <2>2 DEF TypeOK, WriteFdBlocks, handshakeVars, historyVars
<1> QED  BY <1>4, <1>5

LEMMA ReadinessType ==
  ASSUME TypeOK, NEW e \in End,
         CanWrite(e) \/ CanRead(e) \/ ReadWouldBlock(e) \/ ParsePartial(e)
  PROVE  TypeOK'
<1>1. at' \in [End -> Points]
  <2>1. {"writable", "read", "hello", "idle"} \subseteq Points
    BY DEF Points, Callers
  <2>2. MoveTo(e, "writable") \/ MoveTo(e, "read") \/ MoveTo(e, "hello") \/ MoveTo(e, "idle")
    BY DEF CanWrite, CanRead, ReadWouldBlock, ParsePartial, ProcessOutgoing
  <2> QED  BY <2>1, <2>2, MoveToType
<1>2. blocked' \in [End -> BOOLEAN] /\ write_watch' \in [End -> BOOLEAN]
  BY DEF TypeOK, CanWrite, CanRead, ReadWouldBlock, ParsePartial, ProcessOutgoing, closeVars, ioVars
<1>3. waiting' \in [End -> BOOLEAN]
  BY DEF TypeOK, CanWrite, CanRead, ReadWouldBlock, ParsePartial, handshakeVars
<1>4. greeting' \in BOOLEAN
  BY DEF TypeOK, CanWrite, CanRead, ReadWouldBlock, ParsePartial, handshakeVars
<1>5. UNCHANGED <<uses_fifo, listening, open, client_pipe, fd_pipe, output, pipe, fds, written,
                  input, sent, delivered, told>>
  BY DEF CanWrite, CanRead, ReadWouldBlock, ParsePartial, closeVars, handshakeVars, ioVars,
         historyVars
<1> QED  BY <1>1, <1>2, <1>3, <1>4, <1>5 DEF TypeOK

LEMMA AcceptType ==
  ASSUME TypeOK, NEW ok \in Accepts, AcceptConnection(ok)
  PROVE  TypeOK'
<1>1. "server" \in End
  BY DEF End
<1>2. /\ at' \in [End -> Points] /\ blocked' \in [End -> BOOLEAN]
      /\ waiting' \in [End -> BOOLEAN]
  BY DEF TypeOK, AcceptConnection, MoveTo, ProcessOutgoing, Points, Callers
<1>3. UNCHANGED <<uses_fifo, greeting, written, input, sent, delivered, told>>
  BY DEF AcceptConnection, historyVars
<1>4. CASE Close("server")
  BY <1>1, <1>2, <1>3, <1>4, CloseType DEF TypeOK
<1>5. CASE ~Close("server")
  <2>1. /\ listening' \in [End -> BOOLEAN] /\ open' \in [End -> BOOLEAN]
        /\ UNCHANGED <<client_pipe, fd_pipe, write_watch, output, pipe, fds>>
    BY <1>5 DEF TypeOK, AcceptConnection
  <2> QED  BY <1>2, <1>3, <2>1 DEF TypeOK
<1> QED  BY <1>4, <1>5

LEMMA FailReadType ==
  ASSUME TypeOK, NEW e \in End, ReadEnd(e) \/ ReadTooMuch(e) \/ ParseFails(e)
  PROVE  TypeOK'
<1>1. FailRead(e) /\ Close(e)
  BY DEF ReadEnd, ReadTooMuch, ParseFails, FailRead
<1>2. at' \in [End -> Points]
  BY <1>1, MoveToType DEF FailRead, Points
<1>3. /\ told' \in [End -> {"nothing", "closed", "refused", "error"}]
      /\ UNCHANGED <<uses_fifo, waiting, blocked, written, sent, delivered>>
  BY <1>1 DEF TypeOK, FailRead, Tell
<1>4. greeting' \in BOOLEAN
  BY <1>1 DEF TypeOK, FailRead
<1>5. input' \in [End -> Seq(Unit)]
  <2>1. input' = input \/ input' = [input EXCEPT ![e] = <<>>]
    BY DEF ReadEnd, ReadTooMuch, ParseFails
  <2>2. input \in [End -> Seq(Unit)] /\ <<>> \in Seq(Unit)
    BY EmptySeq DEF TypeOK
  <2> QED  BY <2>1, <2>2
<1> QED  BY <1>1, <1>2, <1>3, <1>4, <1>5, CloseType DEF TypeOK

\* What a read takes is the beginning of what the peer wrote.
LEMMA ReadableUnits ==
  ASSUME TypeOK, NEW e \in End, MayRead(e)
  PROVE  \E n \in 1 .. Len(pipe[Peer(e)]) :
           /\ Readable(e) = SubSeq(pipe[Peer(e)], 1, n)
           /\ Readable(e) \in Seq(Unit) /\ Len(Readable(e)) = n
           /\ SubSeq(pipe[Peer(e)], n + 1, Len(pipe[Peer(e)])) \in Seq(Unit)
<1> DEFINE s == pipe[Peer(e)]
           n == IF Len(s) < BufferSize THEN Len(s) ELSE BufferSize
<1>1. s \in Seq(Unit) /\ s # <<>> /\ Len(s) \in Nat /\ Len(s) >= 1
  <2>1. s \in Seq(Unit) /\ s # <<>>
    BY TwoEnds DEF TypeOK, MayRead
  <2> QED  BY <2>1, EmptySeq
<1>2. n \in 1 .. Len(s) /\ Readable(e) = SubSeq(s, 1, n)
  BY <1>1, Sizes DEF Readable
<1> HIDE DEF s, n
<1>3. /\ \A i \in 1 .. n : s[i] \in Unit
      /\ \A i \in n + 1 .. Len(s) : s[i] \in Unit
      /\ n \in Int /\ n + 1 \in Int /\ Len(s) \in Int
  BY <1>1, <1>2, ElementOfSeq
<1>4. SubSeq(s, 1, n) \in Seq(Unit) /\ Len(SubSeq(s, 1, n)) = IF 1 <= n THEN n - 1 + 1 ELSE 0
  BY <1>3, SubSeqProperties
<1>5. SubSeq(s, n + 1, Len(s)) \in Seq(Unit)
  BY <1>3, SubSeqProperties
<1>6. Len(SubSeq(s, 1, n)) = n
  BY <1>2, <1>4
<1> QED  BY <1>2, <1>4, <1>5, <1>6 DEF s

LEMMA ReadPipeType ==
  ASSUME TypeOK, NEW e \in End, ReadPipe(e)
  PROVE  TypeOK'
<1>1. MayRead(e) /\ Peer(e) \in End
  BY TwoEnds DEF ReadPipe
<1>2. /\ Readable(e) \in Seq(Unit)
      /\ SubSeq(pipe[Peer(e)], Len(Readable(e)) + 1, Len(pipe[Peer(e)])) \in Seq(Unit)
  BY <1>1, ReadableUnits
<1>3. input' \in [End -> Seq(Unit)]
  BY <1>2, ConcatProperties DEF TypeOK, ReadPipe
<1>4. pipe' \in [End -> Seq(Unit)]
  BY <1>1, <1>2 DEF TypeOK, ReadPipe
<1>5. at' \in [End -> Points]
  BY MoveToType DEF ReadPipe, Points
<1>6. client_pipe' \in BOOLEAN
  BY Zenon DEF TypeOK, ReadPipe
<1> QED  BY <1>3, <1>4, <1>5, <1>6 DEF TypeOK, ReadPipe, handshakeVars, historyVars

LEMMA ParseMessageType ==
  ASSUME TypeOK, NEW e \in End, ParseMessage(e)
  PROVE  TypeOK'
<1>1. Peer(e) \in End
  BY TwoEnds
<1>2. /\ input[e] \in Seq(Unit) /\ input[e] # <<>> /\ Head(input[e]) \in Unit
  <2>1. input[e] \in Seq(Unit) /\ input[e] # <<>>
    BY DEF TypeOK, ParseMessage, Complete
  <2> QED  BY <2>1, HeadTailProperties
<1>3. /\ Head(input[e]).id \in Nat /\ Head(input[e]).size \in 1 .. MaxSize
      /\ Head(input[e]).num_fds \in BOOLEAN
  BY <1>2 DEF Unit
<1>4. Head(input[e]).num_fds =>
        fds[Peer(e)] # <<>> /\ Head(fds[Peer(e)]) \in Nat /\ Tail(fds[Peer(e)]) \in Seq(Nat)
  <2>1. fds[Peer(e)] \in Seq(Nat)
    BY <1>1 DEF TypeOK
  <2>2. Head(input[e]).num_fds => fds[Peer(e)] # <<>>
    BY DEF ParseMessage, HasFd
  <2> QED  BY <2>1, <2>2, HeadTailProperties
<1>5. delivered' \in [End -> Seq(Parcel)]
  <2> DEFINE m == Head(input[e])
             parcel == [id |-> m.id, size |-> m.size,
                        whole |-> SubSeq(input[e], 1, m.size) = UnitsOf(m),
                        fd |-> IF m.num_fds THEN Head(fds[Peer(e)]) ELSE 0]
  <2>1. (IF m.num_fds THEN Head(fds[Peer(e)]) ELSE 0) \in Nat
    BY <1>3, <1>4
  <2>2. parcel \in Parcel
    BY <1>3, <2>1 DEF Parcel
  <2>3. delivered' = [delivered EXCEPT ![e] = Append(@, parcel)]
    BY DEF ParseMessage
  <2> HIDE DEF parcel
  <2> QED  BY <2>2, <2>3, AppendProperties DEF TypeOK
<1>6. fds' \in [End -> Seq(Nat)]
  BY <1>1, <1>4 DEF TypeOK, ParseMessage
<1>7. fd_pipe' \in [End -> BOOLEAN]
  BY DEF TypeOK, ParseMessage
<1>8. input' \in [End -> Seq(Unit)]
  <2>1. AfterMessage(e) \in Seq(Unit)
    <3>1. /\ Head(input[e]).size + 1 \in Int /\ Len(input[e]) \in Int
          /\ \A i \in Head(input[e]).size + 1 .. Len(input[e]) : input[e][i] \in Unit
      BY <1>2, <1>3, Sizes, ElementOfSeq
    <3> QED  BY <3>1, SubSeqProperties DEF AfterMessage
  <2> QED  BY <2>1 DEF TypeOK, ParseMessage
<1>9. at' \in [End -> Points]
  BY MoveToType DEF ParseMessage, Points
<1> QED  BY <1>5, <1>6, <1>7, <1>8, <1>9 DEF TypeOK, ParseMessage, handshakeVars

LEMMA NextType == TypeOK /\ [Next]_vars => TypeOK'
<1> SUFFICES ASSUME TypeOK, [Next]_vars PROVE TypeOK'
  OBVIOUS
<1>1. CASE UNCHANGED vars
  BY <1>1 DEF TypeOK, vars, closeVars, handshakeVars, ioVars, historyVars
<1>2. ASSUME NEW e \in End, IoStep(e)
      PROVE  TypeOK'
  BY <1>2, OwnerType, ReturnFromType, WritingType, ReadinessType, FailReadType, ReadPipeType,
     ParseMessageType DEF IoStep
<1> QED
  BY <1>1, <1>2, OwnerType, AcceptType DEF Next

\* The variables of the channel keep their types: what is written and read are
\* units, and the count of written bytes stays below the largest size
\* (message_send_bytes_written_).
THEOREM TypeCorrect == Spec => []TypeOK
BY InitType, NextType, PTL DEF Spec

----------------------------------------------------------------------------
(* Streams of units.                                                       *)

\* A set of numbers that is not empty has a least one.
LEMMA LeastNumber ==
  ASSUME NEW S \in SUBSET Nat, S # {}
  PROVE  \E n \in S : \A m \in S : n <= m
<1> DEFINE Less == OpToRel(<, Nat)
<1>1. IsWellFoundedOn(Less, Nat)
  BY NatLessThanWellFounded
<1>2. \A m, n \in Nat : <<m, n>> \in Less <=> m < n
  BY DEF OpToRel
<1> HIDE DEF Less
<1>3. PICK n \in S : \A m \in S : ~(<<m, n>> \in Less)
  BY <1>1, WFMin
<1>4. ASSUME NEW m \in S
      PROVE  n <= m
  <2>1. m \in Nat /\ n \in Nat
    OBVIOUS
  <2>2. ~(<<m, n>> \in Less)
    BY <1>3
  <2>3. ~(m < n)
    BY <1>2, <2>1, <2>2
  <2> QED  BY <2>1, <2>3
<1> QED  BY <1>4

LEMMA UnitTypes ==
  ASSUME NEW u \in Unit
  PROVE  /\ u.id \in Nat /\ u.part \in Nat /\ u.size \in Nat /\ u.part >= 1 /\ u.size >= 1
         /\ u.num_fds \in BOOLEAN
         /\ u = [id |-> u.id, part |-> u.part, size |-> u.size, num_fds |-> u.num_fds]
BY Sizes DEF Unit

\* The ids of a stream never go back.
LEMMA IdsGrow ==
  ASSUME NEW s \in Seq(Unit), NEW first \in Nat, Chained(s), Begins(s, first)
  PROVE  \A k \in 1 .. Len(s) : s[k].id >= first
<1> DEFINE Bad == {k \in 1 .. Len(s) : ~(s[k].id >= first)}
<1>1. SUFFICES ASSUME Bad # {} PROVE FALSE
  OBVIOUS
<1>2. Len(s) \in Nat /\ Bad \in SUBSET Nat
  OBVIOUS
<1>3. PICK k \in Bad : \A j \in Bad : k <= j
  BY <1>1, <1>2, LeastNumber
<1>4. k \in 1 .. Len(s) /\ ~(s[k].id >= first) /\ s # <<>>
  BY EmptySeq
<1>5. CASE k = 1
  BY <1>4, <1>5 DEF Begins
<1>6. CASE k # 1
  <2>1. k - 1 \in 1 .. Len(s) - 1 /\ k - 1 \in 1 .. Len(s) /\ k - 1 + 1 = k /\ ~(k <= k - 1)
    BY <1>2, <1>4, <1>6
  <2>2. s[k - 1].id >= first
    BY <1>3, <2>1
  <2>3. Follows(s[k - 1], s[k])
    BY <2>1 DEF Chained
  <2>4. s[k - 1] \in Unit /\ s[k] \in Unit
    BY <1>4, <2>1, ElementOfSeq
  <2>5. s[k].id = s[k - 1].id \/ s[k].id = s[k - 1].id + 1
    BY <2>3 DEF Follows
  <2>6. s[k - 1].id \in Nat /\ s[k].id \in Nat
    BY <2>4, UnitTypes
  <2> QED  BY <1>4, <2>2, <2>5, <2>6
<1> QED  BY <1>5, <1>6

\* What a stream begins with are the units of one message, in their order.
LEMMA FirstMessage ==
  ASSUME NEW s \in Seq(Unit), NEW first \in Nat, Chained(s), Begins(s, first), s # <<>>,
         \A j, k \in 1 .. Len(s) : s[j].id = s[k].id => s[j].size = s[k].size
  PROVE  \A k \in 1 .. Len(s) :
           k <= s[1].size => s[k].id = first /\ s[k].part = k /\ s[k].size = s[1].size
<1> DEFINE Bad == {k \in 1 .. Len(s) : k <= s[1].size /\ ~(s[k].id = first /\ s[k].part = k)}
<1>1. Len(s) \in Nat /\ Len(s) >= 1 /\ Bad \in SUBSET Nat /\ 1 \in 1 .. Len(s)
  BY EmptySeq
<1>2. s[1].id = first /\ s[1].part = 1 /\ s[1].size \in Nat
  BY <1>1, ElementOfSeq, UnitTypes DEF Begins
<1>3. Bad = {}
  <2>1. SUFFICES ASSUME Bad # {} PROVE FALSE
    OBVIOUS
  <2>2. PICK k \in Bad : \A j \in Bad : k <= j
    BY <1>1, <2>1, LeastNumber
  <2>3. k \in 1 .. Len(s) /\ k <= s[1].size /\ ~(s[k].id = first /\ s[k].part = k)
    OBVIOUS
  <2>4. k # 1
    BY <1>2, <2>3
  <2>5. /\ k - 1 \in 1 .. Len(s) - 1 /\ k - 1 \in 1 .. Len(s) /\ k - 1 + 1 = k /\ ~(k <= k - 1)
        /\ k - 1 <= s[1].size /\ k - 1 < s[1].size
    BY <1>1, <1>2, <2>3, <2>4
  <2>6. s[k - 1].id = first /\ s[k - 1].part = k - 1
    BY <2>2, <2>5
  <2>7. s[k - 1].size = s[1].size
    BY <1>1, <1>2, <2>5, <2>6
  <2>8. Follows(s[k - 1], s[k])
    BY <2>5 DEF Chained
  <2> QED  BY <2>3, <2>5, <2>6, <2>7, <2>8 DEF Follows
<1>4. ASSUME NEW k \in 1 .. Len(s), k <= s[1].size
      PROVE  s[k].id = first /\ s[k].part = k /\ s[k].size = s[1].size
  <2>1. s[k].id = first /\ s[k].part = k
    BY <1>3, <1>4
  <2> QED  BY <1>1, <1>2, <2>1
<1> QED  BY <1>4

\* The rest of a stream whose first message is taken.
LEMMA RestOfStream ==
  ASSUME NEW s \in Seq(Unit), NEW t \in Seq(Unit), NEW first \in Nat, Chained(s), Begins(s, first),
         s # <<>>, s[1].size <= Len(s),
         \A j, k \in 1 .. Len(s) : s[j].id = s[k].id => s[j].size = s[k].size,
         Len(t) = Len(s) - s[1].size,
         \A k \in 1 .. Len(t) : t[k] = s[k + s[1].size]
  PROVE  /\ Chained(t) /\ Begins(t, first + 1)
         /\ \A next : Ends(s, first, next) => Ends(t, first + 1, next)
<1> DEFINE n == s[1].size
<1>1. n \in Nat /\ n >= 1 /\ n <= Len(s) /\ Len(s) \in Nat /\ Len(t) \in Nat
  BY ElementOfSeq, EmptySeq, UnitTypes
<1>2. n \in 1 .. Len(s)
  BY <1>1
<1>3. s[n].id = first /\ s[n].part = n /\ s[n].size = n
  BY <1>1, <1>2, FirstMessage
<1>4. Chained(t)
  <2>1. SUFFICES ASSUME NEW k \in 1 .. Len(t) - 1 PROVE Follows(t[k], t[k + 1])
    BY DEF Chained
  <2>2. k \in 1 .. Len(t) /\ k + 1 \in 1 .. Len(t)
    BY SMTT(30), <1>1
  <2>3. k + n \in 1 .. Len(s) - 1 /\ (k + 1) + n = (k + n) + 1
    BY SMTT(30), <1>1
  <2>4. t[k] = s[k + n] /\ t[k + 1] = s[(k + n) + 1]
    BY <2>2, <2>3
  <2> QED  BY <2>3, <2>4 DEF Chained
<1>5. ASSUME t # <<>>
      PROVE  n \in 1 .. Len(s) - 1 /\ t[1] = s[n + 1] /\ t[Len(t)] = s[Len(s)]
  <2>1. Len(t) >= 1
    BY <1>5, EmptySeq
  <2>2. n \in 1 .. Len(s) - 1 /\ 1 \in 1 .. Len(t) /\ Len(t) \in 1 .. Len(t) /\ 1 + n = n + 1
        /\ Len(t) + n = Len(s)
    BY <1>1, <2>1
  <2> QED  BY <2>2
<1>6. Begins(t, first + 1)
  <2>1. SUFFICES ASSUME t # <<>> PROVE t[1].id = first + 1 /\ t[1].part = 1
    BY DEF Begins
  <2>2. Follows(s[n], t[1])
    BY <1>5, <2>1 DEF Chained
  <2> QED  BY <1>1, <1>3, <2>2 DEF Follows
<1>7. ASSUME NEW next, Ends(s, first, next)
      PROVE  Ends(t, first + 1, next)
  <2>1. Follows(s[Len(s)], next)
    BY <1>7 DEF Ends
  <2>2. CASE t # <<>>
    BY <1>5, <2>1, <2>2 DEF Ends
  <2>3. CASE t = <<>>
    <3>1. Len(s) = n
      BY <1>1, <2>3, EmptySeq
    <3> QED  BY <1>1, <1>3, <2>1, <2>3, <3>1 DEF Ends, Follows
  <2> QED  BY <2>2, <2>3
<1> QED  BY <1>4, <1>6, <1>7

\* What is added to a stream does not change its beginning.
LEMMA BeginningOfStream ==
  ASSUME NEW s \in Seq(Unit), NEW w \in Seq(Unit)
  PROVE  Len(s) <= Len(s \o w) /\ \A k \in 1 .. Len(s) : (s \o w)[k] = s[k]
<1>1. /\ Len(s \o w) = Len(s) + Len(w) /\ Len(s) \in Nat /\ Len(w) \in Nat
      /\ \A k \in 1 .. Len(s) + Len(w) : (s \o w)[k] = IF k <= Len(s) THEN s[k] ELSE w[k - Len(s)]
  BY ConcatProperties, LenProperties
<1>2. ASSUME NEW k \in 1 .. Len(s)
      PROVE  k \in 1 .. Len(s) + Len(w) /\ k <= Len(s)
  BY <1>1
<1> QED  BY <1>1, <1>2

\* A stream to which the units of a message are added, from the next one on.
LEMMA LongerStream ==
  ASSUME NEW s \in Seq(Unit), NEW w \in Seq(Unit), NEW first \in Nat, NEW id \in Nat,
         NEW size \in Nat, NEW written_ \in Nat, written_ + Len(w) <= size,
         Chained(s), Begins(s, first), Ends(s, first, [id |-> id, part |-> written_ + 1]),
         \A k \in 1 .. Len(w) : w[k].id = id /\ w[k].part = written_ + k /\ w[k].size = size
  PROVE  /\ Chained(s \o w) /\ Begins(s \o w, first)
         /\ Len(w) # 0 \/ written_ < size =>
              Ends(s \o w, first,
                   IF written_ + Len(w) = size THEN [id |-> id + 1, part |-> 1]
                   ELSE [id |-> id, part |-> written_ + Len(w) + 1])
<1> DEFINE t == s \o w
<1>1. /\ t \in Seq(Unit) /\ Len(t) = Len(s) + Len(w) /\ Len(s) \in Nat /\ Len(w) \in Nat
      /\ \A i \in 1 .. Len(s) + Len(w) : t[i] = IF i <= Len(s) THEN s[i] ELSE w[i - Len(s)]
  BY ConcatProperties, LenProperties
<1>2. ASSUME NEW k \in 1 .. Len(s)
      PROVE  t[k] = s[k]
  BY <1>1
<1>3. ASSUME NEW k \in 1 .. Len(w)
      PROVE  t[Len(s) + k] = w[k]
  <2>1. Len(s) + k \in 1 .. Len(s) + Len(w) /\ ~(Len(s) + k <= Len(s)) /\ (Len(s) + k) - Len(s) = k
    BY <1>1
  <2> QED  BY <1>1, <2>1
<1>4. w # <<>> => /\ Len(w) >= 1 /\ 1 \in 1 .. Len(w)
                  /\ w[1].id = id /\ w[1].part = written_ + 1
  BY <1>1, EmptySeq
<1>5. s # <<>> => Len(s) >= 1 /\ Len(s) \in 1 .. Len(s) /\ 1 \in 1 .. Len(s)
  BY <1>1, EmptySeq
<1> HIDE DEF t
<1>6. Chained(t)
  <2>1. SUFFICES ASSUME NEW k \in 1 .. Len(t) - 1 PROVE Follows(t[k], t[k + 1])
    BY DEF Chained
  <2>2. CASE k < Len(s)
    <3>1. k \in 1 .. Len(s) /\ k + 1 \in 1 .. Len(s) /\ k \in 1 .. Len(s) - 1
      BY <1>1, <2>2
    <3> QED  BY <1>2, <3>1 DEF Chained
  <2>3. CASE k = Len(s)
    <3>1. s # <<>> /\ w # <<>>
      BY <1>1, <2>3, EmptySeq
    <3>2. t[k] = s[Len(s)] /\ t[k + 1] = w[1]
      BY <1>2, <1>3, <1>4, <1>5, <2>3, <3>1
    <3>3. Follows(s[Len(s)], [id |-> id, part |-> written_ + 1])
      BY <3>1 DEF Ends
    <3> QED  BY <1>4, <3>1, <3>2, <3>3 DEF Follows
  <2>4. CASE k > Len(s)
    <3>1. /\ k - Len(s) \in 1 .. Len(w) /\ k - Len(s) + 1 \in 1 .. Len(w)
          /\ Len(s) + (k - Len(s)) = k /\ Len(s) + (k - Len(s) + 1) = k + 1
      <4>1. k \in 1 .. Len(s) + Len(w) - 1 /\ Len(s) \in Nat /\ Len(w) \in Nat
        BY <1>1
      <4> DEFINE a == Len(s)
                 b == Len(w)
      <4>2. k \in 1 .. a + b - 1 /\ k > a /\ a \in Nat /\ b \in Nat
        BY <2>4, <4>1
      <4> HIDE DEF a, b
      <4>3. k - a \in 1 .. b /\ k - a + 1 \in 1 .. b
        BY <4>2
      <4>4. a + (k - a) = k /\ a + (k - a + 1) = k + 1
        BY <4>2
      <4> QED  BY <4>3, <4>4 DEF a, b
    <3>2. t[k] = w[k - Len(s)] /\ t[k + 1] = w[k - Len(s) + 1]
      BY <1>3, <3>1
    <3>3. /\ t[k].id = id /\ t[k].part = written_ + (k - Len(s)) /\ t[k].size = size
          /\ t[k + 1].id = id /\ t[k + 1].part = written_ + (k - Len(s) + 1)
      BY <3>1, <3>2
    <3>4. t[k].part < size /\ t[k + 1].part = t[k].part + 1
      BY <1>1, <3>1, <3>3
    <3> QED  BY <3>3, <3>4 DEF Follows
  <2> QED  BY <1>1, <2>2, <2>3, <2>4
<1>7. Begins(t, first)
  <2>1. CASE s # <<>>
    BY <1>2, <1>5, <2>1 DEF Begins
  <2>2. CASE s = <<>> /\ w # <<>>
    <3>1. Len(s) + 1 = 1 /\ t[1] = w[1]
      BY <1>3, <1>4, <2>2, EmptySeq
    <3>2. id = first /\ written_ + 1 = 1
      BY <2>2 DEF Ends
    <3> QED  BY <1>4, <2>2, <3>1, <3>2 DEF Begins
  <2>3. CASE s = <<>> /\ w = <<>>
    <3>1. t = <<>>
      BY <2>3, ConcatEmptySeq DEF t
    <3> QED  BY <3>1 DEF Begins
  <2> QED  BY <2>1, <2>2, <2>3
<1>8. ASSUME Len(w) # 0 \/ written_ < size
      PROVE  Ends(t, first, IF written_ + Len(w) = size THEN [id |-> id + 1, part |-> 1]
                            ELSE [id |-> id, part |-> written_ + Len(w) + 1])
  <2>1. CASE w = <<>>
    <3>1. t = s /\ Len(w) = 0 /\ written_ + Len(w) = written_ /\ written_ # size
      BY <1>8, <2>1, ConcatEmptySeq, EmptySeq DEF t
    <3> QED  BY <3>1
  <2>2. CASE w # <<>>
    <3>1. Len(w) \in 1 .. Len(w) /\ t[Len(t)] = w[Len(w)] /\ t # <<>>
      BY <1>1, <1>3, <1>4, <2>2, EmptySeq
    <3>2. /\ t[Len(t)].id = id /\ t[Len(t)].part = written_ + Len(w) /\ t[Len(t)].size = size
      BY <3>1
    <3>3. written_ + Len(w) \in Nat /\ (written_ + Len(w) < size \/ written_ + Len(w) = size)
      BY <1>1
    <3> QED  BY <3>1, <3>2, <3>3 DEF Ends, Follows
  <2> QED  BY <2>1, <2>2
<1> QED  BY <1>6, <1>7, <1>8 DEF t

----------------------------------------------------------------------------
(* What each step does to a direction of the channel.                      *)

Direction(e) == SentOK(e) /\ OutputOK(e) /\ StreamOK(e) /\ FdsOK(e)

\* Steps of either end that change nothing of direction e but where its units
\* are.
LEMMA DirectionKept ==
  ASSUME NEW e \in End, Direction(e),
         uses_fifo' = uses_fifo, sent'[e] = sent[e], output'[e] = output[e],
         written'[e] = written[e], fds'[e] = fds[e], Stream(e)' = Stream(e),
         delivered'[Peer(e)] = delivered[Peer(e)],
         Closed(e)' = Closed(e), Closed(Peer(e))' = Closed(Peer(e))
  PROVE  Direction(e)'
<1>1. NextId(e)' = NextId(e)
  BY DEF NextId
<1>2. SentOK(e)'
  BY DEF Direction, SentOK
<1>3. OutputOK(e)'
  BY <1>1 DEF Direction, OutputOK
<1>4. StreamOK(e)'
  BY <1>1 DEF Direction, StreamOK
<1>5. FdsOK(e)'
  BY DEF Direction, FdsOK
<1> QED  BY <1>2, <1>3, <1>4, <1>5 DEF Direction

LEMMA StreamType ==
  ASSUME TypeOK, NEW e \in End
  PROVE  /\ Stream(e) \in Seq(Unit) /\ input[Peer(e)] \in Seq(Unit) /\ pipe[e] \in Seq(Unit)
         /\ output[e] \in Seq(Message) /\ sent[e] \in Seq(Parcel) /\ fds[e] \in Seq(Nat)
         /\ Len(output[e]) \in Nat /\ Len(sent[e]) \in Nat /\ Len(fds[e]) \in Nat
         /\ Len(delivered[Peer(e)]) \in Nat /\ written[e] \in Nat
         /\ ~Closed(Peer(e)) => Stream(e) = input[Peer(e)] \o pipe[e]
         /\ Closed(Peer(e)) => Stream(e) = input[Peer(e)]
<1>1. Peer(e) \in End
  BY TwoEnds
<1>2. /\ input[Peer(e)] \in Seq(Unit) /\ pipe[e] \in Seq(Unit)
      /\ output[e] \in Seq(Message) /\ sent[e] \in Seq(Parcel) /\ fds[e] \in Seq(Nat)
      /\ delivered[Peer(e)] \in Seq(Parcel)
  BY <1>1 DEF TypeOK
<1>3. written[e] \in Nat
  BY Sizes DEF TypeOK
<1>4. input[Peer(e)] \o <<>> = input[Peer(e)]
  BY <1>2, ConcatEmptySeq
<1>5. input[Peer(e)] \o pipe[e] \in Seq(Unit)
  BY <1>2, ConcatProperties
<1>6. /\ ~Closed(Peer(e)) => Stream(e) = input[Peer(e)] \o pipe[e]
      /\ Closed(Peer(e)) => Stream(e) = input[Peer(e)]
  BY <1>4 DEF Stream
<1>7. Stream(e) \in Seq(Unit)
  BY <1>2, <1>5, <1>6
<1>8. /\ Len(output[e]) \in Nat /\ Len(sent[e]) \in Nat /\ Len(fds[e]) \in Nat
      /\ Len(delivered[Peer(e)]) \in Nat
  BY <1>2
<1> QED  BY <1>2, <1>3, <1>6, <1>7, <1>8

LEMMA SendDirection ==
  ASSUME TypeOK, NEW e \in End, Direction(e), NEW size \in 1 .. MaxSize, NEW fd \in WithFd,
         uses_fifo => ~fd, Send(e, size, fd)
  PROVE  Direction(e)'
<1> DEFINE n == Len(sent[e])
           parcel == [id |-> n, size |-> size, whole |-> TRUE, fd |-> IF fd THEN n ELSE 0]
           message == [id |-> n, size |-> size, fd |-> fd, num_fds |-> FALSE]
<1>1. /\ Stream(e) \in Seq(Unit) /\ n \in Nat /\ Len(output[e]) \in Nat /\ fd \in BOOLEAN
      /\ sent[e] \in Seq(Parcel) /\ output[e] \in Seq(Message) /\ Len(fds[e]) \in Nat
      /\ fds[e] \in Seq(Nat)
  BY StreamType, ConstantsOK DEF ConstantsOK
<1>2. n >= 1
  BY DEF Direction, SentOK
<1>3. parcel \in Parcel /\ message \in Message
  BY <1>1 DEF Parcel, Message
<1>4. sent'[e] = Append(sent[e], parcel) /\ output'[e] = Append(output[e], message)
  BY DEF Send, Enqueue, TypeOK
<1>5. /\ uses_fifo' = uses_fifo /\ UNCHANGED <<input, pipe, fds, written, delivered, open, listening>>
      /\ Stream(e)' = Stream(e) /\ Closed(e)' = Closed(e) /\ Closed(Peer(e))' = Closed(Peer(e))
  BY DEF Send, handshakeVars, Stream, Closed
<1>9. parcel.id = n /\ parcel.size = size /\ parcel.whole /\ parcel.fd = IF fd THEN n ELSE 0
  OBVIOUS
<1>10. message.id = n /\ message.size = size /\ message.fd = fd /\ message.num_fds = FALSE
  OBVIOUS
<1> HIDE DEF parcel, message
<1>6. /\ Len(sent'[e]) = n + 1
      /\ \A k \in 1 .. n : sent'[e][k] = sent[e][k]
      /\ sent'[e][n + 1] = parcel
  BY <1>1, <1>3, <1>4, AppendProperties
<1>7. /\ Len(output'[e]) = Len(output[e]) + 1 /\ output'[e] # <<>>
      /\ \A i \in 1 .. Len(output[e]) : output'[e][i] = output[e][i]
      /\ output'[e][Len(output[e]) + 1] = message
  <2>1. /\ Append(output[e], message) # <<>>
        /\ Len(Append(output[e], message)) = Len(output[e]) + 1
        /\ \A i \in 1 .. Len(output[e]) : Append(output[e], message)[i] = output[e][i]
        /\ Append(output[e], message)[Len(output[e]) + 1] = message
    <3>1. output[e] \in Seq(Message) /\ message \in Message
      BY <1>1, <1>3
    <3> QED  BY <3>1, AppendProperties
  <2> QED  BY <1>4, <2>1
<1>8. NextId(e)' = NextId(e) /\ NextId(e) = n - Len(output[e])
  BY <1>1, <1>6, <1>7 DEF NextId
<1>11. SentOK(e)'
  <2>1. Len(sent'[e]) >= 1 /\ sent'[e][1].size = 1 /\ sent'[e][1].fd = 0
    BY <1>1, <1>2, <1>6 DEF Direction, SentOK
  <2>2. ASSUME NEW k \in 1 .. Len(sent'[e])
        PROVE  /\ sent'[e][k].id = k - 1 /\ sent'[e][k].whole
               /\ sent'[e][k].fd # 0 => sent'[e][k].fd = k - 1 /\ ~uses_fifo'
    <3>1. CASE k \in 1 .. n
      BY <1>5, <1>6, <3>1 DEF Direction, SentOK
    <3>2. CASE k = n + 1
      BY <1>1, <1>5, <1>6, <1>9, <3>2
    <3> QED  BY <1>1, <1>6, <3>1, <3>2
  <2> QED  BY <2>1, <2>2 DEF SentOK
<1>12. OutputOK(e)'
  <2>1. Len(output[e]) <= n
    BY DEF Direction, OutputOK
  <2>2. ASSUME NEW i \in 1 .. Len(output[e])
        PROVE  /\ output[e][i].id = NextId(e) + i - 1 /\ output[e][i].id + 1 \in 1 .. n
               /\ output[e][i].size = sent[e][output[e][i].id + 1].size
               /\ (output[e][i].fd \/ output[e][i].num_fds) <=> sent[e][output[e][i].id + 1].fd # 0
               /\ i > 1 /\ output[e][i].num_fds => output[e][i].fd
    <3>1. output[e][i].id = NextId(e) + i - 1
      BY DEF Direction, OutputOK
    <3>2. output[e][i].id + 1 \in 1 .. n
      <4>1. n - Len(output[e]) + i - 1 + 1 \in 1 .. n
        <5> DEFINE m == Len(output[e])
        <5>1. m \in Nat /\ n \in Nat /\ m <= n /\ i \in 1 .. m
          BY <1>1, <2>1
        <5> HIDE DEF m, n
        <5>2. n - m + i - 1 + 1 \in 1 .. n
          BY <5>1
        <5> QED  BY <5>2 DEF m
      <4> QED  BY <1>8, <3>1, <4>1
    <3> QED  BY <3>1, <3>2 DEF Direction, OutputOK
  <2>3. ASSUME NEW i \in 1 .. Len(output'[e])
        PROVE  /\ output'[e][i].id = NextId(e)' + i - 1
               /\ output'[e][i].size = sent'[e][output'[e][i].id + 1].size
               /\ (output'[e][i].fd \/ output'[e][i].num_fds) <=>
                    sent'[e][output'[e][i].id + 1].fd # 0
               /\ i > 1 /\ output'[e][i].num_fds => output'[e][i].fd
    <3>1. CASE i \in 1 .. Len(output[e])
      <4>1. output'[e][i] = output[e][i] /\ output[e][i].id + 1 \in 1 .. n
        BY <1>7, <2>2, <3>1
      <4>2. sent'[e][output[e][i].id + 1] = sent[e][output[e][i].id + 1]
        BY <1>6, <4>1
      <4> QED  BY ZenonT(30), <1>8, <2>2, <3>1, <4>1, <4>2
    <3>2. CASE i = Len(output[e]) + 1
      <4>1. output'[e][i] = message /\ n = NextId(e)' + i - 1
        BY <1>1, <1>7, <1>8, <3>2
      <4> QED  BY <1>1, <1>2, <1>6, <1>9, <1>10, <4>1
    <3> QED  BY <1>1, <1>7, <3>1, <3>2
  <2>4. ASSUME ~Closed(e)'
        PROVE  /\ output'[e] # <<>> /\ written'[e] < output'[e][1].size
               /\ written'[e] > 0 => ~output'[e][1].fd
    <3>1. CASE output[e] = <<>>
      <4>1. written'[e] = 0
        BY <1>5, <2>4, <3>1, TwoEnds DEF Direction, OutputOK
      <4>2. output'[e][1] = message
        BY <1>7, <3>1, EmptySeq
      <4> QED  BY <1>7, <1>10, <4>1, <4>2
    <3>2. CASE output[e] # <<>>
      <4>1. output'[e][1] = output[e][1]
        <5>1. 1 \in 1 .. Len(output[e])
          BY <1>1, <3>2, EmptySeq
        <5> QED  BY <1>7, <5>1, Zenon
      <4> QED  BY <1>5, <1>7, <2>4, <3>2, <4>1 DEF Direction, OutputOK
    <3> QED  BY <3>1, <3>2
  <2>5. Len(output'[e]) <= Len(sent'[e])
    BY <1>1, <1>6, <1>7, <2>1
  <2> QED  BY <2>3, <2>4, <2>5 DEF OutputOK
<1>13. StreamOK(e)'
  <2>1. ASSUME NEW k \in 1 .. Len(Stream(e))
        PROVE  IsUnitOf(sent'[e], Stream(e)[k])
    <3>1. IsUnitOf(sent[e], Stream(e)[k]) /\ Stream(e)[k].id \in Nat
      BY <1>1, ElementOfSeq, UnitTypes DEF Direction, StreamOK
    <3>2. Stream(e)[k].id + 1 \in 1 .. n /\ Stream(e)[k].id < n + 1
      BY <1>1, <3>1 DEF IsUnitOf
    <3>3. sent'[e][Stream(e)[k].id + 1] = sent[e][Stream(e)[k].id + 1]
      BY <1>6, <3>2
    <3> QED  BY <1>6, <3>1, <3>2, <3>3 DEF IsUnitOf
  <2> QED  BY <1>5, <1>8, <2>1 DEF Direction, StreamOK
<1>14. FdsOK(e)'
  <2>1. SUFFICES ASSUME ~Closed(Peer(e)) PROVE FdsOK(e)'
    BY <1>5 DEF FdsOK
  <2>2. ASSUME NEW j \in 1 .. Len(fds[e])
        PROVE  /\ fds[e][j] >= Len(delivered[Peer(e)]) /\ fds[e][j] < Len(sent'[e])
               /\ sent'[e][fds[e][j] + 1].fd # 0
               /\ \A i \in 1 .. j - 1 : fds[e][i] < fds[e][j]
               /\ \A i \in 1 .. Len(output'[e]) : output'[e][i].fd => fds[e][j] < output'[e][i].id
    <3>1. /\ fds[e][j] >= Len(delivered[Peer(e)]) /\ fds[e][j] < n
          /\ sent[e][fds[e][j] + 1].fd # 0
          /\ \A i \in 1 .. j - 1 : fds[e][i] < fds[e][j]
          /\ \A i \in 1 .. Len(output[e]) : output[e][i].fd => fds[e][j] < output[e][i].id
      BY <2>1 DEF Direction, FdsOK
    <3>2. fds[e][j] \in Nat
      BY <1>1, ElementOfSeq
    <3>3. fds[e][j] + 1 \in 1 .. n /\ fds[e][j] < n + 1
      <4> DEFINE x == fds[e][j]
      <4>1. x \in Nat /\ n \in Nat /\ x < n
        BY <1>1, <3>1, <3>2
      <4> HIDE DEF x, n
      <4>2. x + 1 \in 1 .. n /\ x < n + 1
        BY <4>1
      <4> QED  BY <4>2 DEF x
    <3>4. sent'[e][fds[e][j] + 1].fd # 0
      BY <1>6, <3>1, <3>3
    <3>5. ASSUME NEW i \in 1 .. Len(output'[e]), output'[e][i].fd
          PROVE  fds[e][j] < output'[e][i].id
      <4>1. CASE i \in 1 .. Len(output[e])
        BY <1>7, <3>1, <3>5, <4>1
      <4>2. CASE i = Len(output[e]) + 1
        BY <1>7, <1>10, <3>1, <4>2
      <4> QED  BY <1>1, <1>7, <4>1, <4>2
    <3> QED  BY <1>6, <3>1, <3>3, <3>4, <3>5
  <2>3. ASSUME NEW i \in 1 .. Len(output'[e]),
               ~Closed(e)' /\ output'[e][i].num_fds /\ ~output'[e][i].fd
        PROVE  \E j \in 1 .. Len(fds[e]) : fds[e][j] = output'[e][i].id
    <3>1. i \in 1 .. Len(output[e])
      BY <1>1, <1>7, <1>10, <2>3
    <3>2. output'[e][i] = output[e][i]
      BY <1>7, <3>1
    <3> QED  BY <1>5, <2>1, <2>3, <3>1, <3>2 DEF Direction, FdsOK
  <2> QED  BY <1>5, <2>1, <2>2, <2>3 DEF Direction, FdsOK
<1> QED  BY <1>11, <1>12, <1>13, <1>14 DEF Direction

\* A closed end: the writer's queue is gone, and the reader keeps at most what
\* it has read.
Closing(e) ==
  /\ Close(e)
  /\ UNCHANGED <<uses_fifo, sent, delivered, written>>
  /\ input' = input \/ input' = [input EXCEPT ![e] = <<>>]

LEMMA CloseEffect ==
  ASSUME TypeOK, NEW e \in End, Closing(e)
  PROVE  /\ Closed(e)' /\ Closed(Peer(e))' = Closed(Peer(e))
         /\ output'[e] = <<>> /\ output'[Peer(e)] = output[Peer(e)]
         /\ pipe'[e] = pipe[e] /\ fds'[e] = fds[e]
         /\ input'[Peer(e)] = input[Peer(e)]
         /\ input'[e] = input[e] \/ input'[e] = <<>>
<1>1. Peer(e) \in End /\ Peer(e) # e
  BY TwoEnds
<1>2. Closed(e)' /\ Closed(Peer(e))' = Closed(Peer(e))
  BY <1>1 DEF TypeOK, Closing, Close, Closed
<1>3. output'[e] = <<>> /\ output'[Peer(e)] = output[Peer(e)]
  BY <1>1 DEF TypeOK, Closing, Close
<1>4. pipe'[e] = pipe[e] /\ fds'[e] = fds[e]
  BY <1>1 DEF TypeOK, Closing, Close
<1>5. input'[Peer(e)] = input[Peer(e)] /\ (input'[e] = input[e] \/ input'[e] = <<>>)
  BY <1>1 DEF TypeOK, Closing
<1> QED  BY <1>2, <1>3, <1>4, <1>5

LEMMA CloseWriter ==
  ASSUME TypeOK, NEW e \in End, Direction(e), Closing(e)
  PROVE  Direction(e)'
<1>1. /\ Closed(e)' /\ Closed(Peer(e))' = Closed(Peer(e))
      /\ output'[e] = <<>> /\ fds'[e] = fds[e] /\ UNCHANGED <<uses_fifo, sent, delivered>>
      /\ Stream(e)' = Stream(e)
  BY CloseEffect DEF Closing, Stream
<1>2. Len(output'[e]) = 0 /\ Len(sent[e]) \in Nat
  BY <1>1, StreamType, EmptySeq
<1>3. SentOK(e)'
  BY <1>1 DEF Direction, SentOK
<1>4. OutputOK(e)'
  <2>1. Len(output'[e]) <= Len(sent'[e])
    BY <1>1, <1>2
  <2>2. 1 .. Len(output'[e]) = {}
    BY <1>2
  <2> QED  BY <1>1, <2>1, <2>2 DEF OutputOK
<1>5. StreamOK(e)'
  BY <1>1 DEF Direction, StreamOK
<1>6. FdsOK(e)'
  <2>1. 1 .. Len(output'[e]) = {}
    BY <1>2
  <2> QED  BY <1>1, <2>1 DEF Direction, FdsOK
<1> QED  BY <1>3, <1>4, <1>5, <1>6 DEF Direction

LEMMA CloseReader ==
  ASSUME TypeOK, NEW e \in End, Direction(e), Closing(Peer(e))
  PROVE  Direction(e)'
<1> DEFINE s == input[Peer(e)]
           t == input'[Peer(e)]
<1>1. Peer(e) \in End /\ Peer(Peer(e)) = e
  BY TwoEnds
<1>2. /\ Closed(Peer(e))' /\ Closed(e)' = Closed(e) /\ output'[e] = output[e]
      /\ UNCHANGED <<uses_fifo, sent, delivered, written>>
      /\ t = s \/ t = <<>>
  BY <1>1, CloseEffect DEF Closing
<1>3. /\ Stream(e) \in Seq(Unit) /\ s \in Seq(Unit) /\ pipe[e] \in Seq(Unit)
      /\ ~Closed(Peer(e)) => Stream(e) = s \o pipe[e]
      /\ Closed(Peer(e)) => Stream(e) = s
  BY StreamType
<1>4. Len(s) <= Len(Stream(e)) /\ \A k \in 1 .. Len(s) : Stream(e)[k] = s[k]
  <2>1. CASE Closed(Peer(e))
    BY <1>3, <2>1
  <2>2. CASE ~Closed(Peer(e))
    <3>1. Stream(e) = s \o pipe[e] /\ s \in Seq(Unit) /\ pipe[e] \in Seq(Unit)
      BY <1>3, <2>2
    <3> QED  BY ZenonT(30), <3>1, BeginningOfStream
  <2> QED  BY <2>1, <2>2
<1>5. Stream(e)' = t \o <<>>
  BY <1>2 DEF Stream
<1> HIDE DEF s, t
<1>6. t \in Seq(Unit) /\ Stream(e)' = t
  <2>1. t \in Seq(Unit)
    BY <1>2, <1>3, EmptySeq
  <2> QED  BY <1>5, <2>1, ConcatEmptySeq
<1>7. Len(t) <= Len(Stream(e)) /\ \A k \in 1 .. Len(t) : Stream(e)[k] = t[k]
  <2>1. CASE t = s
    BY <1>4, <2>1
  <2>2. CASE t = <<>>
    BY <1>3, <2>2, EmptySeq
  <2> QED  BY <1>2, <2>1, <2>2
<1>8. Len(t) \in Nat /\ Len(Stream(e)) \in Nat
  BY <1>3, <1>6
<1>9. SentOK(e)'
  BY <1>2 DEF Direction, SentOK
<1>10. NextId(e)' = NextId(e)
  BY <1>2 DEF NextId
<1>11. OutputOK(e)'
  BY <1>2, <1>10 DEF Direction, OutputOK
<1>12. StreamOK(e)'
  <2>1. \A k \in 1 .. Len(t) : IsUnitOf(sent[e], t[k])
    BY <1>7, <1>8 DEF Direction, StreamOK
  <2>2. Chained(t)
    <3>1. SUFFICES ASSUME NEW k \in 1 .. Len(t) - 1 PROVE Follows(t[k], t[k + 1])
      BY DEF Chained
    <3>2. k \in 1 .. Len(Stream(e)) - 1 /\ k \in 1 .. Len(t) /\ k + 1 \in 1 .. Len(t)
      <4>1. Len(t) <= Len(Stream(e))
        BY <1>7
      <4> QED  BY <1>8, <4>1
    <3>3. Follows(Stream(e)[k], Stream(e)[k + 1])
      BY <3>2 DEF Direction, StreamOK, Chained
    <3>4. Stream(e)[k] = t[k] /\ Stream(e)[k + 1] = t[k + 1]
      BY <1>7, <3>2
    <3> QED  BY <3>3, <3>4
  <2>3. Begins(t, Len(delivered[Peer(e)]))
    <3>1. SUFFICES ASSUME t # <<>>
                   PROVE  t[1].id = Len(delivered[Peer(e)]) /\ t[1].part = 1
      BY DEF Begins
    <3>2. 1 \in 1 .. Len(t)
      BY <1>6, <1>8, <3>1, EmptySeq
    <3>3. Stream(e) # <<>> /\ Stream(e)[1] = t[1]
      BY <1>7, <1>8, <3>2, EmptySeq
    <3> QED  BY <3>3 DEF Direction, StreamOK, Begins
  <2> QED  BY <1>2, <1>6, <2>1, <2>2, <2>3 DEF StreamOK
<1>13. FdsOK(e)'
  BY <1>2 DEF FdsOK
<1> QED  BY <1>9, <1>11, <1>12, <1>13 DEF Direction

\* A write that waits for the descriptor pipe only says in the header that the
\* message has a descriptor.
LEMMA FdBlocksDirection ==
  ASSUME TypeOK, NEW e \in End, Direction(e), WriteFdBlocks(e)
  PROVE  Direction(e)'
<1> DEFINE m == [output[e][1] EXCEPT !.num_fds = TRUE]
<1>1. /\ output[e] \in Seq(Message) /\ output[e] # <<>> /\ output[e][1] \in Message
      /\ output[e][1].fd /\ Len(output[e]) \in Nat /\ Len(output[e]) >= 1
  <2>1. output[e] \in Seq(Message) /\ output[e] # <<>>
    BY DEF TypeOK, WriteFdBlocks
  <2>2. NeedsFd(e)
    BY DEF WriteFdBlocks
  <2>3. output[e][1] \in Message /\ output[e][1].fd
    BY <2>1, <2>2, CommittedMessage
  <2>4. Len(output[e]) \in Nat /\ Len(output[e]) >= 1
    BY <2>1, EmptySeq
  <2> QED  BY <2>1, <2>3, <2>4
<1>2. /\ m \in Message /\ m.id = output[e][1].id /\ m.size = output[e][1].size /\ m.fd
      /\ m.num_fds
  BY <1>1 DEF Message
<1>3. output'[e] = [output[e] EXCEPT ![1] = m]
  BY DEF TypeOK, WriteFdBlocks
<1> HIDE DEF m
<1>4. /\ Len(output'[e]) = Len(output[e]) /\ output'[e] # <<>>
      /\ \A i \in 1 .. Len(output[e]) : output'[e][i] = IF i = 1 THEN m ELSE output[e][i]
  <2>1. 1 \in 1 .. Len(output[e])
    BY <1>1
  <2>2. /\ Len([output[e] EXCEPT ![1] = m]) = Len(output[e])
        /\ \A i \in 1 .. Len(output[e]) :
             [output[e] EXCEPT ![1] = m][i] = IF i = 1 THEN m ELSE output[e][i]
    BY <1>1, <1>2, <2>1, ExceptSeq
  <2>3. output'[e] # <<>>
    BY <1>1, <1>3, <2>2, EmptySeq
  <2> QED  BY <1>3, <2>2, <2>3
<1>5. /\ UNCHANGED <<uses_fifo, sent, delivered, written, fds, input, pipe, open, listening>>
      /\ Stream(e)' = Stream(e) /\ Closed(e)' = Closed(e) /\ Closed(Peer(e))' = Closed(Peer(e))
  BY DEF WriteFdBlocks, handshakeVars, historyVars, Stream, Closed
<1>6. NextId(e)' = NextId(e)
  BY <1>4, <1>5 DEF NextId
<1>7. SentOK(e)'
  BY <1>5 DEF Direction, SentOK
<1>8. OutputOK(e)'
  <2>1. ASSUME NEW i \in 1 .. Len(output'[e])
        PROVE  /\ output'[e][i].id = NextId(e)' + i - 1
               /\ output'[e][i].size = sent'[e][output'[e][i].id + 1].size
               /\ (output'[e][i].fd \/ output'[e][i].num_fds) <=>
                    sent'[e][output'[e][i].id + 1].fd # 0
               /\ i > 1 /\ output'[e][i].num_fds => output'[e][i].fd
    <3>1. /\ output[e][i].id = NextId(e) + i - 1
          /\ output[e][i].size = sent[e][output[e][i].id + 1].size
          /\ (output[e][i].fd \/ output[e][i].num_fds) <=> sent[e][output[e][i].id + 1].fd # 0
          /\ i > 1 /\ output[e][i].num_fds => output[e][i].fd
      BY <1>4 DEF Direction, OutputOK
    <3>2. CASE i = 1
      BY <1>1, <1>2, <1>4, <1>5, <1>6, <3>1, <3>2
    <3>3. CASE i # 1
      BY <1>4, <1>5, <1>6, <3>1, <3>3
    <3> QED  BY <3>2, <3>3
  <2>2. Len(output'[e]) <= Len(sent'[e])
    BY <1>4, <1>5 DEF Direction, OutputOK
  <2>3. ~Closed(e)' => /\ written'[e] < output'[e][1].size
                       /\ written'[e] > 0 => ~output'[e][1].fd
    <3>1. 1 \in 1 .. Len(output[e])
      BY <1>1
    <3>2. output'[e][1] = m
      BY <1>4, <3>1
    <3> QED  BY <1>1, <1>2, <1>5, <3>2 DEF Direction, OutputOK
  <2> QED  BY <1>4, <2>1, <2>2, <2>3 DEF OutputOK
<1>9. StreamOK(e)'
  BY <1>5, <1>6 DEF Direction, StreamOK
<1>10. FdsOK(e)'
  <2>1. \A i \in 1 .. Len(output[e]) : output'[e][i].fd => output[e][i].fd
    BY <1>1, <1>4
  <2>2. \A i \in 1 .. Len(output[e]) : output'[e][i].id = output[e][i].id
    BY <1>2, <1>4
  <2>3. \A i \in 1 .. Len(output[e]) :
          output'[e][i].num_fds /\ ~output'[e][i].fd => output[e][i].num_fds /\ ~output[e][i].fd
    BY <1>2, <1>4
  <2> QED  BY <1>4, <1>5, <2>1, <2>2, <2>3 DEF Direction, FdsOK
<1> QED  BY <1>7, <1>8, <1>9, <1>10 DEF Direction

\* A read moves units from the pipe to the buffer.
LEMMA ReadDirection ==
  ASSUME TypeOK, NEW e \in End, Direction(e), ReadPipe(Peer(e))
  PROVE  Direction(e)'
<1>1. Peer(e) \in End /\ Peer(Peer(e)) = e /\ Peer(e) # e
  BY TwoEnds
<1>2. /\ input[Peer(e)] \in Seq(Unit) /\ pipe[e] \in Seq(Unit)
  BY StreamType
<1>3. PICK n \in 1 .. Len(pipe[e]) :
        /\ Readable(Peer(e)) = SubSeq(pipe[e], 1, n) /\ Readable(Peer(e)) \in Seq(Unit)
        /\ Len(Readable(Peer(e))) = n
        /\ SubSeq(pipe[e], n + 1, Len(pipe[e])) \in Seq(Unit)
  <2>1. MayRead(Peer(e))
    BY DEF ReadPipe
  <2> QED  BY <1>1, <2>1, ReadableUnits
<1>4. /\ input'[Peer(e)] = input[Peer(e)] \o SubSeq(pipe[e], 1, n)
      /\ pipe'[e] = SubSeq(pipe[e], n + 1, Len(pipe[e]))
  BY <1>1, <1>3 DEF TypeOK, ReadPipe
<1>5. SubSeq(pipe[e], 1, n) \o SubSeq(pipe[e], n + 1, Len(pipe[e])) = pipe[e]
  <2>1. /\ 1 \in 1 .. Len(pipe[e]) + 1 /\ n \in 1 - 1 .. Len(pipe[e])
        /\ Len(pipe[e]) \in n .. Len(pipe[e])
    <3>1. Len(pipe[e]) \in Nat /\ n \in 1 .. Len(pipe[e])
      BY <1>2
    <3> QED  BY <3>1
  <2>2. SubSeq(pipe[e], 1, n) \o SubSeq(pipe[e], n + 1, Len(pipe[e]))
          = SubSeq(pipe[e], 1, Len(pipe[e]))
    BY <1>2, <2>1, ConcatAdjacentSubSeq
  <2> QED  BY <1>2, <2>2, SubSeqFull
<1>6. /\ ~Closed(Peer(e))
      /\ UNCHANGED <<uses_fifo, open, listening, sent, delivered, written, output, fds>>
  BY DEF ReadPipe, MayRead, Closed, handshakeVars, historyVars
<1>7. Closed(e)' = Closed(e) /\ Closed(Peer(e))' = Closed(Peer(e))
  BY <1>6 DEF Closed
<1>8. Stream(e)' = input'[Peer(e)] \o pipe'[e] /\ Stream(e) = input[Peer(e)] \o pipe[e]
  BY <1>6, <1>7 DEF Stream
<1>9. Stream(e)' = Stream(e)
  <2> DEFINE a == input[Peer(e)]
             b == SubSeq(pipe[e], 1, n)
             c == SubSeq(pipe[e], n + 1, Len(pipe[e]))
  <2>1. a \in Seq(Unit) /\ b \in Seq(Unit) /\ c \in Seq(Unit)
    BY <1>2, <1>3
  <2> HIDE DEF a, b, c
  <2>2. (a \o b) \o c = a \o (b \o c)
    BY SMTT(30), <2>1, ConcatAssociative
  <2>3. Stream(e)' = (a \o b) \o c /\ Stream(e) = a \o (b \o c)
    BY <1>4, <1>5, <1>8 DEF a, b, c
  <2> QED  BY <2>2, <2>3
<1> QED  BY <1>6, <1>7, <1>9, DirectionKept

\* A write: the head of the queue, before and after.
LEMMA HeadOfQueue ==
  ASSUME TypeOK, NEW e \in End, Direction(e), output[e] # <<>>, ~Closed(e)
  PROVE  /\ Len(output[e]) >= 1 /\ output[e][1] \in Message
         /\ output[e][1].id = NextId(e) /\ NextId(e) \in Nat /\ NextId(e) + 1 \in 1 .. Len(sent[e])
         /\ output[e][1].size \in Nat /\ output[e][1].size = sent[e][NextId(e) + 1].size
         /\ written[e] < output[e][1].size
         /\ Committed(e).num_fds <=> sent[e][NextId(e) + 1].fd # 0
         /\ Committed(e).num_fds /\ ~NeedsFd(e) => output[e][1].num_fds /\ ~output[e][1].fd
         /\ NeedsFd(e) => output[e][1].fd /\ sent[e][NextId(e) + 1].fd # 0
<1>1. /\ output[e] \in Seq(Message) /\ Len(output[e]) \in Nat /\ Len(sent[e]) \in Nat
      /\ written[e] \in Nat
  BY StreamType
<1>2. Len(output[e]) >= 1 /\ 1 \in 1 .. Len(output[e])
  BY <1>1, EmptySeq
<1>3. Len(output[e]) <= Len(sent[e]) /\ output[e][1].id = NextId(e) + 1 - 1
  BY <1>2 DEF Direction, OutputOK
<1>4. NextId(e) \in Nat /\ NextId(e) + 1 \in 1 .. Len(sent[e]) /\ NextId(e) + 1 - 1 = NextId(e)
  <2> DEFINE m == Len(output[e])
             n == Len(sent[e])
  <2>1. m \in Nat /\ n \in Nat /\ m >= 1 /\ m <= n /\ NextId(e) = n - m
    BY <1>1, <1>2, <1>3 DEF NextId
  <2> HIDE DEF m, n
  <2>2. n - m \in Nat /\ n - m + 1 \in 1 .. n /\ n - m + 1 - 1 = n - m
    BY <2>1
  <2> QED  BY <2>1, <2>2 DEF n
<1>5. output[e][1].id = NextId(e) /\ output[e][1] \in Message
  BY <1>3, <1>4, CommittedMessage
<1>6. output[e][1].size \in Nat
  BY <1>5, Sizes DEF Message
<1>7. /\ output[e][1].size = sent[e][NextId(e) + 1].size
      /\ (output[e][1].fd \/ output[e][1].num_fds) <=> sent[e][NextId(e) + 1].fd # 0
  BY <1>2, <1>5 DEF Direction, OutputOK
<1>8. written[e] < output[e][1].size /\ (written[e] > 0 => ~output[e][1].fd)
  BY DEF Direction, OutputOK
<1>9. /\ Committed(e).num_fds <=> (output[e][1].num_fds \/ NeedsFd(e))
      /\ NeedsFd(e) <=> (written[e] = 0 /\ output[e][1].fd)
  BY CommittedMessage
<1>10. NeedsFd(e) <=> output[e][1].fd
  BY <1>1, <1>8, <1>9
<1>11. NeedsFd(e) => sent[e][NextId(e) + 1].fd # 0
  BY <1>7, <1>10
<1> QED  BY <1>2, <1>4, <1>5, <1>6, <1>7, <1>8, <1>9, <1>10, <1>11

LEMMA QueueAfterWrite ==
  ASSUME TypeOK, NEW e \in End, output[e] # <<>>, WriteMessage(e)
  PROVE  \/ /\ Len(Writable(e)) = Len(Unwritten(e)) /\ written'[e] = 0
            /\ output'[e] \in Seq(Message) /\ Len(output'[e]) = Len(output[e]) - 1
            /\ \A i \in 1 .. Len(output'[e]) : output'[e][i] = output[e][i + 1]
         \/ /\ Len(Writable(e)) # Len(Unwritten(e)) /\ written'[e] = written[e] + Len(Writable(e))
            /\ output'[e] \in Seq(Message) /\ Len(output'[e]) = Len(output[e])
            /\ output'[e][1] = Committed(e)
            /\ \A i \in 1 .. Len(output'[e]) : i # 1 => output'[e][i] = output[e][i]
<1>1. /\ output[e] \in Seq(Message) /\ Len(output[e]) \in Nat
      /\ written'[e] = WrittenAfter(e)
  BY DEF TypeOK, WriteMessage
<1>2. /\ Tail(output[e]) \in Seq(Message) /\ Len(Tail(output[e])) = Len(output[e]) - 1
      /\ \A i \in 1 .. Len(Tail(output[e])) : Tail(output[e])[i] = output[e][i + 1]
  BY <1>1, HeadTailProperties
<1>3. CASE Len(Writable(e)) = Len(Unwritten(e))
  <2>1. output'[e] = Tail(output[e])
    BY <1>3 DEF TypeOK, WriteMessage
  <2>2. written'[e] = 0
    BY <1>1, <1>3 DEF WrittenAfter
  <2> QED  BY <1>2, <1>3, <2>1, <2>2
<1>4. CASE Len(Writable(e)) # Len(Unwritten(e))
  <2> DEFINE t == Tail(output[e])
             c == <<Committed(e)>>
  <2>1. output'[e] = c \o t
    BY <1>4 DEF TypeOK, WriteMessage
  <2>2. written'[e] = written[e] + Len(Writable(e))
    BY <1>1, <1>4 DEF WrittenAfter
  <2>3. c \in Seq(Message) /\ Len(c) = 1 /\ c[1] = Committed(e)
    <3> DEFINE m == Committed(e)
    <3>1. m \in Message
      BY CommittedMessage
    <3> HIDE DEF m
    <3>2. <<m>> \in Seq(Message) /\ Len(<<m>>) = 1 /\ <<m>>[1] = m
      BY <3>1
    <3> QED  BY <3>2 DEF m
  <2>4. t \in Seq(Message) /\ Len(t) = Len(output[e]) - 1
    BY <1>2
  <2>9. Len(output[e]) >= 1
    BY <1>1, EmptySeq
  <2> HIDE DEF c, t
  <2>5. /\ c \o t \in Seq(Message) /\ Len(c \o t) = Len(c) + Len(t)
        /\ \A i \in 1 .. Len(c) + Len(t) : (c \o t)[i] = IF i <= Len(c) THEN c[i] ELSE t[i - Len(c)]
    BY <2>3, <2>4, ConcatProperties
  <2>6. Len(c \o t) = Len(output[e])
    BY <1>1, <2>3, <2>4, <2>5
  <2>7. (c \o t)[1] = Committed(e)
    BY <1>1, <2>3, <2>4, <2>5, <2>9
  <2>8. ASSUME NEW i \in 1 .. Len(output[e]), i # 1
        PROVE  (c \o t)[i] = output[e][i]
    <3>1. /\ i \in 1 .. Len(c) + Len(t) /\ ~(i <= Len(c)) /\ i - Len(c) = i - 1
          /\ i - 1 \in 1 .. Len(t) /\ (i - 1) + 1 = i
      BY <1>1, <2>3, <2>4, <2>8, <2>9
    <3>2. t[i - 1] = output[e][(i - 1) + 1]
      BY <1>2, <3>1 DEF t
    <3> QED  BY <2>5, <3>1, <3>2
  <2> QED  BY <1>4, <2>1, <2>2, <2>5, <2>6, <2>7, <2>8
<1> QED  BY <1>3, <1>4

LEMMA WriteOutput ==
  ASSUME TypeOK, NEW e \in End, Direction(e), ~Closed(e), WriteMessage(e)
  PROVE  /\ OutputOK(e)'
         /\ NextId(e)' = IF Len(Writable(e)) = Len(Unwritten(e)) THEN NextId(e) + 1 ELSE NextId(e)
<1>1. /\ output[e] # <<>> /\ Len(output[e]) \in Nat /\ Len(sent[e]) \in Nat /\ sent'[e] = sent[e]
      /\ written[e] \in Nat
  BY StreamType DEF WriteMessage, historyVars
<1>2. /\ Len(output[e]) >= 1 /\ output[e][1].id = NextId(e) /\ NextId(e) \in Nat
      /\ output[e][1].size = sent[e][NextId(e) + 1].size
      /\ Committed(e).num_fds <=> sent[e][NextId(e) + 1].fd # 0
  BY <1>1, HeadOfQueue
<1>3. /\ Committed(e).id = NextId(e) /\ Committed(e).size = sent[e][NextId(e) + 1].size
      /\ Committed(e).fd = FALSE /\ Committed(e).size = output[e][1].size
  BY <1>1, <1>2, CommittedMessage
<1>4. /\ Len(output[e]) <= Len(sent[e])
      /\ \A i \in 1 .. Len(output[e]) :
           /\ output[e][i].id = NextId(e) + i - 1
           /\ output[e][i].size = sent[e][output[e][i].id + 1].size
           /\ (output[e][i].fd \/ output[e][i].num_fds) <=> sent[e][output[e][i].id + 1].fd # 0
           /\ i > 1 /\ output[e][i].num_fds => output[e][i].fd
  BY DEF Direction, OutputOK
<1>5. CASE Len(Writable(e)) = Len(Unwritten(e))
  <2>1. /\ written'[e] = 0 /\ output'[e] \in Seq(Message) /\ Len(output'[e]) = Len(output[e]) - 1
        /\ \A i \in 1 .. Len(output'[e]) : output'[e][i] = output[e][i + 1]
    BY <1>1, <1>5, QueueAfterWrite
  <2>2. NextId(e)' = NextId(e) + 1
    BY <1>1, <2>1 DEF NextId
  <2>3. ASSUME NEW i \in 1 .. Len(output'[e])
        PROVE  /\ output'[e][i].id = NextId(e)' + i - 1
               /\ output'[e][i].size = sent'[e][output'[e][i].id + 1].size
               /\ (output'[e][i].fd \/ output'[e][i].num_fds) <=>
                    sent'[e][output'[e][i].id + 1].fd # 0
               /\ output'[e][i].num_fds => output'[e][i].fd
    <3>1. i + 1 \in 1 .. Len(output[e]) /\ i + 1 > 1 /\ output'[e][i] = output[e][i + 1]
      BY <1>1, <2>1
    <3>2. NextId(e) + (i + 1) - 1 = NextId(e)' + i - 1
      BY <1>2, <2>2
    <3> QED  BY <1>1, <1>4, <3>1, <3>2
  <2>4. output'[e] # <<>> => written'[e] < output'[e][1].size
    <3>1. SUFFICES ASSUME output'[e] # <<>> PROVE written'[e] < output'[e][1].size
      OBVIOUS
    <3>2. 1 \in 1 .. Len(output'[e])
      BY <2>1, <3>1, EmptySeq
    <3>3. output'[e][1] \in Message
      BY <2>1, <3>2, ElementOfSeq
    <3>4. output'[e][1].size \in Nat /\ output'[e][1].size >= 1
      BY <3>3, Sizes DEF Message
    <3> QED  BY <2>1, <3>4
  <2>5. Len(output'[e]) <= Len(sent'[e])
    BY <1>1, <1>4, <2>1
  <2>6. OutputOK(e)'
    BY <2>1, <2>3, <2>4, <2>5 DEF OutputOK
  <2> QED  BY <1>5, <2>2, <2>6
<1>6. CASE Len(Writable(e)) # Len(Unwritten(e))
  <2>1. /\ written'[e] = written[e] + Len(Writable(e)) /\ Len(output'[e]) = Len(output[e])
        /\ output'[e] \in Seq(Message) /\ output'[e][1] = Committed(e)
        /\ \A i \in 1 .. Len(output'[e]) : i # 1 => output'[e][i] = output[e][i]
    BY <1>1, <1>6, QueueAfterWrite
  <2>2. NextId(e)' = NextId(e)
    BY <1>1, <2>1 DEF NextId
  <2>3. ASSUME NEW i \in 1 .. Len(output'[e])
        PROVE  /\ output'[e][i].id = NextId(e)' + i - 1
               /\ output'[e][i].size = sent'[e][output'[e][i].id + 1].size
               /\ (output'[e][i].fd \/ output'[e][i].num_fds) <=>
                    sent'[e][output'[e][i].id + 1].fd # 0
               /\ i > 1 /\ output'[e][i].num_fds => output'[e][i].fd
    <3>1. CASE i = 1
      <4>1. output'[e][i] = Committed(e) /\ NextId(e)' + i - 1 = NextId(e)
        BY <1>2, <2>1, <2>2, <3>1
      <4> QED  BY <1>1, <1>2, <1>3, <3>1, <4>1
    <3>2. CASE i # 1
      <4>1. output'[e][i] = output[e][i] /\ i \in 1 .. Len(output[e])
        BY <2>1, <3>2
      <4> QED  BY <1>1, <1>4, <2>2, <4>1
    <3> QED  BY <3>1, <3>2
  <2>4. written'[e] < output'[e][1].size /\ ~output'[e][1].fd
    <3>1. /\ Len(Writable(e)) \in Nat /\ Len(Writable(e)) <= Len(Unwritten(e))
          /\ Len(Unwritten(e)) = IF written[e] < output[e][1].size
                                 THEN output[e][1].size - written[e] ELSE 0
      BY <1>1, WritableUnits, UnwrittenUnits
    <3>2. written[e] < output[e][1].size /\ output[e][1].size \in Nat
      BY <1>1, HeadOfQueue
    <3> QED  BY <1>1, <1>3, <1>6, <2>1, <3>1, <3>2
  <2>5. Len(output'[e]) <= Len(sent'[e]) /\ output'[e] # <<>>
    BY <1>1, <1>2, <1>4, <2>1, EmptySeq
  <2>6. OutputOK(e)'
    BY <2>3, <2>4, <2>5 DEF OutputOK
  <2> QED  BY <1>6, <2>2, <2>6
<1> QED  BY <1>5, <1>6

\* The units written are the next ones of the stream.
LEMMA WriteStream ==
  ASSUME TypeOK, NEW e \in End, Direction(e), WriteMessage(e), ~Closed(Peer(e))
  PROVE  Stream(e)' = Stream(e) \o Writable(e) /\ StreamOK(e)'
<1> DEFINE s == Stream(e)
           w == Writable(e)
           id == NextId(e)
           size == output[e][1].size
           first == Len(delivered[Peer(e)])
<1>1. /\ output[e] # <<>> /\ ~Closed(e)
      /\ UNCHANGED <<uses_fifo, open, listening, sent, delivered, input>>
  BY DEF WriteMessage, Closed, handshakeVars, historyVars
<1>2. Closed(e)' = Closed(e) /\ Closed(Peer(e))' = Closed(Peer(e))
  BY <1>1 DEF Closed
<1>3. /\ s \in Seq(Unit) /\ s = input[Peer(e)] \o pipe[e] /\ first \in Nat /\ written[e] \in Nat
      /\ input[Peer(e)] \in Seq(Unit) /\ pipe[e] \in Seq(Unit) /\ Len(sent[e]) \in Nat
  BY StreamType
<1>4. /\ w \in Seq(Unit) /\ Len(w) <= Len(Unwritten(e)) /\ Len(Unwritten(e)) = size - written[e]
      /\ Len(w) \in Nat
      /\ \A k \in 1 .. Len(w) : w[k] =
           [id |-> output[e][1].id, part |-> written[e] + k, size |-> size,
            num_fds |-> Committed(e).num_fds]
  BY <1>1, WritableUnits, UnwrittenUnits, HeadOfQueue
<1>5. /\ output[e][1].id = id /\ id \in Nat /\ id + 1 \in 1 .. Len(sent[e]) /\ size \in Nat
      /\ size = sent[e][id + 1].size /\ written[e] < size
      /\ Committed(e).num_fds <=> sent[e][id + 1].fd # 0
  BY <1>1, HeadOfQueue
<1>6. Stream(e)' = s \o w
  <2>1. pipe'[e] = pipe[e] \o w
    BY DEF TypeOK, WriteMessage
  <2>2. Stream(e)' = input[Peer(e)] \o (pipe[e] \o w)
    BY <1>1, <1>2, <2>1 DEF Stream
  <2>3. (input[Peer(e)] \o pipe[e]) \o w = input[Peer(e)] \o (pipe[e] \o w)
    <3> DEFINE a == input[Peer(e)]
               b == pipe[e]
    <3>1. a \in Seq(Unit) /\ b \in Seq(Unit) /\ w \in Seq(Unit)
      BY <1>3, <1>4
    <3> HIDE DEF a, b, w
    <3>2. (a \o b) \o w = a \o (b \o w)
      BY <3>1, ConcatAssociative
    <3> QED  BY <3>2 DEF a, b
  <2> QED  BY <1>3, <2>2, <2>3
<1>7. /\ NextId(e)' = IF Len(w) = Len(Unwritten(e)) THEN id + 1 ELSE id
      /\ written'[e] = IF Len(w) = Len(Unwritten(e)) THEN 0 ELSE written[e] + Len(w)
  BY <1>1, WriteOutput, QueueAfterWrite
<1>8. /\ Chained(s) /\ Begins(s, first) /\ Ends(s, first, [id |-> id, part |-> written[e] + 1])
      /\ \A k \in 1 .. Len(s) : IsUnitOf(sent[e], s[k])
  BY <1>1 DEF Direction, StreamOK
<1>15. s \in Seq(Unit) /\ w \in Seq(Unit) /\ first \in Nat /\ written[e] \in Nat
  BY <1>3, <1>4
<1> HIDE DEF s, w, id, size, first
<1>9. ASSUME NEW k \in 1 .. Len(w)
      PROVE  /\ w[k].id = id /\ w[k].part = written[e] + k /\ w[k].size = size
             /\ w[k].num_fds = Committed(e).num_fds
  <2>1. w[k] = [id |-> output[e][1].id, part |-> written[e] + k, size |-> size,
                num_fds |-> Committed(e).num_fds]
    BY <1>4
  <2>2. output[e][1].id = id
    BY <1>5
  <2> QED  BY <2>1, <2>2
<1>10. written[e] + Len(w) <= size
  BY <1>3, <1>4, <1>5
<1>11. /\ Chained(s \o w) /\ Begins(s \o w, first)
       /\ Ends(s \o w, first, IF written[e] + Len(w) = size THEN [id |-> id + 1, part |-> 1]
                              ELSE [id |-> id, part |-> written[e] + Len(w) + 1])
  <2>1. \A k \in 1 .. Len(w) : w[k].id = id /\ w[k].part = written[e] + k /\ w[k].size = size
    BY <1>9
  <2>2. Chained(s) /\ Begins(s, first) /\ Ends(s, first, [id |-> id, part |-> written[e] + 1])
    BY <1>8
  <2>3. id \in Nat /\ size \in Nat /\ written[e] < size
    BY <1>5
  <2> QED  BY SMTT(30), <1>10, <1>15, <2>1, <2>2, <2>3, LongerStream
<1>12. Ends(s \o w, first, [id |-> NextId(e)', part |-> written'[e] + 1])
  <2>1. CASE Len(w) = Len(Unwritten(e))
    <3>1. written[e] + Len(w) = size
      BY <1>3, <1>4, <1>5, <2>1
    <3> QED  BY <1>7, <1>11, <2>1, <3>1
  <2>2. CASE Len(w) # Len(Unwritten(e))
    <3>1. written[e] + Len(w) # size
      BY <1>3, <1>4, <1>5, <2>2
    <3> QED  BY <1>7, <1>11, <2>2, <3>1
  <2> QED  BY <2>1, <2>2
<1>13. ASSUME NEW k \in 1 .. Len(s \o w)
       PROVE  IsUnitOf(sent[e], (s \o w)[k])
  <2>1. /\ Len(s \o w) = Len(s) + Len(w) /\ Len(s) \in Nat
        /\ (s \o w)[k] = IF k <= Len(s) THEN s[k] ELSE w[k - Len(s)]
    BY <1>15, ConcatProperties, LenProperties
  <2>2. CASE k <= Len(s)
    <3>1. k \in 1 .. Len(s) /\ (s \o w)[k] = s[k]
      BY <2>1, <2>2
    <3> QED  BY <1>8, <3>1
  <2>3. CASE ~(k <= Len(s))
    <3>1. k - Len(s) \in 1 .. Len(w) /\ (s \o w)[k] = w[k - Len(s)]
      BY <1>4, <2>1, <2>3
    <3> DEFINE j == k - Len(s)
    <3> HIDE DEF j
    <3>2. IsUnitOf(sent[e], w[j])
      <4>1. /\ j \in 1 .. Len(w) /\ w[j].id = id /\ w[j].part = written[e] + j
            /\ w[j].size = size /\ w[j].num_fds = Committed(e).num_fds
        BY <1>9, <3>1 DEF j
      <4>2. written[e] + j <= size /\ id < Len(sent[e])
        BY SMTT(30), <1>3, <1>4, <1>5, <1>10, <4>1
      <4> QED  BY <1>5, <4>1, <4>2 DEF IsUnitOf
    <3> QED  BY <3>1, <3>2 DEF j
  <2> QED  BY <2>2, <2>3
<1>14. StreamOK(e)'
  BY <1>1, <1>6, <1>11, <1>12, <1>13 DEF StreamOK, first
<1> QED  BY <1>6, <1>14 DEF s, w

\* The queue after a write: only messages after the first still have their
\* descriptors, and only one partly written has sent it.
LEMMA QueuedDescriptors ==
  ASSUME TypeOK, NEW e \in End, Direction(e), WriteMessage(e), NEW i \in 1 .. Len(output'[e])
  PROVE  /\ output'[e][i].fd => /\ output'[e][i].id > NextId(e)
                                /\ \E h \in 1 .. Len(output[e]) : output[e][h] = output'[e][i]
         /\ output'[e][i].num_fds /\ ~output'[e][i].fd =>
              output'[e][i].id = NextId(e) /\ Committed(e).num_fds
<1>1. output[e] # <<>> /\ ~Closed(e)
  BY DEF WriteMessage, Closed
<1>2. Len(output[e]) \in Nat /\ NextId(e) \in Nat /\ output[e][1].id = NextId(e)
  BY <1>1, StreamType, HeadOfQueue
<1>3. \A h \in 1 .. Len(output[e]) :
        /\ output[e][h].id = NextId(e) + h - 1
        /\ h > 1 /\ output[e][h].num_fds => output[e][h].fd
  BY DEF Direction, OutputOK
<1>4. ASSUME NEW h \in 1 .. Len(output[e]), h > 1, output'[e][i] = output[e][h]
      PROVE  /\ output'[e][i].fd => /\ output'[e][i].id > NextId(e)
                                    /\ \E g \in 1 .. Len(output[e]) : output[e][g] = output'[e][i]
             /\ ~(output'[e][i].num_fds /\ ~output'[e][i].fd)
  <2>1. output[e][h].id > NextId(e)
    <3>1. output[e][h].id = NextId(e) + h - 1
      BY <1>3
    <3> QED  BY <1>2, <1>4, <3>1
  <2> QED  BY <1>3, <1>4, <2>1
<1>5. CASE Len(Writable(e)) = Len(Unwritten(e))
  <2>1. i + 1 \in 1 .. Len(output[e]) /\ i + 1 > 1 /\ output'[e][i] = output[e][i + 1]
    BY <1>1, <1>2, <1>5, QueueAfterWrite
  <2> QED  BY <1>4, <2>1
<1>6. CASE Len(Writable(e)) # Len(Unwritten(e)) /\ i # 1
  <2>1. i \in 1 .. Len(output[e]) /\ i > 1 /\ output'[e][i] = output[e][i]
    BY <1>1, <1>2, <1>6, QueueAfterWrite
  <2> QED  BY <1>4, <2>1
<1>7. CASE Len(Writable(e)) # Len(Unwritten(e)) /\ i = 1
  <2>1. output'[e][i] = Committed(e)
    BY <1>1, <1>7, QueueAfterWrite
  <2>2. Committed(e).fd = FALSE /\ Committed(e).id = NextId(e)
    BY <1>1, <1>2, CommittedMessage
  <2> QED  BY <2>1, <2>2
<1> QED  BY <1>5, <1>6, <1>7

\* What comes after a stream is of the message it begins with, or a later one.
LEMMA NextAfterFirst ==
  ASSUME NEW s \in Seq(Unit), NEW first \in Nat, NEW id \in Nat, NEW part,
         Chained(s), Begins(s, first), Ends(s, first, [id |-> id, part |-> part])
  PROVE  id >= first
<1>1. CASE s = <<>>
  BY <1>1 DEF Ends
<1>2. CASE s # <<>>
  <2>1. Len(s) \in 1 .. Len(s)
    BY <1>2, EmptySeq
  <2>2. s[Len(s)].id >= first /\ s[Len(s)].id \in Nat
    BY <2>1, IdsGrow, ElementOfSeq, UnitTypes
  <2>3. Follows(s[Len(s)], [id |-> id, part |-> part])
    BY <1>2 DEF Ends
  <2>4. id = s[Len(s)].id \/ id = s[Len(s)].id + 1
    BY <2>3 DEF Follows
  <2> QED  BY <2>2, <2>4
<1> QED  BY <1>1, <1>2

LEMMA WriteFds ==
  ASSUME TypeOK, NEW e \in End, Direction(e), WriteMessage(e), ~Closed(Peer(e))
  PROVE  FdsOK(e)'
<1> DEFINE f == fds[e]
           g == fds'[e]
           id == NextId(e)
           first == Len(delivered[Peer(e)])
<1>1. /\ output[e] # <<>> /\ ~Closed(e)
      /\ UNCHANGED <<uses_fifo, open, listening, sent, delivered, input>>
  BY DEF WriteMessage, Closed, handshakeVars, historyVars
<1>2. Closed(e)' = Closed(e) /\ Closed(Peer(e))' = Closed(Peer(e))
  BY <1>1 DEF Closed
<1>3. /\ Stream(e) \in Seq(Unit) /\ first \in Nat /\ written[e] \in Nat /\ Len(sent[e]) \in Nat
      /\ f \in Seq(Nat) /\ Len(f) \in Nat /\ Len(output[e]) \in Nat
  BY StreamType
<1>4. /\ output[e][1].id = id /\ id \in Nat /\ id + 1 \in 1 .. Len(sent[e])
      /\ Committed(e).num_fds /\ ~NeedsFd(e) => output[e][1].num_fds /\ ~output[e][1].fd
      /\ NeedsFd(e) => output[e][1].fd /\ sent[e][id + 1].fd # 0
      /\ output[e][1] = Head(output[e]) /\ 1 \in 1 .. Len(output[e])
  BY <1>1, <1>3, HeadOfQueue, CommittedMessage
<1>5. g = IF NeedsFd(e) THEN Append(f, id) ELSE f
  BY <1>4 DEF TypeOK, WriteMessage
<1>6. id >= first
  <2>1. /\ Chained(Stream(e)) /\ Begins(Stream(e), first)
        /\ Ends(Stream(e), first, [id |-> id, part |-> written[e] + 1])
    BY <1>1 DEF Direction, StreamOK
  <2> QED  BY <1>3, <1>4, <2>1, NextAfterFirst
<1>7. /\ \A j \in 1 .. Len(f) :
           /\ f[j] >= first /\ f[j] < Len(sent[e]) /\ sent[e][f[j] + 1].fd # 0
           /\ \A i \in 1 .. j - 1 : f[i] < f[j]
           /\ \A i \in 1 .. Len(output[e]) : output[e][i].fd => f[j] < output[e][i].id
      /\ \A k \in 1 .. Len(Stream(e)) :
           Stream(e)[k].num_fds => \E j \in 1 .. Len(f) : f[j] = Stream(e)[k].id
      /\ \A i \in 1 .. Len(output[e]) :
           output[e][i].num_fds /\ ~output[e][i].fd => \E j \in 1 .. Len(f) : f[j] = output[e][i].id
  BY <1>1 DEF Direction, FdsOK
<1> HIDE DEF f, g, id, first
<1>8. /\ Len(g) = IF NeedsFd(e) THEN Len(f) + 1 ELSE Len(f)
      /\ \A j \in 1 .. Len(f) : g[j] = f[j]
      /\ NeedsFd(e) => g[Len(f) + 1] = id
  <2>1. CASE NeedsFd(e)
    <3>1. /\ Len(Append(f, id)) = Len(f) + 1
          /\ \A j \in 1 .. Len(f) : Append(f, id)[j] = f[j]
          /\ Append(f, id)[Len(f) + 1] = id
      <4>1. f \in Seq(Nat) /\ id \in Nat
        BY <1>3, <1>4
      <4> QED  BY <4>1, AppendProperties
    <3> QED  BY <1>5, <2>1, <3>1
  <2>2. CASE ~NeedsFd(e)
    BY <1>5, <2>2
  <2> QED  BY <2>1, <2>2
<1>9. \A j \in 1 .. Len(f) : j \in 1 .. Len(g)
  BY <1>3, <1>8
<1>10. Committed(e).num_fds => \E j \in 1 .. Len(g) : g[j] = id
  <2>1. CASE NeedsFd(e)
    <3>1. Len(f) + 1 \in 1 .. Len(g) /\ g[Len(f) + 1] = id
      BY <1>3, <1>8, <2>1
    <3> QED  BY <3>1
  <2>2. CASE ~NeedsFd(e) /\ Committed(e).num_fds
    <3>1. PICK j \in 1 .. Len(f) : f[j] = id
      BY <1>4, <1>7, <2>2
    <3> QED  BY <1>8, <1>9, <3>1
  <2> QED  BY <2>1, <2>2
<1>11. ASSUME NEW j \in 1 .. Len(g)
       PROVE  /\ g[j] >= first /\ g[j] < Len(sent[e]) /\ sent[e][g[j] + 1].fd # 0
              /\ \A i \in 1 .. j - 1 : g[i] < g[j]
              /\ \A i \in 1 .. Len(output'[e]) : output'[e][i].fd => g[j] < output'[e][i].id
  <2>1. CASE j \in 1 .. Len(f)
    <3>1. g[j] = f[j] /\ \A i \in 1 .. j - 1 : g[i] = f[i]
      <4>1. \A i \in 1 .. j - 1 : i \in 1 .. Len(f)
        BY <1>3, <2>1
      <4> QED  BY <1>8, <2>1, <4>1
    <3>2. ASSUME NEW i \in 1 .. Len(output'[e]), output'[e][i].fd
          PROVE  f[j] < output'[e][i].id
      <4>1. PICK h \in 1 .. Len(output[e]) : output[e][h] = output'[e][i]
        BY <3>2, QueuedDescriptors
      <4> QED  BY <1>7, <2>1, <3>2, <4>1
    <3> QED  BY <1>7, <2>1, <3>1, <3>2
  <2>2. CASE j = Len(f) + 1 /\ NeedsFd(e)
    <3>1. g[j] = id /\ id < Len(sent[e]) /\ sent[e][id + 1].fd # 0
      BY <1>3, <1>4, <1>8, <2>2
    <3>2. ASSUME NEW i \in 1 .. j - 1
          PROVE  g[i] < id
      <4>1. i \in 1 .. Len(f)
        BY <1>3, <2>2
      <4> QED  BY <1>4, <1>7, <1>8, <2>2, <4>1
    <3>3. ASSUME NEW i \in 1 .. Len(output'[e]), output'[e][i].fd
          PROVE  id < output'[e][i].id
      <4>1. output'[e][i].id > NextId(e)
        BY <3>3, QueuedDescriptors
      <4> QED  BY <1>4, <4>1 DEF id
    <3> QED  BY <1>6, <3>1, <3>2, <3>3
  <2> QED  BY <1>3, <1>8, <2>1, <2>2
<1>12. ASSUME NEW k \in 1 .. Len(Stream(e)'), Stream(e)'[k].num_fds
       PROVE  \E j \in 1 .. Len(g) : g[j] = Stream(e)'[k].id
  <2> DEFINE s == Stream(e)
             w == Writable(e)
             t == Stream(e)'
  <2>1. s \in Seq(Unit) /\ w \in Seq(Unit) /\ t = s \o w /\ k \in 1 .. Len(t) /\ t[k].num_fds
    BY <1>1, <1>3, <1>12, WritableUnits, WriteStream
  <2>2. \A h \in 1 .. Len(w) : w[h].id = id /\ w[h].num_fds = Committed(e).num_fds
    <3>1. ASSUME NEW h \in 1 .. Len(w)
          PROVE  w[h].id = id /\ w[h].num_fds = Committed(e).num_fds
      <4>1. w[h] = [id |-> output[e][1].id, part |-> written[e] + h, size |-> output[e][1].size,
                    num_fds |-> Committed(e).num_fds]
        BY <1>1, WritableUnits
      <4> QED  BY <1>4, <4>1
    <3> QED  BY <3>1
  <2>3. \A h \in 1 .. Len(s) : s[h].num_fds => \E j \in 1 .. Len(f) : f[j] = s[h].id
    BY <1>7
  <2> HIDE DEF s, w, t
  <2>4. /\ Len(t) = Len(s) + Len(w) /\ Len(s) \in Nat /\ Len(w) \in Nat
        /\ t[k] = IF k <= Len(s) THEN s[k] ELSE w[k - Len(s)]
    BY <2>1, ConcatProperties, LenProperties
  <2>5. CASE k <= Len(s)
    <3>1. k \in 1 .. Len(s) /\ t[k] = s[k]
      BY <2>1, <2>4, <2>5
    <3>2. PICK j \in 1 .. Len(f) : f[j] = s[k].id
      BY <2>1, <2>3, <3>1
    <3>3. j \in 1 .. Len(g) /\ g[j] = t[k].id
      BY <1>8, <1>9, <3>1, <3>2
    <3> QED  BY <3>3 DEF t
  <2>6. CASE ~(k <= Len(s))
    <3>1. k - Len(s) \in 1 .. Len(w) /\ t[k] = w[k - Len(s)]
      BY <2>1, <2>4, <2>6
    <3>2. t[k].id = id /\ Committed(e).num_fds
      BY <2>1, <2>2, <3>1
    <3> QED  BY <1>10, <3>2 DEF t
  <2> QED  BY <2>5, <2>6
<1>13. ASSUME NEW i \in 1 .. Len(output'[e]), output'[e][i].num_fds, ~output'[e][i].fd
       PROVE  \E j \in 1 .. Len(g) : g[j] = output'[e][i].id
  BY <1>10, <1>13, QueuedDescriptors DEF id
<1> QED  BY <1>1, <1>11, <1>12, <1>13 DEF FdsOK, g, first

LEMMA WriteDirection ==
  ASSUME TypeOK, NEW e \in End, Direction(e), WriteMessage(e)
  PROVE  Direction(e)'
<1>1. /\ ~Closed(e) /\ output[e] # <<>>
      /\ UNCHANGED <<uses_fifo, open, listening, sent, delivered, input>>
  BY DEF WriteMessage, Closed, handshakeVars, historyVars
<1>2. Closed(Peer(e))' = Closed(Peer(e))
  BY <1>1 DEF Closed
<1>3. SentOK(e)'
  BY <1>1 DEF Direction, SentOK
<1>4. OutputOK(e)'
  BY <1>1, WriteOutput
<1>5. CASE ~Closed(Peer(e))
  BY <1>3, <1>4, <1>5, WriteStream, WriteFds DEF Direction
<1>6. CASE Closed(Peer(e))
  <2>1. Stream(e)' = Stream(e)
    BY <1>1, <1>2, <1>6 DEF Stream
  <2>2. StreamOK(e)'
    BY <1>1, <1>2, <1>6, <2>1 DEF Direction, StreamOK
  <2>3. FdsOK(e)'
    BY <1>2, <1>6 DEF FdsOK
  <2> QED  BY <1>3, <1>4, <2>2, <2>3 DEF Direction
<1> QED  BY <1>5, <1>6

\* What is left of a stream when units are taken from the part that was read.
LEMMA DropBeginning ==
  ASSUME NEW a \in Seq(Unit), NEW b \in Seq(Unit), NEW n \in Nat, n <= Len(a)
  PROVE  LET t == SubSeq(a, n + 1, Len(a)) \o b IN
           /\ t \in Seq(Unit) /\ SubSeq(a, n + 1, Len(a)) \in Seq(Unit)
           /\ Len(t) = Len(a \o b) - n
           /\ \A k \in 1 .. Len(t) : t[k] = (a \o b)[k + n]
<1> DEFINE c == SubSeq(a, n + 1, Len(a))
<1>1. Len(a) \in Nat /\ Len(b) \in Nat
  OBVIOUS
<1>2. /\ c \in Seq(Unit)
      /\ Len(c) = IF n + 1 <= Len(a) THEN Len(a) - (n + 1) + 1 ELSE 0
      /\ \A i \in 1 .. Len(a) - (n + 1) + 1 : c[i] = a[n + 1 + i - 1]
  <2>1. \A i \in n + 1 .. Len(a) : a[i] \in Unit
    BY <1>1, ElementOfSeq
  <2>2. n + 1 \in Int /\ Len(a) \in Int
    BY <1>1
  <2> QED  BY <2>1, <2>2, SubSeqProperties
<1>3. Len(c) = Len(a) - n /\ Len(c) \in Nat
  BY <1>1, <1>2
<1>4. \A i \in 1 .. Len(c) : c[i] = a[i + n] /\ i + n \in 1 .. Len(a)
  <2>1. ASSUME NEW i \in 1 .. Len(c)
        PROVE  c[i] = a[i + n] /\ i + n \in 1 .. Len(a)
    <3>1. i \in 1 .. Len(a) - (n + 1) + 1 /\ n + 1 + i - 1 = i + n /\ i + n \in 1 .. Len(a)
      BY <1>1, <1>3
    <3> QED  BY <1>2, <3>1
  <2> QED  BY <2>1
<1> HIDE DEF c
<1>5. /\ c \o b \in Seq(Unit) /\ Len(c \o b) = Len(c) + Len(b)
      /\ \A i \in 1 .. Len(c) + Len(b) : (c \o b)[i] = IF i <= Len(c) THEN c[i] ELSE b[i - Len(c)]
  BY <1>2, ConcatProperties
<1>6. /\ Len(a \o b) = Len(a) + Len(b)
      /\ \A i \in 1 .. Len(a) + Len(b) : (a \o b)[i] = IF i <= Len(a) THEN a[i] ELSE b[i - Len(a)]
  BY ConcatProperties
<1>7. Len(c \o b) = Len(a \o b) - n
  BY <1>1, <1>3, <1>5, <1>6
<1>8. ASSUME NEW k \in 1 .. Len(c \o b)
      PROVE  (c \o b)[k] = (a \o b)[k + n]
  <2>1. k \in 1 .. Len(c) + Len(b) /\ k + n \in 1 .. Len(a) + Len(b)
    BY <1>1, <1>3, <1>5
  <2>2. CASE k <= Len(c)
    <3>1. k \in 1 .. Len(c) /\ k + n <= Len(a)
      BY <1>1, <1>3, <2>1, <2>2
    <3> QED  BY <1>4, <1>5, <1>6, <2>1, <2>2, <3>1
  <2>3. CASE ~(k <= Len(c))
    <3>1. ~(k + n <= Len(a)) /\ k - Len(c) = (k + n) - Len(a)
      BY <1>1, <1>3, <2>1, <2>3
    <3> QED  BY <1>5, <1>6, <2>1, <2>3, <3>1
  <2> QED  BY <2>2, <2>3
<1> QED  BY <1>2, <1>5, <1>7, <1>8 DEF c

\* Units of one message have the size of that message.
LEMMA SameSizes ==
  ASSUME TypeOK, NEW e \in End, Direction(e)
  PROVE  \A j, k \in 1 .. Len(Stream(e)) :
           Stream(e)[j].id = Stream(e)[k].id => Stream(e)[j].size = Stream(e)[k].size
<1>1. \A k \in 1 .. Len(Stream(e)) : Stream(e)[k].size = sent[e][Stream(e)[k].id + 1].size
  BY DEF Direction, StreamOK, IsUnitOf
<1> QED  BY <1>1

\* The first message that was read, which the stream begins with.
LEMMA ParsedMessage ==
  ASSUME TypeOK, NEW e \in End, Direction(e), Complete(Peer(e))
  PROVE  /\ Stream(e) # <<>> /\ input[Peer(e)] # <<>>
         /\ Head(input[Peer(e)]) = Stream(e)[1] /\ Stream(e)[1] \in Unit
         /\ Stream(e)[1].size <= Len(input[Peer(e)]) /\ Stream(e)[1].size <= Len(Stream(e))
         /\ \A k \in 1 .. Len(input[Peer(e)]) : Stream(e)[k] = input[Peer(e)][k]
         /\ Stream(e)[1].id = Len(delivered[Peer(e)])
         /\ Len(delivered[Peer(e)]) + 1 \in 1 .. Len(sent[e])
         /\ Stream(e)[1].size = sent[e][Len(delivered[Peer(e)]) + 1].size
         /\ Stream(e)[1].num_fds <=> sent[e][Len(delivered[Peer(e)]) + 1].fd # 0
<1> DEFINE s == Stream(e)
           a == input[Peer(e)]
           b == IF Closed(Peer(e)) THEN <<>> ELSE pipe[e]
           first == Len(delivered[Peer(e)])
<1>1. s \in Seq(Unit) /\ a \in Seq(Unit) /\ b \in Seq(Unit) /\ first \in Nat /\ Len(sent[e]) \in Nat
  BY StreamType, EmptySeq
<1>2. s = a \o b
  BY DEF Stream
<1>3. a # <<>> /\ Len(a) >= Head(a).size
  BY DEF Complete
<1>4. \A k \in 1 .. Len(s) : IsUnitOf(sent[e], s[k])
  BY DEF Direction, StreamOK
<1>5. Begins(s, first)
  BY DEF Direction, StreamOK
<1> HIDE DEF s, a, b, first
<1>6. Len(a) <= Len(s) /\ \A k \in 1 .. Len(a) : s[k] = a[k]
  BY <1>1, <1>2, BeginningOfStream
<1>7. 1 \in 1 .. Len(a) /\ Len(a) \in Nat /\ Len(s) \in Nat
  BY <1>1, <1>3, EmptySeq
<1>8. 1 \in 1 .. Len(s) /\ s # <<>>
  BY <1>1, <1>6, <1>7, EmptySeq
<1>9. s[1] \in Unit /\ Head(a) = s[1]
  BY <1>1, <1>3, <1>6, <1>7, <1>8, ElementOfSeq
<1>10. s[1].size \in Nat /\ s[1].id \in Nat
  BY <1>9, UnitTypes
<1>11. s[1].size <= Len(a) /\ s[1].size <= Len(s)
  BY <1>3, <1>6, <1>7, <1>9, <1>10
<1>12. s[1].id = first
  BY <1>5, <1>8 DEF Begins
<1>13. /\ first < Len(sent[e]) /\ s[1].size = sent[e][first + 1].size
       /\ s[1].num_fds <=> sent[e][first + 1].fd # 0
  BY <1>4, <1>8, <1>12 DEF IsUnitOf
<1>14. first + 1 \in 1 .. Len(sent[e])
  BY <1>1, <1>13
<1> QED  BY <1>3, <1>6, <1>8, <1>9, <1>11, <1>12, <1>13, <1>14 DEF s, a, first

\* The first descriptor that waits is that of the message to be delivered, and
\* the others are of later messages.
LEMMA FirstDescriptor ==
  ASSUME TypeOK, NEW e \in End, Direction(e), ~Closed(Peer(e)), Complete(Peer(e)),
         Head(input[Peer(e)]).num_fds
  PROVE  /\ fds[e] # <<>> /\ Head(fds[e]) = Head(input[Peer(e)]).id
         /\ \A j \in 2 .. Len(fds[e]) : fds[e][j] > Len(delivered[Peer(e)])
<1> DEFINE f == fds[e]
           first == Len(delivered[Peer(e)])
<1>1. f \in Seq(Nat) /\ Len(f) \in Nat /\ first \in Nat
  BY StreamType
<1>2. /\ Stream(e) # <<>> /\ Head(input[Peer(e)]) = Stream(e)[1] /\ Stream(e)[1].num_fds
      /\ Stream(e)[1].id = first /\ 1 \in 1 .. Len(Stream(e))
  <2>1. Stream(e) \in Seq(Unit) /\ Stream(e) # <<>>
    BY StreamType, ParsedMessage
  <2>2. 1 \in 1 .. Len(Stream(e))
    BY <2>1, EmptySeq
  <2> QED  BY <2>1, <2>2, ParsedMessage
<1>3. /\ \A j \in 1 .. Len(f) : f[j] >= first /\ \A i \in 1 .. j - 1 : f[i] < f[j]
      /\ \A k \in 1 .. Len(Stream(e)) :
           Stream(e)[k].num_fds => \E j \in 1 .. Len(f) : f[j] = Stream(e)[k].id
  BY DEF Direction, FdsOK
<1>4. PICK j \in 1 .. Len(f) : f[j] = first
  BY <1>2, <1>3
<1> HIDE DEF f, first
<1>5. f # <<>> /\ 1 \in 1 .. Len(f)
  BY <1>1, <1>4, EmptySeq
<1>6. f[1] = first
  <2>1. CASE j = 1
    BY <1>4, <2>1
  <2>2. CASE j # 1
    <3>1. 1 \in 1 .. j - 1
      BY <1>4, <2>2
    <3>2. f[1] < first /\ f[1] >= first
      BY <1>3, <1>4, <1>5, <3>1
    <3>3. f[1] \in Nat
      BY <1>1, <1>5, ElementOfSeq
    <3> QED  BY <1>1, <3>2, <3>3
  <2> QED  BY <2>1, <2>2
<1>7. ASSUME NEW k \in 2 .. Len(f)
      PROVE  f[k] > first
  <2>1. k \in 1 .. Len(f) /\ 1 \in 1 .. k - 1
    BY <1>1
  <2>2. f[1] < f[k] /\ f[k] \in Nat
    BY <1>1, <1>3, <2>1, ElementOfSeq
  <2> QED  BY <1>1, <1>6, <2>2
<1>8. Head(f) = f[1]
  BY <1>1, <1>5
<1> QED  BY <1>2, <1>5, <1>6, <1>7, <1>8 DEF f, first

\* A listener gets what was sent.
LEMMA DeliveredParcel ==
  ASSUME TypeOK, NEW e \in End, Direction(e), Closed(Peer(e)) => ~fd_pipe[Peer(e)],
         ParseMessage(Peer(e))
  PROVE  delivered'[Peer(e)] =
           Append(delivered[Peer(e)], sent[e][Len(delivered[Peer(e)]) + 1])
<1> DEFINE r == Peer(e)
           a == input[r]
           m == Head(a)
           first == Len(delivered[r])
           p == sent[e][first + 1]
           fd == IF m.num_fds THEN Head(fds[e]) ELSE 0
<1>1. r \in End /\ Peer(r) = e /\ Complete(r)
  BY TwoEnds DEF ParseMessage
<1>2. delivered'[r] = Append(delivered[r],
        [id |-> m.id, size |-> m.size, whole |-> SubSeq(a, 1, m.size) = UnitsOf(m), fd |-> fd])
  BY <1>1 DEF TypeOK, ParseMessage
<1>3. /\ a # <<>> /\ m = Stream(e)[1] /\ m \in Unit /\ m.size <= Len(a) /\ m.size <= Len(Stream(e))
      /\ \A k \in 1 .. Len(a) : Stream(e)[k] = a[k]
      /\ m.id = first /\ first + 1 \in 1 .. Len(sent[e]) /\ m.size = p.size
      /\ m.num_fds <=> p.fd # 0
  BY <1>1, ParsedMessage
<1>4. /\ Stream(e) \in Seq(Unit) /\ a \in Seq(Unit) /\ first \in Nat /\ sent[e] \in Seq(Parcel)
      /\ Len(sent[e]) \in Nat
  BY StreamType
<1>5. p \in Parcel
  BY <1>3, <1>4, ElementOfSeq
<1>6. p.id = first /\ p.whole = TRUE /\ (p.fd # 0 => p.fd = first)
  <2>1. /\ p.id = first /\ p.whole /\ (p.fd # 0 => p.fd = first)
    <3>1. \A k \in 1 .. Len(sent[e]) : /\ sent[e][k].id = k - 1 /\ sent[e][k].whole
                                       /\ sent[e][k].fd # 0 => sent[e][k].fd = k - 1
      BY DEF Direction, SentOK
    <3>2. first + 1 \in 1 .. Len(sent[e])
      BY <1>3
    <3> DEFINE n == first + 1
    <3>3. n \in 1 .. Len(sent[e]) /\ p = sent[e][n] /\ n - 1 = first
      BY <1>4, <3>2
    <3> HIDE DEF n, p, first
    <3>4. sent[e][n].id = n - 1 /\ sent[e][n].whole /\ (sent[e][n].fd # 0 => sent[e][n].fd = n - 1)
      BY <3>1, <3>3
    <3> QED  BY <3>3, <3>4, Zenon
  <2>2. p.whole \in BOOLEAN
    BY <1>5 DEF Parcel
  <2> QED  BY <2>1, <2>2, Zenon
<1>7. fd = p.fd
  <2>1. CASE m.num_fds
    <3>1. ~Closed(r)
      BY <1>1, <2>1 DEF ParseMessage, HasFd
    <3>2. Head(fds[e]) = m.id
      BY <1>1, <2>1, <3>1, FirstDescriptor
    <3> QED  BY <1>3, <1>6, <2>1, <3>2
  <2>2. CASE ~m.num_fds
    BY <1>3, <2>2
  <2> QED  BY <2>1, <2>2
<1>8. m.size \in Nat /\ m.size >= 1 /\ m.id \in Nat /\ m.num_fds \in BOOLEAN
  BY <1>3, UnitTypes
<1>9. ASSUME NEW k \in 1 .. m.size
      PROVE  a[k] = [id |-> m.id, part |-> k, size |-> m.size, num_fds |-> m.num_fds]
  <2> DEFINE u == a[k]
  <2>1. k \in 1 .. Len(a) /\ k \in 1 .. Len(Stream(e)) /\ k <= m.size
    BY <1>3, <1>4, <1>8
  <2>2. u \in Unit /\ u = Stream(e)[k]
    BY <1>3, <1>4, <2>1, ElementOfSeq
  <2>3. u.id = first /\ u.part = k /\ u.size = m.size
    <3>1. /\ Chained(Stream(e)) /\ Begins(Stream(e), first) /\ Stream(e) # <<>>
          /\ \A i, j \in 1 .. Len(Stream(e)) :
               Stream(e)[i].id = Stream(e)[j].id => Stream(e)[i].size = Stream(e)[j].size
      BY <1>1, SameSizes, ParsedMessage DEF Direction, StreamOK
    <3> QED  BY <1>3, <1>4, <2>1, <2>2, <3>1, FirstMessage
  <2>4. u.num_fds = m.num_fds
    <3>1. /\ u.num_fds <=> sent[e][u.id + 1].fd # 0
      BY <2>1, <2>2 DEF Direction, StreamOK, IsUnitOf
    <3>2. u.num_fds \in BOOLEAN
      BY <2>2, UnitTypes
    <3> QED  BY <1>3, <1>8, <2>3, <3>1, <3>2
  <2>5. u = [id |-> u.id, part |-> u.part, size |-> u.size, num_fds |-> u.num_fds]
    BY <2>2, UnitTypes
  <2> QED  BY <1>3, <2>3, <2>4, <2>5
<1>10. SubSeq(a, 1, m.size) = UnitsOf(m)
  <2>1. \A k \in 1 .. m.size : SubSeq(a, 1, m.size)[k] = a[k]
    BY <1>4, <1>8
  <2>2. SubSeq(a, 1, m.size) = [k \in 1 .. m.size |-> a[k]]
    BY <1>4, <1>8
  <2> QED  BY <1>9, <2>2 DEF UnitsOf
<1>11. [id |-> m.id, size |-> m.size, whole |-> SubSeq(a, 1, m.size) = UnitsOf(m), fd |-> fd] = p
  <2>1. p = [id |-> p.id, size |-> p.size, whole |-> p.whole, fd |-> p.fd]
    BY <1>5 DEF Parcel
  <2>2. (SubSeq(a, 1, m.size) = UnitsOf(m)) = TRUE
    BY <1>10
  <2> HIDE DEF a, m, p, fd
  <2> QED  BY <1>3, <1>6, <1>7, <2>1, <2>2
<1> QED  BY <1>2, <1>11

\* A message goes from the stream to the listener, its descriptor with it.
LEMMA ParseStream ==
  ASSUME TypeOK, NEW e \in End, Direction(e), ParseMessage(Peer(e))
  PROVE  /\ Stream(e)' \in Seq(Unit)
         /\ Len(Stream(e)') = Len(Stream(e)) - Stream(e)[1].size
         /\ \A k \in 1 .. Len(Stream(e)') : Stream(e)'[k] = Stream(e)[k + Stream(e)[1].size]
<1> DEFINE r == Peer(e)
           a == input[r]
           b == IF Closed(r) THEN <<>> ELSE pipe[e]
           n == Stream(e)[1].size
<1>1. r \in End /\ Complete(r)
  BY TwoEnds DEF ParseMessage
<1>2. /\ input'[r] = SubSeq(a, Head(a).size + 1, Len(a))
      /\ UNCHANGED <<open, listening, pipe>>
  BY <1>1 DEF TypeOK, ParseMessage, AfterMessage
<1>3. a \in Seq(Unit) /\ b \in Seq(Unit)
  BY StreamType, EmptySeq
<1>4. Head(a).size = n /\ n \in Nat /\ n <= Len(a)
  BY <1>1, ParsedMessage, UnitTypes
<1>5. Stream(e) = a \o b
  BY DEF Stream
<1>6. Stream(e)' = SubSeq(a, n + 1, Len(a)) \o b
  BY <1>2, <1>4 DEF Stream, Closed
<1> HIDE DEF a, b, n
<1>7. /\ SubSeq(a, n + 1, Len(a)) \o b \in Seq(Unit)
      /\ Len(SubSeq(a, n + 1, Len(a)) \o b) = Len(a \o b) - n
      /\ \A k \in 1 .. Len(SubSeq(a, n + 1, Len(a)) \o b) :
           (SubSeq(a, n + 1, Len(a)) \o b)[k] = (a \o b)[k + n]
  BY <1>3, <1>4, DropBeginning
<1> QED  BY <1>5, <1>6, <1>7 DEF n

LEMMA ParseDirection ==
  ASSUME TypeOK, NEW e \in End, Direction(e), Closed(Peer(e)) => ~fd_pipe[Peer(e)],
         ParseMessage(Peer(e))
  PROVE  Direction(e)'
<1> DEFINE r == Peer(e)
           s == Stream(e)
           t == Stream(e)'
           first == Len(delivered[r])
           n == s[1].size
           f == fds[e]
           g == fds'[e]
<1>1. r \in End /\ Peer(r) = e /\ r # e /\ Complete(r)
  BY TwoEnds DEF ParseMessage
<1>2. UNCHANGED <<uses_fifo, sent, output, written, open, listening>>
  BY DEF ParseMessage, handshakeVars
<1>3. /\ Closed(e)' = Closed(e) /\ Closed(r)' = Closed(r) /\ NextId(e)' = NextId(e)
  BY <1>2 DEF Closed, NextId
<1>4. /\ s \in Seq(Unit) /\ first \in Nat /\ Len(sent[e]) \in Nat /\ f \in Seq(Nat)
      /\ Len(f) \in Nat /\ delivered[r] \in Seq(Parcel) /\ sent[e] \in Seq(Parcel)
  <2>1. delivered[r] \in Seq(Parcel)
    BY <1>1 DEF TypeOK
  <2> QED  BY <2>1, StreamType
<1>5. /\ s # <<>> /\ Head(input[r]) = s[1] /\ n \in Nat /\ n >= 1 /\ n <= Len(s)
      /\ s[1].id = first /\ first + 1 \in 1 .. Len(sent[e])
      /\ s[1].num_fds <=> sent[e][first + 1].fd # 0
  BY <1>1, ParsedMessage, UnitTypes
<1>6. Len(delivered'[r]) = first + 1
  <2>1. delivered'[r] = Append(delivered[r], sent[e][first + 1])
    BY DeliveredParcel
  <2> HIDE DEF r
  <2> QED  BY <1>4, <2>1
<1>7. /\ t \in Seq(Unit) /\ Len(t) = Len(s) - n /\ \A k \in 1 .. Len(t) : t[k] = s[k + n]
  BY ParseStream
<1>8. /\ Chained(s) /\ Begins(s, first) /\ \A k \in 1 .. Len(s) : IsUnitOf(sent[e], s[k])
      /\ ~Closed(e) /\ ~Closed(r) => Ends(s, first, [id |-> NextId(e), part |-> written[e] + 1])
  BY DEF Direction, StreamOK
<1>9. \A j, k \in 1 .. Len(s) : s[j].id = s[k].id => s[j].size = s[k].size
  BY SameSizes
<1>10. g = IF s[1].num_fds THEN Tail(f) ELSE f
  <2>1. fds' = IF Head(input[r]).num_fds THEN [fds EXCEPT ![e] = Tail(@)] ELSE fds
    BY <1>1 DEF ParseMessage
  <2> QED  BY <1>5, <2>1 DEF TypeOK
<1>11. SentOK(e)'
  BY <1>2 DEF Direction, SentOK
<1>12. OutputOK(e)'
  BY <1>2, <1>3 DEF Direction, OutputOK
<1> HIDE DEF s, t, n, f, g, first
<1>13. /\ Chained(t) /\ Begins(t, first + 1)
       /\ \A next : Ends(s, first, next) => Ends(t, first + 1, next)
  <2>1. s[1].size <= Len(s) /\ Len(t) = Len(s) - s[1].size
        /\ \A k \in 1 .. Len(t) : t[k] = s[k + s[1].size]
    BY <1>5, <1>7 DEF n
  <2>2. s \in Seq(Unit) /\ t \in Seq(Unit) /\ first \in Nat
    BY <1>4, <1>7
  <2>3. Chained(s) /\ Begins(s, first) /\ s # <<>>
    BY <1>5, <1>8
  <2> QED  BY <1>9, <2>1, <2>2, <2>3, RestOfStream
<1>14. \A k \in 1 .. Len(t) : k + n \in 1 .. Len(s) /\ t[k] = s[k + n]
  <2>1. Len(s) \in Nat
    BY <1>4
  <2> QED  BY <1>5, <1>7, <2>1
<1>15. StreamOK(e)'
  <2>1. \A k \in 1 .. Len(t) : IsUnitOf(sent[e], t[k])
    BY <1>8, <1>14
  <2>2. ~Closed(e) /\ ~Closed(r) => Ends(t, first + 1, [id |-> NextId(e), part |-> written[e] + 1])
    BY <1>8, <1>13
  <2>3. /\ \A k \in 1 .. Len(t) : IsUnitOf(sent'[e], t[k])
        /\ Begins(t, Len(delivered'[r]))
        /\ ~Closed(e)' /\ ~Closed(r)' =>
             Ends(t, Len(delivered'[r]), [id |-> NextId(e)', part |-> written'[e] + 1])
    BY <1>2, <1>3, <1>6, <1>13, <2>1, <2>2
  <2> QED  BY <1>13, <2>3 DEF StreamOK, t
<1>16. FdsOK(e)'
  <2>1. SUFFICES ASSUME ~Closed(r) PROVE FdsOK(e)'
    BY <1>3 DEF FdsOK
  <2>2. /\ \A j \in 1 .. Len(f) :
             /\ f[j] >= first /\ f[j] < Len(sent[e]) /\ sent[e][f[j] + 1].fd # 0
             /\ \A i \in 1 .. j - 1 : f[i] < f[j]
             /\ \A i \in 1 .. Len(output[e]) : output[e][i].fd => f[j] < output[e][i].id
        /\ \A k \in 1 .. Len(s) : s[k].num_fds => \E j \in 1 .. Len(f) : f[j] = s[k].id
        /\ \A i \in 1 .. Len(output[e]) :
             ~Closed(e) /\ output[e][i].num_fds /\ ~output[e][i].fd =>
               \E j \in 1 .. Len(f) : f[j] = output[e][i].id
    BY <2>1 DEF Direction, FdsOK, f, s, first
  <2>3. /\ \A j \in 1 .. Len(g) : \E h \in 1 .. Len(f) :
             /\ g[j] = f[h] /\ f[h] > first
             /\ \A i \in 1 .. j - 1 : \E l \in 1 .. h - 1 : g[i] = f[l]
        /\ \A h \in 1 .. Len(f) : f[h] > first => \E j \in 1 .. Len(g) : g[j] = f[h]
    <3>1. CASE s[1].num_fds
      <4>1. f # <<>> /\ f[1] = first /\ \A h \in 2 .. Len(f) : f[h] > first
        <5>1. /\ fds[e] # <<>> /\ Head(fds[e]) = Head(input[Peer(e)]).id
              /\ \A j \in 2 .. Len(fds[e]) : fds[e][j] > Len(delivered[Peer(e)])
          BY <1>1, <1>5, <2>1, <3>1, FirstDescriptor
        <5>2. f # <<>> /\ Head(f) = first /\ \A h \in 2 .. Len(f) : f[h] > first
          BY <1>5, <5>1 DEF f, first
        <5>3. Head(f) = f[1]
          BY <1>4, <5>2
        <5> QED  BY <5>2, <5>3
      <4>2. g = Tail(f) /\ Len(g) = Len(f) - 1 /\ \A j \in 1 .. Len(g) : g[j] = f[j + 1]
        <5>1. g = Tail(f)
          BY <1>10, <3>1
        <5> QED  BY <1>4, <4>1, <5>1, HeadTailProperties
      <4>3. ASSUME NEW j \in 1 .. Len(g)
            PROVE  \E h \in 1 .. Len(f) :
                     /\ g[j] = f[h] /\ f[h] > first
                     /\ \A i \in 1 .. j - 1 : \E l \in 1 .. h - 1 : g[i] = f[l]
        <5>1. j + 1 \in 1 .. Len(f) /\ j + 1 \in 2 .. Len(f)
          BY <1>4, <4>2
        <5>2. \A i \in 1 .. j - 1 : i + 1 \in 1 .. (j + 1) - 1 /\ i \in 1 .. Len(g)
          BY <1>4, <4>2
        <5> QED  BY <4>1, <4>2, <5>1, <5>2
      <4>4. ASSUME NEW h \in 1 .. Len(f), f[h] > first
            PROVE  \E j \in 1 .. Len(g) : g[j] = f[h]
        <5>1. h # 1
          BY <1>4, <4>1, <4>4
        <5>2. h - 1 \in 1 .. Len(g) /\ (h - 1) + 1 = h
          BY <1>4, <4>2, <5>1
        <5> QED  BY <4>2, <5>2
      <4> QED  BY <4>3, <4>4
    <3>2. CASE ~s[1].num_fds
      <4>1. g = f
        BY <1>10, <3>2
      <4>2. ASSUME NEW h \in 1 .. Len(f)
            PROVE  f[h] > first
        <5>1. f[h] \in Nat /\ f[h] >= first /\ sent[e][f[h] + 1].fd # 0
          BY <1>4, <2>2, ElementOfSeq
        <5>2. f[h] # first
          BY <1>5, <3>2, <5>1
        <5> QED  BY <1>4, <5>1, <5>2
      <4>3. \A j \in 1 .. Len(f) : \A i \in 1 .. j - 1 : \E l \in 1 .. j - 1 : f[i] = f[l]
        OBVIOUS
      <4> QED  BY <4>1, <4>2, <4>3
    <3> QED  BY <3>1, <3>2
  <2>4. ASSUME NEW j \in 1 .. Len(g)
        PROVE  /\ g[j] >= first + 1 /\ g[j] < Len(sent[e]) /\ sent[e][g[j] + 1].fd # 0
               /\ \A i \in 1 .. j - 1 : g[i] < g[j]
               /\ \A i \in 1 .. Len(output[e]) : output[e][i].fd => g[j] < output[e][i].id
    <3>1. PICK h \in 1 .. Len(f) :
            /\ g[j] = f[h] /\ f[h] > first
            /\ \A i \in 1 .. j - 1 : \E l \in 1 .. h - 1 : g[i] = f[l]
      BY <2>3
    <3>2. f[h] \in Nat
      BY <1>4, ElementOfSeq
    <3>3. g[j] >= first + 1
      BY <1>4, <3>1, <3>2
    <3>4. \A i \in 1 .. j - 1 : g[i] < g[j]
      BY <2>2, <3>1
    <3> QED  BY <2>2, <3>1, <3>3, <3>4
  <2>5. ASSUME NEW k \in 1 .. Len(t), t[k].num_fds
        PROVE  \E j \in 1 .. Len(g) : g[j] = t[k].id
    <3>1. t[k].id >= first + 1 /\ t[k].id \in Nat
      <4>1. t \in Seq(Unit) /\ first + 1 \in Nat /\ Chained(t) /\ Begins(t, first + 1)
        BY <1>4, <1>7, <1>13
      <4>2. t[k].id >= first + 1
        BY <4>1, IdsGrow
      <4>3. t[k] \in Unit
        BY <4>1, ElementOfSeq
      <4> QED  BY <4>2, <4>3, UnitTypes
    <3>2. PICK h \in 1 .. Len(f) : f[h] = t[k].id
      BY <1>14, <2>2, <2>5
    <3>3. f[h] > first
      BY <1>4, <3>1, <3>2
    <3> QED  BY <2>3, <3>2, <3>3
  <2>6. ASSUME NEW i \in 1 .. Len(output[e]), ~Closed(e), output[e][i].num_fds, ~output[e][i].fd
        PROVE  \E j \in 1 .. Len(g) : g[j] = output[e][i].id
    <3>1. PICK h \in 1 .. Len(f) : f[h] = output[e][i].id
      BY <2>2, <2>6
    <3>2. NextId(e) \in Nat /\ output[e][i].id = NextId(e) + i - 1
      <4>1. Len(output[e]) \in Nat /\ Len(output[e]) <= Len(sent[e])
        BY StreamType DEF Direction, OutputOK
      <4>2. NextId(e) \in Nat
        BY <1>4, <4>1 DEF NextId
      <4> QED  BY <4>2 DEF Direction, OutputOK
    <3>3. NextId(e) >= first + 1
      <4>1. Ends(t, first + 1, [id |-> NextId(e), part |-> written[e] + 1])
        BY <1>8, <1>13, <2>1, <2>6
      <4>2. first + 1 \in Nat
        BY <1>4
      <4> QED  BY <1>7, <1>13, <3>2, <4>1, <4>2, NextAfterFirst
    <3>4. f[h] > first
      BY <1>4, <3>1, <3>2, <3>3
    <3> QED  BY <2>3, <3>1, <3>4
  <2>7. UNCHANGED <<sent, output>> /\ Closed(e)' = Closed(e) /\ Len(delivered'[r]) = first + 1
    BY <1>2, <1>3, <1>6
  <2> QED  BY <2>4, <2>5, <2>6, <2>7 DEF FdsOK, g, t
<1> QED  BY <1>11, <1>12, <1>15, <1>16 DEF Direction

\* Steps that move no unit and close nothing.
Quiet ==
  /\ UNCHANGED <<uses_fifo, sent, output, written, fds, input, pipe, delivered>>
  /\ \A e \in End : Closed(e)' = Closed(e)

LEMMA StepKinds ==
  ASSUME TypeOK, NEW e \in End, IoStep(e) \/ OwnerCloses(e)
  PROVE  \/ Quiet \/ Closing(e)
         \/ WriteMessage(e) \/ WriteFdBlocks(e) \/ ReadPipe(e) \/ ParseMessage(e)
<1>1. CASE UNCHANGED <<closeVars, uses_fifo, written, input, historyVars>>
  BY <1>1 DEF Quiet, closeVars, historyVars, Closed
<1>2. CASE Connect(e) \/ ReturnTrue(e) \/ CanRead(e) \/ ReadWouldBlock(e) \/ ParsePartial(e)
  <2>1. UNCHANGED <<closeVars, uses_fifo, written, input, historyVars>>
    BY <1>2 DEF Connect, ReturnTrue, CanRead, ReadWouldBlock, ParsePartial, handshakeVars, ioVars
  <2> QED  BY <1>1, <2>1
<1>3. CASE CanWrite(e)
  BY <1>3 DEF CanWrite, Quiet, Closed, handshakeVars, historyVars
<1>4. CASE ReturnFalse(e)
  <2>1. UNCHANGED <<uses_fifo, sent, delivered, written, input>>
    BY <1>4 DEF ReturnFalse, handshakeVars, ioVars
  <2>2. CASE Close(e)
    BY <2>1, <2>2 DEF Closing
  <2>3. CASE UNCHANGED closeVars
    BY <2>1, <2>3 DEF Quiet, closeVars, Closed
  <2> QED  BY <1>4, <2>2, <2>3 DEF ReturnFalse
<1>5. CASE OwnerCloses(e)
  BY <1>5 DEF OwnerCloses, Closing, handshakeVars, ioVars
<1>6. CASE ReadEnd(e) \/ ReadTooMuch(e) \/ ParseFails(e)
  BY <1>6 DEF ReadEnd, ReadTooMuch, ParseFails, FailRead, Closing
<1> QED  BY <1>2, <1>3, <1>4, <1>5, <1>6 DEF IoStep

LEMMA AcceptKinds ==
  ASSUME TypeOK, NEW ok \in Accepts, AcceptConnection(ok)
  PROVE  Quiet \/ Closing("server")
<1>1. UNCHANGED <<uses_fifo, sent, delivered, written, input>>
  BY DEF AcceptConnection, historyVars
<1>2. CASE ok
  <2>1. UNCHANGED <<output, fds, pipe>>
    BY <1>2 DEF AcceptConnection
  <2>2. \A e \in End : Closed(e)' = Closed(e)
    BY <1>2 DEF AcceptConnection, Closed, TypeOK, End
  <2> QED  BY <1>1, <2>1, <2>2 DEF Quiet
<1>3. CASE ~ok
  <2>1. Close("server")
    BY <1>3 DEF AcceptConnection
  <2> QED  BY <1>1, <2>1 DEF Closing
<1> QED  BY <1>2, <1>3

LEMMA QuietDirection ==
  ASSUME TypeOK, NEW e \in End, Direction(e), Quiet
  PROVE  Direction(e)'
<1>1. Closed(e)' = Closed(e) /\ Closed(Peer(e))' = Closed(Peer(e))
  BY TwoEnds DEF Quiet
<1>2. Stream(e)' = Stream(e)
  BY <1>1 DEF Quiet, Stream
<1> QED  BY <1>1, <1>2, DirectionKept DEF Quiet

\* What an end sends, writes, reads or parses is of its own direction, or of
\* its peer's; the other direction is not disturbed.
LEMMA OtherDirection ==
  ASSUME TypeOK, NEW e \in End, NEW o \in End, Direction(o),
         \/ o # e /\ (\E size \in 1 .. MaxSize, fd \in WithFd : Send(e, size, fd))
         \/ o # e /\ (WriteMessage(e) \/ WriteFdBlocks(e))
         \/ o = e /\ (ReadPipe(e) \/ ParseMessage(e))
  PROVE  Direction(o)'
<1>1. Peer(o) \in End /\ Peer(o) # o /\ (o = e \/ o = Peer(e)) /\ Peer(e) # e /\ Peer(Peer(e)) = e
  BY TwoEnds
<1>2. UNCHANGED <<uses_fifo, open, listening>>
  BY DEF Send, WriteMessage, WriteFdBlocks, ReadPipe, ParseMessage, handshakeVars
<1>3. Closed(o)' = Closed(o) /\ Closed(Peer(o))' = Closed(Peer(o))
  BY <1>2 DEF Closed
<1>4. /\ sent'[o] = sent[o] /\ output'[o] = output[o] /\ written'[o] = written[o]
      /\ fds'[o] = fds[o] /\ delivered'[Peer(o)] = delivered[Peer(o)]
      /\ input'[Peer(o)] = input[Peer(o)] /\ pipe'[o] = pipe[o]
  <2>1. CASE o # e /\ (\E size \in 1 .. MaxSize, fd \in WithFd : Send(e, size, fd))
    BY <1>1, <2>1 DEF TypeOK, Send, Enqueue, handshakeVars
  <2>2. CASE o # e /\ WriteMessage(e)
    BY <1>1, <2>2 DEF TypeOK, WriteMessage, historyVars
  <2>3. CASE o # e /\ WriteFdBlocks(e)
    BY <1>1, <2>3 DEF TypeOK, WriteFdBlocks, historyVars
  <2>4. CASE o = e /\ ReadPipe(e)
    BY <1>1, <2>4 DEF TypeOK, ReadPipe, historyVars
  <2>5. CASE o = e /\ ParseMessage(e)
    BY <1>1, <2>5 DEF TypeOK, ParseMessage
  <2> QED  BY <2>1, <2>2, <2>3, <2>4, <2>5
<1>5. Stream(o)' = Stream(o)
  BY <1>3, <1>4 DEF Stream
<1> QED  BY <1>2, <1>3, <1>4, <1>5, DirectionKept

LEMMA NextDirection ==
  ASSUME TypeOK, \A e \in End : Direction(e) /\ ThreadOK(e), [Next]_vars
  PROVE  \A e \in End : Direction(e)'
<1> SUFFICES ASSUME NEW o \in End PROVE Direction(o)'
  OBVIOUS
<1>1. Direction(o) /\ Peer(o) \in End /\ Peer(Peer(o)) = o
  BY TwoEnds
<1>2. CASE Quiet
  BY <1>1, <1>2, QuietDirection
<1>3. ASSUME NEW e \in End, Closing(e)
      PROVE  Direction(o)'
  <2>1. CASE o = e
    BY <1>1, <1>3, <2>1, CloseWriter
  <2>2. CASE e = Peer(o)
    BY <1>1, <1>3, <2>2, CloseReader
  <2> QED  BY <2>1, <2>2, TwoEnds
<1>4. ASSUME NEW e \in End, WriteMessage(e) \/ WriteFdBlocks(e)
      PROVE  Direction(o)'
  <2>1. CASE o = e
    BY <1>1, <1>4, <2>1, WriteDirection, FdBlocksDirection
  <2>2. CASE o # e
    BY <1>1, <1>4, <2>2, OtherDirection
  <2> QED  BY <2>1, <2>2
<1>5. ASSUME NEW e \in End, ReadPipe(e) \/ ParseMessage(e)
      PROVE  Direction(o)'
  <2>1. CASE o = e
    BY <1>1, <1>5, <2>1, OtherDirection
  <2>2. CASE e = Peer(o)
    <3>1. Closed(Peer(o)) => ~fd_pipe[Peer(o)]
      BY <1>1 DEF ThreadOK
    <3> QED  BY <1>1, <1>5, <2>2, <3>1, ReadDirection, ParseDirection
  <2> QED  BY <2>1, <2>2, TwoEnds
<1>6. ASSUME NEW e \in End, NEW size \in 1 .. MaxSize, NEW fd \in WithFd, uses_fifo => ~fd,
             Send(e, size, fd)
      PROVE  Direction(o)'
  <2>1. CASE o = e
    BY <1>1, <1>6, <2>1, SendDirection
  <2>2. CASE o # e
    BY <1>1, <1>6, <2>2, OtherDirection
  <2> QED  BY <2>1, <2>2
<1>7. CASE UNCHANGED vars
  <2>1. Quiet
    BY <1>7 DEF vars, closeVars, handshakeVars, ioVars, historyVars, Quiet, Closed
  <2> QED  BY <1>2, <2>1
<1>8. ASSUME NEW e \in End, IoStep(e) \/ OwnerCloses(e)
      PROVE  Direction(o)'
  BY <1>2, <1>3, <1>4, <1>5, <1>8, StepKinds
<1>9. ASSUME NEW ok \in Accepts, AcceptConnection(ok)
      PROVE  Direction(o)'
  <2>1. "server" \in End
    BY DEF End
  <2> QED  BY <1>2, <1>3, <1>9, <2>1, AcceptKinds
<1> QED  BY <1>6, <1>7, <1>8, <1>9 DEF Next

----------------------------------------------------------------------------
(* Where the IO threads are.                                               *)

\* Before its first message is parsed, an end that has read something has read
\* a whole Hello message, which has no descriptor.
LEMMA FirstIsHello ==
  ASSUME TypeOK, NEW e \in End, Direction(Peer(e)), input[e] # <<>>, delivered[e] = <<>>
  PROVE  Complete(e) /\ ~Head(input[e]).num_fds
<1> DEFINE o == Peer(e)
           s == Stream(o)
<1>1. o \in End /\ Peer(o) = e
  BY TwoEnds
<1>2. input[e] \in Seq(Unit) /\ 1 \in 1 .. Len(input[e]) /\ Len(input[e]) \in Nat
  <2>1. input[e] \in Seq(Unit)
    BY DEF TypeOK
  <2> QED  BY <2>1, EmptySeq
<1>3. 1 \in 1 .. Len(s) /\ s \in Seq(Unit) /\ s[1] = Head(input[e]) /\ s # <<>>
  <2>1. \/ s = input[e] \o pipe[o] /\ pipe[o] \in Seq(Unit)
        \/ s = input[e]
    BY <1>1, StreamType
  <2>2. s \in Seq(Unit)
    BY <1>1, StreamType
  <2> HIDE DEF s
  <2>3. Len(input[e]) <= Len(s) /\ \A k \in 1 .. Len(input[e]) : s[k] = input[e][k]
    <3>1. CASE s = input[e] \o pipe[o] /\ pipe[o] \in Seq(Unit)
      BY <1>2, <3>1, BeginningOfStream
    <3>2. CASE s = input[e]
      BY <1>2, <3>2
    <3> QED  BY <2>1, <3>1, <3>2
  <2>4. 1 \in 1 .. Len(s) /\ s[1] = input[e][1]
    BY <1>2, <2>2, <2>3
  <2>5. Head(input[e]) = input[e][1]
    BY <1>2
  <2>6. s # <<>>
    BY <2>2, <2>4, EmptySeq
  <2> QED  BY <2>2, <2>4, <2>5, <2>6
<1>4. s[1].id = 0
  <2>1. Begins(s, Len(delivered[e]))
    BY <1>1 DEF Direction, StreamOK
  <2>2. Len(delivered[e]) = 0
    BY EmptySeq
  <2> HIDE DEF s
  <2> QED  BY <1>3, <2>1, <2>2 DEF Begins
<1>5. s[1].size = sent[o][s[1].id + 1].size /\ (s[1].num_fds <=> sent[o][s[1].id + 1].fd # 0)
  BY <1>3 DEF Direction, StreamOK, IsUnitOf
<1>6. sent[o][1].size = 1 /\ sent[o][1].fd = 0
  BY DEF Direction, SentOK
<1> HIDE DEF s, o
<1>7. s[1].id + 1 = 1
  BY <1>4
<1>8. s[1].size = 1 /\ ~s[1].num_fds
  BY <1>5, <1>6, <1>7
<1> QED  BY <1>2, <1>3, <1>8 DEF Complete

\* Only messages sent with a socket pair have descriptors.
LEMMA FdNeedsSocket ==
  ASSUME TypeOK, NEW e \in End, Direction(e), open[e], output[e] # <<>>, NeedsFd(e)
  PROVE  ~uses_fifo
<1>1. ~Closed(e)
  BY DEF Closed
<1>2. NextId(e) + 1 \in 1 .. Len(sent[e]) /\ sent[e][NextId(e) + 1].fd # 0
  BY <1>1, HeadOfQueue
<1> QED  BY <1>2 DEF Direction, SentOK

\* An end that is gone does not come back.
LEMMA GoneStays ==
  ASSUME TypeOK, NEW e \in End, Gone(e), [Next]_vars
  PROVE  Gone(e)'
<1>1. CASE UNCHANGED <<listening, open>> /\ (client_pipe' => client_pipe)
  BY <1>1 DEF Gone, Closed
<1>2. ASSUME NEW d \in End, Close(d)
      PROVE  Gone(e)'
  <2>1. ~open'[e] /\ ~listening'[e]
    BY <1>2 DEF TypeOK, Close, Gone, Closed
  <2>2. client_pipe' => client_pipe
    BY <1>2 DEF Close
  <2> QED  BY <2>1, <2>2 DEF Gone, Closed
<1>3. ASSUME NEW ok \in Accepts, AcceptConnection(ok)
      PROVE  Gone(e)'
  <2>1. CASE Close("server")
    BY <1>2, <2>1 DEF End
  <2>2. CASE ~Close("server")
    <3>1. e # "server"
      BY <1>3 DEF AcceptConnection, Gone, Closed
    <3>2. ok /\ UNCHANGED client_pipe
      BY <1>3, <2>2 DEF AcceptConnection
    <3>3. open'[e] = open[e] /\ listening'[e] = listening[e]
      BY <1>3, <3>1, <3>2 DEF AcceptConnection, TypeOK
    <3> QED  BY <3>2, <3>3 DEF Gone, Closed
  <2> QED  BY <2>1, <2>2
<1>4. ASSUME NEW d \in End, IoStep(d) \/ OwnerCloses(d)
      PROVE  Gone(e)'
  <2>1. Close(d) \/ (UNCHANGED <<listening, open>> /\ (client_pipe' => client_pipe))
    <3>1. CASE ReturnFalse(d)
      BY <3>1 DEF ReturnFalse, closeVars
    <3>2. CASE ReadEnd(d) \/ ReadTooMuch(d) \/ ParseFails(d) \/ OwnerCloses(d)
      BY <3>2 DEF ReadEnd, ReadTooMuch, ParseFails, FailRead, OwnerCloses
    <3>3. CASE ReadPipe(d)
      BY <3>3 DEF ReadPipe
    <3>4. CASE Connect(d) \/ ReturnTrue(d) \/ CanRead(d) \/ ReadWouldBlock(d) \/ ParsePartial(d)
      BY <3>4 DEF Connect, ReturnTrue, CanRead, ReadWouldBlock, ParsePartial, closeVars
    <3>5. CASE WriteMessage(d) \/ WriteFdBlocks(d) \/ CanWrite(d) \/ ParseMessage(d)
      BY <3>5 DEF WriteMessage, WriteFdBlocks, CanWrite, ParseMessage
    <3> QED  BY <1>4, <3>1, <3>2, <3>3, <3>4, <3>5 DEF IoStep
  <2> QED  BY <1>1, <1>2, <2>1
<1>5. ASSUME NEW d \in End, NEW size \in 1 .. MaxSize, NEW fd \in WithFd, Send(d, size, fd)
      PROVE  Gone(e)'
  BY <1>1, <1>5 DEF Send
<1>6. CASE UNCHANGED vars
  BY <1>1, <1>6 DEF vars, closeVars
<1> QED  BY <1>3, <1>4, <1>5, <1>6 DEF Next

\* A step of the other end leaves this one's thread where it is, and takes
\* nothing from its pipe.
LEMMA ThreadKept ==
  ASSUME NEW e \in End, ThreadOK(e),
         uses_fifo' = uses_fifo, at'[e] = at[e], waiting'[e] = waiting[e],
         write_watch'[e] = write_watch[e], blocked'[e] = blocked[e], open'[e] = open[e],
         listening'[e] = listening[e], fd_pipe'[e] = fd_pipe[e], output'[e] = output[e],
         input'[e] = input[e], delivered'[e] = delivered[e],
         e = "server" => greeting' = greeting,
         pipe[Peer(e)] # <<>> => pipe'[Peer(e)] # <<>>, Gone(Peer(e)) => Gone(Peer(e))'
  PROVE  ThreadOK(e)'
<1>1. FirstRead(e)' = FirstRead(e) /\ Closed(e)' = Closed(e)
  BY DEF FirstRead, Closed
<1> QED  BY <1>1 DEF ThreadOK

\* An end whose pipe is closed by its own step.
LEMMA ThreadCloses ==
  ASSUME TypeOK, NEW e \in End, ThreadOK(e), Close(e), uses_fifo' = uses_fifo,
         waiting'[e] = waiting[e], delivered'[e] = delivered[e],
         at'[e] \in {at[e], "idle", "listener"},
         at'[e] # at[e] => at[e] # "new", at'[e] # "parse",
         at'[e] = "listener" => at[e] \in {"listener", "reply"},
         delivered[e] = <<>> => input'[e] = <<>>
  PROVE  ThreadOK(e)'
<1>1. /\ ~open'[e] /\ ~listening'[e] /\ ~fd_pipe'[e] /\ ~write_watch'[e]
  BY DEF TypeOK, Close
<1>2. /\ at'[e] = "new" => waiting'[e]
      /\ e = "client" /\ waiting'[e] => at'[e] = "new"
      /\ at'[e] \notin {"new", "idle"} => ~waiting'[e]
      /\ at'[e] \in {"listener", "reply"} => delivered'[e] # <<>>
  BY DEF ThreadOK
<1> QED  BY <1>1, <1>2 DEF ThreadOK

LEMMA OtherThread ==
  ASSUME TypeOK, NEW o \in End, ThreadOK(o), NEW e \in End, o # e,
         \/ IoStep(e) \/ OwnerCloses(e)
         \/ \E size \in 1 .. MaxSize, fd \in WithFd : (uses_fifo => ~fd) /\ Send(e, size, fd)
  PROVE  ThreadOK(o)'
<1>1. e = Peer(o) /\ o = Peer(e)
  BY TwoEnds
<1>2. [Next]_vars
  BY DEF Next
<1>3. Gone(e) => Gone(e)'
  BY <1>2, GoneStays
<1> DEFINE Handshake ==
             /\ uses_fifo' = uses_fifo /\ waiting'[o] = waiting[o]
             /\ o = "server" => greeting' = greeting
           Io == /\ at'[o] = at[o] /\ blocked'[o] = blocked[o]
                 /\ input'[o] = input[o] /\ delivered'[o] = delivered[o]
           Ends_ == /\ open'[o] = open[o] /\ listening'[o] = listening[o]
                    /\ fd_pipe'[o] = fd_pipe[o] /\ write_watch'[o] = write_watch[o]
                    /\ output'[o] = output[o]
           Pipe == pipe[e] # <<>> => pipe'[e] # <<>>
<1>4. Handshake /\ Io /\ Ends_ /\ Pipe => ThreadOK(o)'
  BY <1>1, <1>3, ThreadKept
<1>5. ASSUME Close(e)
      PROVE  Ends_ /\ Pipe
  BY <1>1, <1>5 DEF TypeOK, Close
<1>6. UNCHANGED closeVars => Ends_ /\ Pipe
  BY DEF closeVars
<1>7. ASSUME NEW point, MoveTo(e, point)
      PROVE  at'[o] = at[o]
  BY <1>7 DEF TypeOK, MoveTo
<1>8. CASE Connect(e) \/ ReturnTrue(e) \/ CanRead(e) \/ ReadWouldBlock(e) \/ ParsePartial(e)
  <2>1. Handshake
    BY <1>1, <1>8 DEF TypeOK, Connect, ReturnTrue, CanRead, ReadWouldBlock, ParsePartial,
                      handshakeVars
  <2>2. at'[o] = at[o]
    BY <1>7, <1>8 DEF Connect, ReturnTrue, Return, CanRead, ReadWouldBlock, ParsePartial,
                      ProcessOutgoing
  <2>3. blocked'[o] = blocked[o] /\ input'[o] = input[o] /\ delivered'[o] = delivered[o]
    BY <1>8 DEF TypeOK, Connect, ReturnTrue, CanRead, ReadWouldBlock, ParsePartial,
                ProcessOutgoing, ioVars, historyVars
  <2>4. UNCHANGED closeVars
    BY <1>8 DEF Connect, ReturnTrue, CanRead, ReadWouldBlock, ParsePartial
  <2> QED  BY <1>4, <1>6, <2>1, <2>2, <2>3, <2>4
<1>9. CASE ReturnFalse(e) \/ OwnerCloses(e) \/ ReadEnd(e) \/ ReadTooMuch(e) \/ ParseFails(e)
  <2>1. Handshake
    BY <1>1, <1>9 DEF ReturnFalse, OwnerCloses, ReadEnd, ReadTooMuch, ParseFails, FailRead,
                      handshakeVars
  <2>2. at'[o] = at[o]
    BY <1>7, <1>9 DEF ReturnFalse, Return, OwnerCloses, ReadEnd, ReadTooMuch, ParseFails, FailRead
  <2>3. blocked'[o] = blocked[o] /\ input'[o] = input[o] /\ delivered'[o] = delivered[o]
    BY <1>9 DEF TypeOK, ReturnFalse, OwnerCloses, ReadEnd, ReadTooMuch, ParseFails, FailRead,
                ioVars
  <2>4. Close(e) \/ UNCHANGED closeVars
    BY <1>9 DEF ReturnFalse, OwnerCloses, ReadEnd, ReadTooMuch, ParseFails, FailRead
  <2> QED  BY <1>4, <1>5, <1>6, <2>1, <2>2, <2>3, <2>4
<1>10. CASE WriteMessage(e) \/ WriteFdBlocks(e) \/ CanWrite(e)
  <2>1. Handshake /\ input'[o] = input[o] /\ delivered'[o] = delivered[o]
    BY <1>10 DEF WriteMessage, WriteFdBlocks, CanWrite, handshakeVars, historyVars
  <2>2. at'[o] = at[o]
    BY <1>7, <1>10 DEF WriteMessage, WriteFdBlocks, CanWrite, BlockWrite, Return, ProcessOutgoing
  <2>3. blocked'[o] = blocked[o] /\ write_watch'[o] = write_watch[o]
    BY <1>10 DEF TypeOK, WriteMessage, WriteFdBlocks, CanWrite, BlockWrite, ProcessOutgoing
  <2>4. output'[o] = output[o] /\ UNCHANGED <<open, listening, fd_pipe>>
    BY <1>10 DEF TypeOK, WriteMessage, WriteFdBlocks, CanWrite
  <2>5. Pipe
    <3>1. CASE WriteMessage(e)
      <4>1. pipe'[e] = pipe[e] \o Writable(e) /\ pipe[e] \in Seq(Unit) /\ output[e] # <<>>
        BY <3>1 DEF TypeOK, WriteMessage
      <4>2. Writable(e) \in Seq(Unit)
        BY <4>1, WritableUnits
      <4>3. pipe[e] # <<>> => pipe[e] \o Writable(e) # <<>>
        <5> DEFINE a == pipe[e]
                   b == Writable(e)
        <5>1. a \in Seq(Unit) /\ b \in Seq(Unit)
          BY <4>1, <4>2
        <5> HIDE DEF a, b
        <5>2. /\ Len(a \o b) = Len(a) + Len(b) /\ Len(b) \in Nat /\ Len(a) \in Nat
              /\ a \o b \in Seq(Unit)
          BY <5>1, ConcatProperties, LenProperties
        <5>3. a # <<>> => Len(a) >= 1
          BY <5>1, EmptySeq
        <5>4. a # <<>> => a \o b # <<>>
          BY <5>2, <5>3, EmptySeq
        <5> QED  BY <5>4 DEF a, b
      <4> QED  BY <4>1, <4>3
    <3>2. CASE WriteFdBlocks(e) \/ CanWrite(e)
      BY <3>2 DEF WriteFdBlocks, CanWrite
    <3> QED  BY <1>10, <3>1, <3>2
  <2> QED  BY <1>4, <2>1, <2>2, <2>3, <2>4, <2>5
<1>11. CASE ReadPipe(e) \/ ParseMessage(e)
  <2>1. Handshake /\ blocked'[o] = blocked[o]
    BY <1>11 DEF ReadPipe, ParseMessage, handshakeVars
  <2>2. at'[o] = at[o]
    BY <1>7, <1>11 DEF ReadPipe, ParseMessage
  <2>3. input'[o] = input[o] /\ delivered'[o] = delivered[o] /\ fd_pipe'[o] = fd_pipe[o]
    BY <1>11 DEF TypeOK, ReadPipe, ParseMessage, historyVars
  <2>4. UNCHANGED <<open, listening, output, write_watch>>
    BY <1>11 DEF ReadPipe, ParseMessage
  <2>5. Pipe
    BY <1>1, <1>11 DEF TypeOK, ReadPipe, ParseMessage
  <2> QED  BY <1>4, <2>1, <2>2, <2>3, <2>4, <2>5
<1>12. ASSUME NEW size \in 1 .. MaxSize, NEW fd \in WithFd, Send(e, size, fd)
       PROVE  ThreadOK(o)'
  <2>1. Handshake /\ input'[o] = input[o] /\ delivered'[o] = delivered[o]
    BY <1>12 DEF Send, handshakeVars
  <2>2. at'[o] = at[o] /\ blocked'[o] = blocked[o]
    BY <1>7, <1>12 DEF TypeOK, Send, ProcessOutgoing
  <2>3. Ends_ /\ Pipe
    BY <1>12 DEF TypeOK, Send, Enqueue
  <2> QED  BY <1>4, <2>1, <2>2, <2>3
<1> QED  BY <1>8, <1>9, <1>10, <1>11, <1>12 DEF IoStep

LEMMA OwnerThread ==
  ASSUME TypeOK, NEW e \in End, ThreadOK(e),
         \/ Connect(e) \/ OwnerCloses(e)
         \/ \E size \in 1 .. MaxSize, fd \in WithFd : (uses_fifo => ~fd) /\ Send(e, size, fd)
  PROVE  ThreadOK(e)'
<1>1. CASE Connect(e)
  <2>1. at[e] = "new" /\ waiting[e]
    BY <1>1 DEF Connect, ThreadOK
  <2>2. /\ UNCHANGED <<listening, open, client_pipe, fd_pipe, write_watch, output, pipe, fds>>
        /\ UNCHANGED <<uses_fifo, greeting, written, input, sent, delivered, told>>
    BY <1>1 DEF Connect, closeVars, historyVars
  <2>3. Closed(e)' = Closed(e)
    BY <2>2 DEF Closed
  <2>4. CASE e = "server"
    <3>1. at'[e] = "idle" /\ UNCHANGED <<waiting, blocked>>
      BY <1>1, <2>4 DEF TypeOK, Connect, MoveTo
    <3> QED  BY <2>1, <2>2, <2>3, <2>4, <3>1 DEF ThreadOK, FirstRead
  <2>5. CASE e = "client"
    <3>1. at'[e] = "connect" /\ ~waiting'[e] /\ ~blocked'[e]
      BY <1>1, <2>5 DEF TypeOK, Connect, MoveTo, ProcessOutgoing
    <3> QED  BY <2>1, <2>2, <2>3, <2>5, <3>1 DEF ThreadOK, FirstRead
  <2> QED  BY <2>4, <2>5 DEF End
<1>2. CASE OwnerCloses(e)
  <2>1. /\ Close(e) /\ at[e] \in {"new", "idle"}
        /\ UNCHANGED <<at, uses_fifo, waiting, input, delivered>>
    BY <1>2 DEF OwnerCloses, handshakeVars, ioVars
  <2>2. delivered[e] = <<>> => input[e] = <<>>
    BY <2>1 DEF ThreadOK
  <2> QED  BY <2>1, <2>2, ThreadCloses
<1>3. ASSUME NEW size \in 1 .. MaxSize, NEW fd \in WithFd, Send(e, size, fd)
      PROVE  ThreadOK(e)'
  <2>1. at[e] \in {"idle", "listener"}
    BY <1>3 DEF Send, MaySend
  <2>2. UNCHANGED <<uses_fifo, listening, open, client_pipe, fd_pipe, write_watch, pipe, waiting,
                    greeting, input, delivered>>
    BY <1>3 DEF Send, handshakeVars
  <2>3. Closed(e)' = Closed(e)
    BY <2>2 DEF Closed
  <2>4. CASE MustWait(e)
    <3>1. UNCHANGED <<at, blocked>>
      BY <1>3, <2>4 DEF Send
    <3>2. waiting[e] \/ blocked[e]
      BY <2>4 DEF MustWait
    <3>3. Gone(Peer(e))' = Gone(Peer(e)) /\ FirstRead(e)' = FirstRead(e)
      BY <2>2, <3>1 DEF Gone, Closed, FirstRead
    <3> QED  BY <2>1, <2>2, <2>3, <3>1, <3>2, <3>3 DEF ThreadOK
  <2>5. CASE ~MustWait(e)
    <3>1. ~waiting[e] /\ ~blocked'[e]
      BY <1>3, <2>5 DEF TypeOK, Send, MustWait, ProcessOutgoing
    <3>2. at'[e] = IF at[e] = "idle" THEN "send" ELSE "reply"
      BY <1>3, <2>5 DEF TypeOK, Send, ProcessOutgoing, MoveTo
    <3>3. ~FirstRead(e)
      BY <2>1 DEF FirstRead
    <3> QED  BY <2>1, <2>2, <2>3, <3>1, <3>2, <3>3 DEF ThreadOK
  <2> QED  BY <2>4, <2>5
<1> QED  BY <1>1, <1>2, <1>3

LEMMA WritingThread ==
  ASSUME TypeOK, NEW e \in End, ThreadOK(e), Direction(e),
         ReturnTrue(e) \/ ReturnFalse(e) \/ WriteMessage(e) \/ WriteFdBlocks(e) \/ CanWrite(e)
  PROVE  ThreadOK(e)'
<1> DEFINE after == IF at[e] = "reply" THEN "listener" ELSE "idle"
<1>1. Return(e) => at'[e] = after
  BY DEF TypeOK, Return, MoveTo
<1>2. at[e] \in Callers => /\ ~waiting[e] /\ ~FirstRead(e)
                           /\ after = "listener" => delivered[e] # <<>>
                           /\ after \in {"idle", "listener"}
  BY DEF ThreadOK, FirstRead, Callers
<1> HIDE DEF after
<1>3. CASE ReturnTrue(e)
  <2>1. /\ UNCHANGED <<uses_fifo, listening, open, client_pipe, fd_pipe, write_watch, output, pipe,
                       waiting, greeting, blocked, input, delivered>>
        /\ at[e] \in Callers /\ at'[e] = after /\ output[e] = <<>>
    BY <1>1, <1>3 DEF ReturnTrue, closeVars, handshakeVars, ioVars, historyVars
  <2>2. Closed(e)' = Closed(e)
    BY <2>1 DEF Closed
  <2>3. at[e] # "parse"
    BY <2>1 DEF Callers
  <2> QED  BY <1>2, <2>1, <2>2, <2>3 DEF ThreadOK
<1>4. CASE ReturnFalse(e)
  <2>1. /\ UNCHANGED <<uses_fifo, waiting, greeting, blocked, input, delivered>>
        /\ at[e] \in Callers /\ at'[e] = after
    BY <1>1, <1>4 DEF ReturnFalse, handshakeVars, ioVars
  <2>2. at[e] # "parse" /\ at[e] # "new" /\ (after = "listener" => at[e] = "reply")
    BY <2>1 DEF Callers, after
  <2>3. delivered[e] = <<>> => input[e] = <<>>
    BY <2>2 DEF ThreadOK
  <2>4. CASE Close(e)
    BY <1>2, <2>1, <2>2, <2>3, <2>4, ThreadCloses
  <2>5. CASE ~Close(e)
    <3>1. /\ UNCHANGED <<listening, open, client_pipe, fd_pipe, write_watch, output, pipe>>
          /\ output[e] # <<>> /\ ~PipeBroken(e)
      BY <1>4, <2>5 DEF ReturnFalse, closeVars
    <3>2. Closed(e)' = Closed(e)
      BY <3>1 DEF Closed
    <3>3. ~open[e]
      <4>1. SUFFICES ASSUME open[e], NeedsFd(e), ~fd_pipe[e] PROVE FALSE
        BY <1>4, <3>1 DEF ReturnFalse
      <4>2. ~uses_fifo
        BY <3>1, <4>1, FdNeedsSocket
      <4> QED  BY <1>2, <2>1, <4>1, <4>2 DEF ThreadOK, End
    <3> QED  BY <1>2, <2>1, <2>2, <3>1, <3>2, <3>3 DEF ThreadOK
  <2> QED  BY <2>4, <2>5
<1>5. ASSUME at[e] \in Callers, UNCHANGED <<listening, open, client_pipe, fd_pipe, uses_fifo,
                                            waiting, greeting, input, delivered>>,
             UNCHANGED <<at, blocked, write_watch>> \/ BlockWrite(e)
      PROVE  ThreadOK(e)'
  <2>1. at[e] \notin {"new", "idle", "read", "parse", "listener"}
    BY <1>5 DEF Callers
  <2>2. Closed(e)' = Closed(e)
    BY <1>5 DEF Closed
  <2>3. CASE UNCHANGED <<at, blocked, write_watch>>
    <3>1. FirstRead(e)' = FirstRead(e)
      BY <1>5, <2>3 DEF FirstRead
    <3> QED  BY <1>5, <2>1, <2>2, <2>3, <3>1 DEF ThreadOK
  <2>4. CASE BlockWrite(e)
    <3>1. at'[e] = after /\ blocked'[e] /\ write_watch'[e]
      BY <1>1, <2>4 DEF TypeOK, BlockWrite
    <3> QED  BY <1>2, <1>5, <2>1, <2>2, <3>1 DEF ThreadOK
  <2> QED  BY <1>5, <2>3, <2>4
<1>6. CASE WriteMessage(e) \/ WriteFdBlocks(e)
  BY <1>5, <1>6 DEF WriteMessage, WriteFdBlocks, handshakeVars, historyVars
<1>7. CASE CanWrite(e)
  <2>1. /\ UNCHANGED <<uses_fifo, listening, open, client_pipe, fd_pipe, output, pipe,
                       waiting, greeting, input, delivered>>
        /\ at[e] = "idle" /\ write_watch[e]
    BY <1>7 DEF CanWrite, handshakeVars, historyVars
  <2>2. at'[e] = "writable" /\ ~write_watch'[e] /\ ~blocked'[e]
    BY <1>7 DEF TypeOK, CanWrite, ProcessOutgoing, MoveTo
  <2>3. Closed(e)' = Closed(e) /\ ~FirstRead(e)
    BY <2>1 DEF Closed, FirstRead
  <2> QED  BY <2>1, <2>2, <2>3 DEF ThreadOK
<1> QED  BY <1>3, <1>4, <1>6, <1>7

LEMMA ReadingThread ==
  ASSUME TypeOK, NEW e \in End, ThreadOK(e), Direction(Peer(e)),
         \/ CanRead(e) \/ ReadPipe(e) \/ ReadWouldBlock(e) \/ ReadEnd(e) \/ ReadTooMuch(e)
         \/ ParseMessage(e) \/ ParseFails(e) \/ ParsePartial(e)
  PROVE  ThreadOK(e)'
<1>1. ASSUME NEW point, MoveTo(e, point)
      PROVE  at'[e] = point
  BY <1>1 DEF TypeOK, MoveTo
<1>2. CASE CanRead(e)
  <2>1. /\ UNCHANGED <<uses_fifo, listening, open, client_pipe, fd_pipe, write_watch, output, pipe,
                       blocked, input, delivered>>
        /\ at[e] = "idle" /\ at'[e] = "read" /\ open[e]
    BY <1>1, <1>2 DEF CanRead, closeVars, ioVars, historyVars
  <2>2. /\ ~waiting'[e] /\ (e = "server" => greeting' = waiting[e])
        /\ pipe[Peer(e)] # <<>> \/ Gone(Peer(e))
    BY <1>2 DEF TypeOK, CanRead
  <2>3. Closed(e)' = Closed(e) /\ Gone(Peer(e))' = Gone(Peer(e))
    BY <2>1 DEF Closed, Gone
  <2>4. e = "server" \/ e = "client"
    BY DEF End
  <2>5. delivered'[e] = <<>> => FirstRead(e)'
    BY <2>1 DEF FirstRead
  <2> QED  BY <2>1, <2>2, <2>3, <2>4, <2>5 DEF ThreadOK
<1>3. CASE ReadPipe(e)
  <2>1. /\ UNCHANGED <<uses_fifo, listening, open, fd_pipe, write_watch, output, blocked, waiting,
                       greeting, delivered>>
        /\ at[e] = "read" /\ at'[e] = "parse" /\ open[e]
    BY <1>1, <1>3 DEF ReadPipe, MayRead, handshakeVars, historyVars
  <2>2. input'[e] # <<>>
    <3> DEFINE a == input[e]
               b == Readable(e)
    <3>1. MayRead(e)
      BY <1>3 DEF ReadPipe
    <3>2. PICK n \in 1 .. Len(pipe[Peer(e)]) : b \in Seq(Unit) /\ Len(b) = n
      BY <3>1, ReadableUnits
    <3>3. n \in Nat /\ n >= 1
      <4>1. pipe[Peer(e)] \in Seq(Unit)
        BY TwoEnds DEF TypeOK
      <4> QED  BY <4>1
    <3>4. a \in Seq(Unit) /\ input'[e] = a \o b
      BY <1>3 DEF TypeOK, ReadPipe
    <3> HIDE DEF a, b
    <3>5. Len(a \o b) = Len(a) + Len(b) /\ Len(a) \in Nat
      BY <3>2, <3>4, ConcatProperties, LenProperties
    <3> QED  BY <3>2, <3>3, <3>4, <3>5, EmptySeq
  <2>3. Closed(e)' = Closed(e) /\ (delivered'[e] = <<>> => FirstRead(e)')
    BY <2>1 DEF Closed, FirstRead
  <2> QED  BY <2>1, <2>2, <2>3 DEF ThreadOK
<1>4. CASE ReadWouldBlock(e)
  <2>1. /\ UNCHANGED <<uses_fifo, listening, open, client_pipe, fd_pipe, write_watch, output, pipe,
                       waiting, input, delivered>>
        /\ at[e] = "read" /\ open[e] /\ pipe[Peer(e)] = <<>> /\ ~Gone(Peer(e))
    BY <1>4 DEF ReadWouldBlock, closeVars, historyVars
  <2>2. delivered[e] # <<>>
    BY <2>1 DEF ThreadOK
  <2>3. Closed(e)' = Closed(e)
    BY <2>1 DEF Closed
  <2>4. CASE e = "server" /\ greeting
    <3>1. at'[e] = "hello" /\ ~blocked'[e]
      BY <1>1, <1>4, <2>4 DEF TypeOK, ReadWouldBlock, ProcessOutgoing
    <3> QED  BY <2>1, <2>2, <2>3, <3>1 DEF ThreadOK
  <2>5. CASE ~(e = "server" /\ greeting)
    <3>1. at'[e] = "idle" /\ UNCHANGED <<blocked, greeting>>
      BY <1>1, <1>4, <2>5 DEF ReadWouldBlock
    <3> QED  BY <2>1, <2>2, <2>3, <2>5, <3>1 DEF ThreadOK
  <2> QED  BY <2>4, <2>5
<1>5. CASE ReadEnd(e) \/ ReadTooMuch(e) \/ ParseFails(e)
  <2>1. /\ Close(e) /\ at'[e] = "idle" /\ UNCHANGED <<uses_fifo, waiting, delivered>>
        /\ at[e] \in {"read", "parse", "listener"}
    BY <1>1, <1>5 DEF ReadEnd, ReadTooMuch, MayRead, ParseFails, Parsing, FailRead
  <2>2. ASSUME delivered[e] = <<>>
        PROVE  input'[e] = <<>>
    <3>1. CASE ReadEnd(e)
      BY <2>2, <3>1 DEF ReadEnd, ThreadOK
    <3>2. CASE ReadTooMuch(e)
      BY <3>2 DEF ReadTooMuch, TypeOK
    <3>3. CASE ParseFails(e)
      BY <2>2, <3>3, FirstIsHello DEF ParseFails, Complete
    <3> QED  BY <1>5, <3>1, <3>2, <3>3
  <2> QED  BY <2>1, <2>2, ThreadCloses
<1>6. CASE ParseMessage(e)
  <2>1. /\ UNCHANGED <<uses_fifo, listening, open, client_pipe, write_watch, output, pipe, waiting,
                       greeting, blocked>>
        /\ at[e] \in {"parse", "listener"} /\ at'[e] = "listener" /\ Complete(e)
    BY <1>1, <1>6 DEF ParseMessage, Parsing, handshakeVars
  <2>2. delivered'[e] # <<>>
    <3>1. delivered[e] \in Seq(Parcel) /\ \E p : delivered'[e] = Append(delivered[e], p)
      BY <1>6 DEF TypeOK, ParseMessage
    <3>2. PICK p : delivered'[e] = Append(delivered[e], p)
      BY <3>1
    <3> DEFINE d == delivered[e]
    <3>3. Append(d, p) # <<>>
      <4>1. d \in Seq(Parcel)
        BY <3>1
      <4> HIDE DEF d
      <4>2. Append(d, p)[Len(d) + 1] = p /\ Len(Append(d, p)) = Len(d) + 1 /\ Len(d) \in Nat
        BY <4>1
      <4> QED  BY <4>2
    <3> QED  BY <3>2, <3>3
  <2>3. Closed(e)' = Closed(e)
    BY <2>1 DEF Closed
  <2>4. Head(input[e]).id = Len(delivered[e]) /\ delivered[e] \in Seq(Parcel)
    <3> DEFINE o == Peer(e)
    <3>1. o \in End /\ Peer(o) = e /\ Direction(o)
      BY TwoEnds
    <3>2. delivered[e] \in Seq(Parcel)
      BY DEF TypeOK
    <3>3. Complete(Peer(o))
      BY <2>1, <3>1
    <3> HIDE DEF o
    <3>4. Head(input[Peer(o)]) = Stream(o)[1] /\ Stream(o)[1].id = Len(delivered[Peer(o)])
      BY <3>1, <3>3, ParsedMessage
    <3> QED  BY <3>1, <3>2, <3>4
  <2>5. delivered[e] = <<>> <=> Head(input[e]).id = 0
    BY <2>4, EmptySeq
  <2>6. fd_pipe'[e] = (fd_pipe[e] \/ (Head(input[e]).id = 0 /\ ~uses_fifo))
    BY <1>6 DEF TypeOK, ParseMessage
  <2>7. delivered[e] = <<>> => open[e] /\ ~Closed(e)
    BY <2>1 DEF ThreadOK, Closed
  <2> QED  BY <2>1, <2>2, <2>3, <2>5, <2>6, <2>7 DEF ThreadOK
<1>7. CASE ParsePartial(e)
  <2>1. /\ UNCHANGED <<uses_fifo, listening, open, client_pipe, fd_pipe, write_watch, output, pipe,
                       waiting, greeting, blocked, input, delivered>>
        /\ at[e] \in {"parse", "listener"} /\ at'[e] = "read" /\ ~Complete(e)
    BY <1>1, <1>7 DEF ParsePartial, Parsing, closeVars, handshakeVars, ioVars, historyVars
  <2>2. delivered[e] # <<>>
    BY <2>1, FirstIsHello DEF ThreadOK
  <2>3. Closed(e)' = Closed(e)
    BY <2>1 DEF Closed
  <2> QED  BY <2>1, <2>2, <2>3 DEF ThreadOK
<1> QED  BY <1>2, <1>3, <1>4, <1>5, <1>6, <1>7

LEMMA AcceptThread ==
  ASSUME TypeOK, \A e \in End : ThreadOK(e), NEW ok \in Accepts, AcceptConnection(ok),
         NEW o \in End
  PROVE  ThreadOK(o)'
<1>1. /\ "server" \in End /\ Peer("client") = "server" /\ Peer("server") = "client"
      /\ o = "server" \/ o = "client"
  BY DEF End, Peer
<1>2. /\ UNCHANGED <<uses_fifo, greeting, input, delivered>>
      /\ at["server"] = "idle" /\ listening["server"] /\ uses_fifo
      /\ at'["server"] = "hello" /\ ~waiting'["server"] /\ ~blocked'["server"]
  <2>1. UNCHANGED <<uses_fifo, greeting, input, delivered>> /\ listening["server"]
    BY DEF AcceptConnection, historyVars
  <2>2. uses_fifo
    BY <1>1, <2>1 DEF ThreadOK
  <2> QED  BY <1>1, <2>1, <2>2 DEF AcceptConnection, ProcessOutgoing, MoveTo, TypeOK
<1>3. CASE o = "client"
  <2>1. /\ at'[o] = at[o] /\ waiting'[o] = waiting[o] /\ blocked'[o] = blocked[o]
    BY <1>3 DEF AcceptConnection, ProcessOutgoing, MoveTo, TypeOK
  <2>2. /\ write_watch'[o] = write_watch[o] /\ open'[o] = open[o] /\ listening'[o] = listening[o]
        /\ fd_pipe'[o] = fd_pipe[o] /\ output'[o] = output[o] /\ pipe'["server"] = pipe["server"]
    <3>1. CASE ok
      BY <1>3, <3>1 DEF AcceptConnection, TypeOK
    <3>2. CASE ~ok
      BY <1>1, <1>3, <3>2 DEF AcceptConnection, Close, TypeOK
    <3> QED  BY <3>1, <3>2
  <2>3. Gone("server") => Gone("server")'
    <3>1. [Next]_vars
      BY DEF Next
    <3> QED  BY <1>1, <3>1, GoneStays
  <2> QED  BY <1>1, <1>2, <1>3, <2>1, <2>2, <2>3, ThreadKept
<1>4. CASE o = "server"
  <2>1. CASE ok
    <3>1. /\ ~listening'[o] /\ open'[o]
          /\ UNCHANGED <<client_pipe, fd_pipe, write_watch, output, pipe, fds>>
      BY <1>4, <2>1 DEF AcceptConnection, TypeOK
    <3>2. ~Closed(o)'
      BY <3>1 DEF Closed
    <3> QED  BY <1>1, <1>2, <1>4, <3>1, <3>2 DEF ThreadOK
  <2>2. CASE ~ok
    <3>1. ~listening'[o] /\ ~open'[o] /\ ~fd_pipe'[o] /\ ~write_watch'[o]
      BY <1>1, <1>4, <2>2 DEF AcceptConnection, Close, TypeOK
    <3> QED  BY <1>1, <1>2, <1>4, <3>1 DEF ThreadOK
  <2> QED  BY <2>1, <2>2
<1> QED  BY <1>1, <1>3, <1>4

LEMMA InitInv == Init => IInv
<1> SUFFICES ASSUME Init, NEW e \in End PROVE SentOK(e) /\ OutputOK(e) /\ StreamOK(e) /\ FdsOK(e)
                                              /\ ThreadOK(e)
  BY InitType DEF IInv
<1>1. Peer(e) \in End /\ (e = "server" \/ e = "client")
  BY TwoEnds DEF End
<1>2. /\ sent[e] = <<[id |-> 0, size |-> 1, whole |-> TRUE, fd |-> 0]>> /\ output[e] = <<Hello>>
      /\ written[e] = 0 /\ input[Peer(e)] = <<>> /\ pipe[e] = <<>> /\ fds[e] = <<>>
      /\ delivered[e] = <<>> /\ delivered[Peer(e)] = <<>> /\ input[e] = <<>>
  BY <1>1 DEF Init
<1>3. NextId(e) = 0
  BY <1>2 DEF NextId
<1>4. SentOK(e)
  BY <1>2 DEF SentOK
<1>5. OutputOK(e)
  BY <1>2, <1>3 DEF OutputOK, Hello
<1>6. Stream(e) = <<>>
  BY <1>2 DEF Stream
<1>7. StreamOK(e)
  BY <1>2, <1>3, <1>6 DEF StreamOK, Chained, Begins, Ends
<1>8. FdsOK(e)
  <2>1. \A i \in 1 .. Len(output[e]) : ~output[e][i].num_fds
    BY <1>2 DEF Hello
  <2> QED  BY <1>2, <1>6, <2>1 DEF FdsOK
<1>9. ThreadOK(e)
  <2>1. uses_fifo \in BOOLEAN
    BY ConstantsOK DEF ConstantsOK, Init
  <2>2. /\ at[e] = "new" /\ waiting[e] /\ ~write_watch[e] /\ ~blocked[e]
        /\ listening[e] = (uses_fifo /\ e = "server") /\ open[e] = (~uses_fifo \/ e = "client")
        /\ fd_pipe[e] = (~uses_fifo /\ e = "client")
    BY DEF Init
  <2> QED  BY <1>1, <1>2, <2>1, <2>2 DEF ThreadOK, Closed
<1> QED  BY <1>4, <1>5, <1>7, <1>8, <1>9

LEMMA NextInv == IInv /\ [Next]_vars => IInv'
<1> SUFFICES ASSUME IInv, [Next]_vars PROVE IInv'
  OBVIOUS
<1>1. TypeOK /\ \A e \in End : Direction(e) /\ ThreadOK(e)
  BY DEF IInv, Direction
<1>2. TypeOK'
  BY <1>1, NextType
<1>3. \A e \in End : Direction(e)'
  BY <1>1, NextDirection
<1>4. ASSUME NEW o \in End
      PROVE  ThreadOK(o)'
  <2>1. CASE UNCHANGED vars
    <3>1. FirstRead(o)' = FirstRead(o) /\ Closed(o)' = Closed(o) /\ Gone(Peer(o))' = Gone(Peer(o))
      BY <2>1 DEF vars, closeVars, handshakeVars, ioVars, historyVars, FirstRead, Closed, Gone
    <3> QED  BY <1>1, <2>1, <3>1
             DEF vars, closeVars, handshakeVars, ioVars, historyVars, ThreadOK
  <2>2. ASSUME NEW e \in End,
               \/ IoStep(e) \/ OwnerCloses(e)
               \/ \E size \in 1 .. MaxSize, fd \in WithFd :
                    (uses_fifo => ~fd) /\ Send(e, size, fd)
        PROVE  ThreadOK(o)'
    <3>1. CASE o # e
      BY <1>1, <2>2, <3>1, OtherThread
    <3>2. CASE o = e
      <4>1. Direction(e) /\ Direction(Peer(e)) /\ ThreadOK(e)
        BY <1>1, TwoEnds
      <4> QED  BY <1>1, <2>2, <3>2, <4>1, OwnerThread, WritingThread, ReadingThread DEF IoStep
    <3> QED  BY <3>1, <3>2
  <2>3. ASSUME NEW ok \in Accepts, AcceptConnection(ok)
        PROVE  ThreadOK(o)'
    BY <1>1, <2>3, AcceptThread
  <2> QED  BY <2>1, <2>2, <2>3 DEF Next
<1> QED  BY <1>2, <1>3, <1>4 DEF IInv, Direction

\* Every unit on its way is the next one of a message sent, every descriptor is
\* ahead of its message, and every blocked write is watched
\* (ProcessOutgoingMessages, ProcessIncomingMessages).
THEOREM Invariance == Spec => []IInv
BY InitInv, NextInv, PTL DEF Spec

\* Messages left in the output queue of a connected channel, whose thread waits
\* for events, are blocked on a write that is watched (is_blocked_on_write_,
\* write_watcher_), for any sizes of the pipe and the messages.
THEOREM UnsentWatched == Spec => []UnsentIsWatched
<1>1. IInv => UnsentIsWatched
  BY DEF IInv, ThreadOK, UnsentIsWatched
<1> QED  BY <1>1, Invariance, PTL

\* The descriptor of a message that has arrived whole is the first one waiting
\* on the other pipe (ProcessIncomingMessages), whatever the room of the pipes.
THEOREM DescriptorsFirst == Spec => []DescriptorsArriveFirst
<1>1. IInv => DescriptorsArriveFirst
  <2>1. SUFFICES ASSUME IInv, NEW e \in End, Parsing(e), open[e], Complete(e),
                        Head(input[e]).num_fds
                 PROVE  HasFd(e) /\ Head(fds[Peer(e)]) = Head(input[e]).id
    BY DEF DescriptorsArriveFirst
  <2> DEFINE o == Peer(e)
  <2>2. o \in End /\ Peer(o) = e /\ TypeOK /\ Direction(o) /\ ThreadOK(e)
    BY <2>1, TwoEnds DEF IInv, Direction
  <2>3. ~Closed(e)
    BY <2>1 DEF Closed
  <2>4. delivered[e] # <<>>
    BY <2>1, <2>2, FirstIsHello DEF Complete
  <2> HIDE DEF o
  <2>5. fds[o] # <<>> /\ Head(fds[o]) = Head(input[e]).id
    BY <2>1, <2>2, <2>3, FirstDescriptor
  <2>6. ~uses_fifo
    <3>1. /\ Stream(o)[1].num_fds /\ Len(delivered[e]) + 1 \in 1 .. Len(sent[o])
          /\ sent[o][Len(delivered[e]) + 1].fd # 0
      BY <2>1, <2>2, ParsedMessage
    <3> QED  BY <2>2, <3>1 DEF Direction, SentOK
  <2>7. fd_pipe[e]
    BY <2>1, <2>2, <2>4, <2>6 DEF ThreadOK
  <2> QED  BY <2>5, <2>7 DEF HasFd, o
<1> QED  BY <1>1, Invariance, PTL

----------------------------------------------------------------------------
(* Each direction of the channel is a MessagePipe, fairness apart.         *)

\* A step of a message pipe that carries what o sends, or none.
PipeStep(o) ==
  \/ /\ Len(sent'[o]) = Len(sent[o]) + 1 /\ sent'[o][Len(sent'[o])] \in Parcel
     /\ sent'[o] = Append(sent[o], sent'[o][Len(sent'[o])])
     /\ delivered'[Peer(o)] = delivered[Peer(o)] /\ Broken' = Broken
  \/ /\ Len(delivered[Peer(o)]) < Len(sent[o])
     /\ delivered'[Peer(o)] = Append(delivered[Peer(o)], sent[o][Len(delivered[Peer(o)]) + 1])
     /\ sent'[o] = sent[o] /\ Broken' = Broken
  \/ /\ ~Broken /\ Broken' = TRUE
     /\ sent'[o] = sent[o] /\ delivered'[Peer(o)] = delivered[Peer(o)]
  \/ sent'[o] = sent[o] /\ delivered'[Peer(o)] = delivered[Peer(o)] /\ Broken' = Broken

LEMMA StaysBroken ==
  ASSUME \A e \in End : Closed(e)' = Closed(e)
  PROVE  Broken' = Broken
BY DEF Broken

LEMMA PipeSteps ==
  ASSUME IInv, [Next]_vars, NEW o \in End
  PROVE  PipeStep(o)
<1>1. TypeOK /\ Direction(o) /\ ThreadOK(Peer(o)) /\ Peer(o) \in End /\ Peer(Peer(o)) = o
  BY TwoEnds DEF IInv, Direction
<1>2. ASSUME UNCHANGED <<sent, delivered>>, \A e \in End : Closed(e)' = Closed(e)
      PROVE  PipeStep(o)
  BY <1>2, StaysBroken DEF PipeStep
<1>3. CASE Quiet
  BY <1>2, <1>3 DEF Quiet
<1>4. CASE UNCHANGED vars
  BY <1>2, <1>4 DEF vars, closeVars, historyVars, Closed
<1>5. ASSUME NEW e \in End, Closing(e)
      PROVE  PipeStep(o)
  <2>1. /\ Closed(e)' /\ Closed(Peer(e))' = Closed(Peer(e)) /\ UNCHANGED <<sent, delivered>>
    BY <1>1, <1>5, CloseEffect DEF Closing
  <2>2. Broken' = TRUE
    BY <2>1 DEF Broken
  <2>3. Broken = TRUE \/ ~Broken
    BY DEF Broken
  <2> QED  BY <2>1, <2>2, <2>3 DEF PipeStep
<1>6. ASSUME NEW e \in End, WriteMessage(e) \/ WriteFdBlocks(e) \/ ReadPipe(e)
      PROVE  PipeStep(o)
  <2>1. UNCHANGED <<sent, delivered, open, listening>>
    BY <1>6 DEF WriteMessage, WriteFdBlocks, ReadPipe, historyVars
  <2> QED  BY <1>2, <2>1 DEF Closed
<1>7. ASSUME NEW e \in End, ParseMessage(e)
      PROVE  PipeStep(o)
  <2>1. UNCHANGED <<sent, open, listening>> /\ Broken' = Broken
    <3>1. UNCHANGED <<sent, open, listening>>
      BY <1>7 DEF ParseMessage
    <3> QED  BY <3>1, StaysBroken DEF Closed
  <2>2. CASE e = Peer(o)
    <3>1. Closed(Peer(o)) => ~fd_pipe[Peer(o)]
      BY <1>1 DEF ThreadOK
    <3>2. delivered'[Peer(o)] = Append(delivered[Peer(o)], sent[o][Len(delivered[Peer(o)]) + 1])
      BY <1>1, <1>7, <2>2, <3>1, DeliveredParcel
    <3>3. Len(delivered[Peer(o)]) < Len(sent[o])
      <4>1. Complete(Peer(o))
        BY <1>7, <2>2 DEF ParseMessage
      <4>2. Len(delivered[Peer(o)]) + 1 \in 1 .. Len(sent[o])
        BY <1>1, <4>1, ParsedMessage
      <4>3. Len(delivered[Peer(o)]) \in Nat /\ Len(sent[o]) \in Nat
        BY <1>1, StreamType
      <4> QED  BY <4>2, <4>3
    <3> QED  BY <2>1, <3>2, <3>3 DEF PipeStep
  <2>3. CASE e # Peer(o)
    <3>1. delivered'[Peer(o)] = delivered[Peer(o)]
      BY <1>1, <1>7, <2>3 DEF ParseMessage, TypeOK
    <3> QED  BY <2>1, <3>1 DEF PipeStep
  <2> QED  BY <2>2, <2>3
<1>8. ASSUME NEW e \in End, NEW size \in 1 .. MaxSize, NEW fd \in WithFd, Send(e, size, fd)
      PROVE  PipeStep(o)
  <2>1. UNCHANGED <<delivered, open, listening>> /\ Broken' = Broken
    <3>1. UNCHANGED <<delivered, open, listening>>
      BY <1>8 DEF Send
    <3> QED  BY <3>1, StaysBroken DEF Closed
  <2>2. CASE e = o
    <3> DEFINE s == sent[e]
               p == [id |-> Len(s), size |-> size, whole |-> TRUE, fd |-> IF fd THEN Len(s) ELSE 0]
    <3>1. s \in Seq(Parcel) /\ Len(s) \in Nat /\ fd \in BOOLEAN
      BY <1>1, ConstantsOK DEF TypeOK, ConstantsOK
    <3>2. p \in Parcel
      BY <3>1 DEF Parcel
    <3>3. sent'[e] = Append(s, p)
      BY <1>1, <1>8 DEF TypeOK, Send, Enqueue
    <3> HIDE DEF s, p
    <3>4. Len(Append(s, p)) = Len(s) + 1 /\ Append(s, p)[Len(s) + 1] = p
      BY <3>1, <3>2, AppendProperties
    <3>5. /\ Len(sent'[e]) = Len(s) + 1 /\ sent'[e][Len(sent'[e])] = p
      BY <3>3, <3>4
    <3> QED  BY <2>1, <2>2, <3>2, <3>3, <3>5 DEF PipeStep, s
  <2>3. CASE e # o
    <3>1. sent'[o] = sent[o]
      BY <1>1, <1>8, <2>3 DEF TypeOK, Send, Enqueue
    <3> QED  BY <2>1, <3>1 DEF PipeStep
  <2> QED  BY <2>2, <2>3
<1>9. ASSUME NEW e \in End, IoStep(e) \/ OwnerCloses(e)
      PROVE  PipeStep(o)
  BY <1>1, <1>3, <1>5, <1>6, <1>7, <1>9, StepKinds
<1>10. ASSUME NEW ok \in Accepts, AcceptConnection(ok)
       PROVE  PipeStep(o)
  <2>1. "server" \in End
    BY DEF End
  <2> QED  BY <1>1, <1>3, <1>5, <1>10, <2>1, AcceptKinds
<1> QED  BY <1>4, <1>8, <1>9, <1>10 DEF Next

LEMMA PipeInit ==
  ASSUME Init, NEW o \in End
  PROVE  sent[o] \in Seq(Parcel) /\ Len(sent[o]) = 1 /\ delivered[Peer(o)] = <<>> /\ ~Broken
<1>1. TypeOK
  BY InitType
<1>2. sent[o] \in Seq(Parcel) /\ Len(sent[o]) = 1 /\ delivered[Peer(o)] = <<>>
  BY <1>1, TwoEnds DEF Init, TypeOK
<1>3. ~Broken
  BY ConstantsOK DEF ConstantsOK, Init, Broken, Closed, End
<1> QED  BY <1>2, <1>3

\* Each direction of a channel does only what a MessagePipe does, whatever the
\* sizes of the messages, the pipes and the read buffer: what a listener gets
\* are the messages its peer sent, whole, once, in their order and with their
\* own descriptors (ProcessOutgoingMessages, ProcessIncomingMessages), until
\* the channel breaks and after.
THEOREM DirectionsArePipes == Spec => ToClient!Spec /\ ToServer!Spec
<1>1. "server" \in End /\ "client" \in End /\ Peer("server") = "client" /\ Peer("client") = "server"
  BY DEF End, Peer
<1>2. Init => ToClient!Init /\ ToServer!Init
  BY <1>1, PipeInit DEF ToClient!Init, ToServer!Init
<1>3. IInv /\ [Next]_vars => [ToClient!Next]_(ToClient!vars)
  <2>1. SUFFICES ASSUME IInv, [Next]_vars PROVE [ToClient!Next]_(ToClient!vars)
    OBVIOUS
  <2>2. PipeStep("server")
    BY <1>1, <2>1, PipeSteps
  <2> QED  BY <1>1, <2>2 DEF PipeStep, ToClient!Next, ToClient!Send, ToClient!Receive,
                             ToClient!Break, ToClient!vars
<1>4. IInv /\ [Next]_vars => [ToServer!Next]_(ToServer!vars)
  <2>1. SUFFICES ASSUME IInv, [Next]_vars PROVE [ToServer!Next]_(ToServer!vars)
    OBVIOUS
  <2>2. PipeStep("client")
    BY <1>1, <2>1, PipeSteps
  <2> QED  BY <1>1, <2>2 DEF PipeStep, ToServer!Next, ToServer!Send, ToServer!Receive,
                             ToServer!Break, ToServer!vars
<1> QED  BY <1>2, <1>3, <1>4, Invariance, PTL DEF Spec, ToClient!Spec, ToServer!Spec

=============================================================================
