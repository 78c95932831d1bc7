---------------------------- MODULE ChannelPosix ----------------------------
(***************************************************************************)
(* The two ends of an IPC::Channel (ipc/ipc_channel_posix.cc), each on the *)
(* IO thread of its process: the handshake, the output queue and its       *)
(* partial writes, the reassembly of messages from what is read, the       *)
(* descriptors that travel on a pipe of their own                          *)
(* (ipc/file_descriptor_set_posix.cc), and the ways a channel closes.      *)
(*                                                                         *)
(* A pipe carries units, a message being 1 .. MaxSize of them: write takes *)
(* as many as there is room for, read as many as there are, up to the size *)
(* of the read buffer.  A message has at most one descriptor, named by the *)
(* message it was sent with, so that the descriptors read are always those *)
(* of one message and none is ever left over.                              *)
(*                                                                         *)
(* A definition marked "Variant" is a faulty version of the one after it.  *)
(***************************************************************************)
EXTENDS Naturals, Sequences

CONSTANTS
  MaxMessages,   \* MaxMessages[e]: bound on the messages end e sends
  MaxSize,       \* the size of the largest message sent
  Maximum,       \* Channel::kMaximumMessageSize
  Capacity,      \* room of a pipe, in units
  FdCapacity,    \* room of the descriptor pipe, in descriptors
  BufferSize,    \* Channel::kReadBufferSize
  WithFd,        \* whether a message has a descriptor: a subset of BOOLEAN
  Fifo,          \* the values of uses_fifo_: a subset of BOOLEAN
  Accepts,       \* whether accept succeeds: a subset of BOOLEAN
  Closers,       \* the ends whose owner may close the channel
  Repliers       \* the ends whose listener may send from a callback

End == {"server", "client"}
Peer(e) == IF e = "server" THEN "client" ELSE "server"

ASSUME ConstantsOK ==
  /\ MaxMessages \in [End -> Nat]
  /\ {MaxSize, Maximum, Capacity, FdCapacity, BufferSize} \subseteq Nat \ {0}
  /\ WithFd \subseteq BOOLEAN /\ Accepts \subseteq BOOLEAN
  /\ Fifo \subseteq BOOLEAN /\ Fifo # {}
  /\ Closers \subseteq End /\ Repliers \subseteq End

VARIABLES
  uses_fifo,     \* ChannelImpl::uses_fifo_, of both ends
  at,            \* where the IO thread is in a method of the channel
  listening,     \* server_listen_pipe_ # -1
  open,          \* pipe_ # -1
  client_pipe,   \* client_pipe_ # -1: the server also holds the client's end
  fd_pipe,       \* fd_pipe_ # -1
  waiting,       \* waiting_connect_
  greeting,      \* send_server_hello_msg, of the server
  blocked,       \* is_blocked_on_write_
  write_watch,   \* write_watcher_ is set
  output,        \* output_queue_
  written,       \* message_send_bytes_written_
  input,         \* input_buf_ and input_overflow_buf_, what is not parsed
  pipe,          \* pipe[e]: units written by e, not yet read
  fds,           \* fds[e]: descriptors sent by e, not yet received
  sent,          \* history: what e's owner sent, the Hello message first
  delivered,     \* history: what e's listener got
  told           \* history: the last thing e's owner learned

\* What Close changes.
closeVars == <<listening, open, client_pipe, fd_pipe, write_watch, output, pipe, fds>>
handshakeVars == <<uses_fifo, waiting, greeting>>
ioVars == <<blocked, written, input>>
historyVars == <<sent, delivered, told>>
vars == <<at, closeVars, handshakeVars, ioVars, historyVars>>

----------------------------------------------------------------------------
\* What is sent and what a listener gets: fd names the message the descriptor
\* came from, and is 0 without one; whole, the units are those of the message.
Parcel == [id : Nat, size : 1 .. MaxSize, whole : BOOLEAN, fd : Nat]

\* A queued message: fd, its FileDescriptorSet is not empty; num_fds, its
\* header says that it has a descriptor.
Message == [id : Nat, size : 1 .. MaxSize, fd : BOOLEAN, num_fds : BOOLEAN]

Hello == [id |-> 0, size |-> 1, fd |-> FALSE, num_fds |-> FALSE]

Unit == [id : Nat, part : 1 .. MaxSize, size : 1 .. MaxSize, num_fds : BOOLEAN]
UnitsOf(m) == [k \in 1 .. m.size |->
  [id |-> m.id, part |-> k, size |-> m.size, num_fds |-> m.num_fds]]

\* The callers of ProcessOutgoingMessages, the last two of them Send: "reply"
\* from a callback of ProcessIncomingMessages.
Callers == {"connect", "hello", "writable", "send", "reply"}
Points == {"new", "idle", "read", "parse", "listener"} \cup Callers

TypeOK ==
  /\ uses_fifo \in BOOLEAN /\ client_pipe \in BOOLEAN /\ greeting \in BOOLEAN
  /\ at \in [End -> Points]
  /\ listening \in [End -> BOOLEAN] /\ open \in [End -> BOOLEAN]
  /\ fd_pipe \in [End -> BOOLEAN] /\ waiting \in [End -> BOOLEAN]
  /\ blocked \in [End -> BOOLEAN] /\ write_watch \in [End -> BOOLEAN]
  /\ output \in [End -> Seq(Message)] /\ written \in [End -> 0 .. MaxSize - 1]
  /\ input \in [End -> Seq(Unit)] /\ pipe \in [End -> Seq(Unit)]
  /\ fds \in [End -> Seq(Nat)]
  /\ sent \in [End -> Seq(Parcel)] /\ delivered \in [End -> Seq(Parcel)]
  /\ told \in [End -> {"nothing", "closed", "refused", "error"}]

\* CreatePipe: with a FIFO the server listens, and the client is connected;
\* otherwise each has its end of a socket pair, of which the server keeps both,
\* and the client has made the descriptor pipe.
Init ==
  /\ uses_fifo \in Fifo
  /\ at = [e \in End |-> "new"]
  /\ listening = [e \in End |-> uses_fifo /\ e = "server"]
  /\ open = [e \in End |-> ~uses_fifo \/ e = "client"]
  /\ client_pipe = ~uses_fifo
  /\ fd_pipe = [e \in End |-> ~uses_fifo /\ e = "client"]
  /\ waiting = [e \in End |-> TRUE]
  /\ greeting = FALSE
  /\ blocked = [e \in End |-> FALSE] /\ write_watch = [e \in End |-> FALSE]
  /\ output = [e \in End |-> <<Hello>>] /\ written = [e \in End |-> 0]
  /\ input = [e \in End |-> <<>>]
  /\ pipe = [e \in End |-> <<>>] /\ fds = [e \in End |-> <<>>]
  /\ sent = [e \in End |-> <<[id |-> 0, size |-> 1, whole |-> TRUE, fd |-> 0]>>]
  /\ delivered = [e \in End |-> <<>>]
  /\ told = [e \in End |-> "nothing"]

----------------------------------------------------------------------------
(* Operators shared by the methods.                                        *)

MoveTo(e, point) == at' = [at EXCEPT ![e] = point]

\* What end e has of the channel's pipe is closed.
Closed(e) == ~open[e] /\ ~listening[e]

\* Nobody holds end e of the pipe: its peer reads the end of the file, and
\* cannot write.
Gone(e) == Closed(e) /\ (e = "client" => ~client_pipe)

\* ChannelImpl::Close: is_blocked_on_write_ and message_send_bytes_written_
\* keep their values, and so does the input buffer.  The peer may still read
\* what this end wrote.
Close(e) ==
  /\ listening' = [listening EXCEPT ![e] = FALSE]
  /\ open' = [open EXCEPT ![e] = FALSE]
  /\ client_pipe' = (client_pipe /\ e = "client")
  /\ fd_pipe' = [fd_pipe EXCEPT ![e] = FALSE]
  /\ write_watch' = [write_watch EXCEPT ![e] = FALSE]
  /\ output' = [output EXCEPT ![e] = <<>>]
  /\ pipe' = [pipe EXCEPT ![Peer(e)] = <<>>]
  /\ fds' = [fds EXCEPT ![Peer(e)] = <<>>]

Tell(e, what) == told' = [told EXCEPT ![e] = what]

\* Entering ProcessOutgoingMessages, and returning from it.
ProcessOutgoing(e, caller) ==
  /\ MoveTo(e, caller)
  /\ blocked' = [blocked EXCEPT ![e] = FALSE]

Return(e) == MoveTo(e, IF at[e] = "reply" THEN "listener" ELSE "idle")

----------------------------------------------------------------------------
(* The owner.                                                              *)

\* ChannelImpl::Connect
Connect(e) ==
  /\ at[e] = "new" /\ ~Closed(e)
  /\ IF e = "server"
     THEN MoveTo(e, "idle") /\ UNCHANGED <<waiting, blocked>>
     ELSE /\ waiting' = [waiting EXCEPT ![e] = FALSE]
          /\ ProcessOutgoing(e, "connect")
  /\ UNCHANGED <<closeVars, uses_fifo, greeting, written, input, historyVars>>

\* Send may be called by the owner, or by the listener in a callback.
MaySend(e) ==
  /\ at[e] = "idle" \/ (at[e] = "listener" /\ e \in Repliers)
  /\ told[e] # "closed"
  /\ Len(sent[e]) <= MaxMessages[e]

Enqueue(e, size, fd) ==
  LET id == Len(sent[e])
  IN  /\ sent' = [sent EXCEPT ![e] =
           Append(@,
           [id |-> id, size |-> size, whole |-> TRUE, fd |-> IF fd THEN id ELSE 0])]
      /\ output' = [output EXCEPT ![e] =
           Append(@, [id |-> id, size |-> size, fd |-> fd, num_fds |-> FALSE])]

MustWait(e) == waiting[e] \/ blocked[e]

\* ChannelImpl::Send: while a write is blocked, or before the connection, the
\* message is only queued and Send returns TRUE.
Send(e, size, fd) ==
  /\ MaySend(e)
  /\ Enqueue(e, size, fd)
  /\ IF MustWait(e)
     THEN UNCHANGED <<at, blocked>>
     ELSE ProcessOutgoing(e, IF at[e] = "idle" THEN "send" ELSE "reply")
  /\ UNCHANGED <<listening, open, client_pipe, fd_pipe, write_watch, pipe, fds, handshakeVars,
                 written, input, delivered, told>>

\* Channel::Close, or the end of the process.
OwnerCloses(e) ==
  /\ e \in Closers /\ at[e] \in {"new", "idle"} /\ told[e] # "closed"
  /\ Close(e)
  /\ Tell(e, "closed")
  /\ UNCHANGED <<at, handshakeVars, ioVars, sent, delivered>>

----------------------------------------------------------------------------
(* Writing: ProcessOutgoingMessages.                                       *)

\* There is nothing left to write.
ReturnTrue(e) ==
  /\ at[e] \in Callers /\ output[e] = <<>>
  /\ Return(e)
  /\ UNCHANGED <<closeVars, handshakeVars, ioVars, historyVars>>

\* A descriptor goes before the first unit of its message.
NeedsFd(e) == written[e] = 0 /\ Head(output[e]).fd

\* The write fails with EPIPE.  The client has both ends of the descriptor
\* pipe: what it sends there may still block.
PipeBroken(e) ==
  /\ open[e] /\ Gone(Peer(e))
  /\ e = "client" /\ NeedsFd(e) => Len(fds[e]) < FdCapacity

\* ProcessOutgoingMessages returns FALSE on a pipe that is closed, on one that
\* is broken, which it closes, and without a descriptor pipe.  Connect and Send
\* return FALSE; OnFileCanReadWithoutBlocking ignores it;
\* OnFileCanWriteWithoutBlocking closes the channel and calls the listener.
ReturnFalse(e) ==
  /\ at[e] \in Callers /\ output[e] # <<>>
  /\ ~open[e] \/ PipeBroken(e) \/ (NeedsFd(e) /\ ~fd_pipe[e])
  /\ Return(e)
  /\ IF PipeBroken(e) \/ at[e] = "writable" THEN Close(e) ELSE UNCHANGED closeVars
  /\ \/ at[e] \in {"connect", "send", "reply"} /\ Tell(e, "refused")
     \/ at[e] = "hello" /\ UNCHANGED told
     \/ at[e] = "writable" /\ Tell(e, "error")
  /\ UNCHANGED <<handshakeVars, ioVars, sent, delivered>>

\* A write would block: the pipe is watched, once.
BlockWrite(e) ==
  /\ blocked' = [blocked EXCEPT ![e] = TRUE]
  /\ write_watch' = [write_watch EXCEPT ![e] = TRUE]
  /\ Return(e)

\* The message at the head of the queue, its descriptor sent and CommitAll
\* called; what of it is not written yet, and what of that there is room for.
Committed(e) == [Head(output[e]) EXCEPT !.num_fds = @ \/ NeedsFd(e), !.fd = FALSE]

\* Variant: a partial write starts again.
UnwrittenFromStart(e) == UnitsOf(Committed(e))

Unwritten(e) == SubSeq(UnitsOf(Committed(e)), written[e] + 1, Head(output[e]).size)

Writable(e) ==
  LET room == Capacity - Len(pipe[e])
  IN  SubSeq(Unwritten(e), 1, IF Len(Unwritten(e)) < room THEN Len(Unwritten(e)) ELSE room)

\* Variant: the count is not reset after the last unit.
WrittenAfterUnreset(e) == written[e] + Len(Writable(e))

WrittenAfter(e) ==
  IF Len(Writable(e)) = Len(Unwritten(e)) THEN 0 ELSE written[e] + Len(Writable(e))

\* A round of the loop: the descriptor is sent on its pipe, then as much of the
\* message as there is room for is written.  What is left waits for the pipe.
WriteMessage(e) ==
  /\ at[e] \in Callers /\ output[e] # <<>> /\ open[e] /\ ~Gone(Peer(e))
  /\ NeedsFd(e) => fd_pipe[e] /\ Len(fds[e]) < FdCapacity
  /\ fds' = IF NeedsFd(e) THEN [fds EXCEPT ![e] = Append(@, Head(output[e]).id)] ELSE fds
  /\ pipe' = [pipe EXCEPT ![e] = @ \o Writable(e)]
  /\ written' = [written EXCEPT ![e] = WrittenAfter(e)]
  /\ IF Len(Writable(e)) = Len(Unwritten(e))
     THEN /\ output' = [output EXCEPT ![e] = Tail(@)]
          /\ UNCHANGED <<at, blocked, write_watch>>
     ELSE /\ output' = [output EXCEPT ![e] = <<Committed(e)>> \o Tail(@)]
          /\ BlockWrite(e)
  /\ UNCHANGED <<listening, open, client_pipe, fd_pipe, handshakeVars, input, historyVars>>

\* Variant: the message is written all the same.
WriteFdSkips(e) ==
  /\ at[e] \in Callers /\ output[e] # <<>> /\ open[e]
  /\ Gone(Peer(e)) => e = "client"
  /\ NeedsFd(e) /\ fd_pipe[e] /\ Len(fds[e]) >= FdCapacity
  /\ output' = [output EXCEPT ![e][1] = Committed(e)]
  /\ UNCHANGED <<at, blocked, write_watch, listening, open, client_pipe, fd_pipe, pipe, fds,
                 handshakeVars, written, input, historyVars>>

\* The descriptor pipe is full: nothing is written, and it is the other pipe
\* that is watched.
WriteFdBlocks(e) ==
  /\ at[e] \in Callers /\ output[e] # <<>> /\ open[e]
  /\ Gone(Peer(e)) => e = "client"
  /\ NeedsFd(e) /\ fd_pipe[e] /\ Len(fds[e]) >= FdCapacity
  /\ output' = [output EXCEPT ![e][1].num_fds = TRUE]
  /\ BlockWrite(e)
  /\ UNCHANGED <<listening, open, client_pipe, fd_pipe, pipe, fds, handshakeVars, written, input,
                 historyVars>>

\* Variant: OnFileCanWriteWithoutBlocking leaves the queue to the next Send.
CanWriteLater(e) ==
  /\ at[e] = "idle" /\ write_watch[e]
  /\ Len(pipe[e]) < Capacity \/ Gone(Peer(e))
  /\ write_watch' = [write_watch EXCEPT ![e] = FALSE]
  /\ blocked' = [blocked EXCEPT ![e] = FALSE]
  /\ UNCHANGED <<at, listening, open, client_pipe, fd_pipe, output, pipe, fds, handshakeVars,
                 written, input, historyVars>>

\* OnFileCanWriteWithoutBlocking: the watch was for one event.
CanWrite(e) ==
  /\ at[e] = "idle" /\ write_watch[e]
  /\ Len(pipe[e]) < Capacity \/ Gone(Peer(e))
  /\ write_watch' = [write_watch EXCEPT ![e] = FALSE]
  /\ ProcessOutgoing(e, "writable")
  /\ UNCHANGED <<listening, open, client_pipe, fd_pipe, output, pipe, fds, handshakeVars, written,
                 input, historyVars>>

----------------------------------------------------------------------------
(* Reading: ProcessIncomingMessages.                                       *)

\* OnFileCanReadWithoutBlocking on the FIFO the server listens to: the
\* connection is accepted, or the channel closes without a word; then the
\* server's first messages are sent.
AcceptConnection(ok) ==
  /\ at["server"] = "idle" /\ listening["server"]
  /\ waiting' = [waiting EXCEPT !["server"] = FALSE]
  /\ IF ok
     THEN /\ listening' = [listening EXCEPT !["server"] = FALSE]
          /\ open' = [open EXCEPT !["server"] = TRUE]
          /\ UNCHANGED <<client_pipe, fd_pipe, write_watch, output, pipe, fds>>
     ELSE Close("server")
  /\ ProcessOutgoing("server", "hello")
  /\ UNCHANGED <<uses_fifo, greeting, written, input, historyVars>>

\* OnFileCanReadWithoutBlocking on the channel's pipe.
CanRead(e) ==
  /\ at[e] = "idle" /\ open[e]
  /\ pipe[Peer(e)] # <<>> \/ Gone(Peer(e))
  /\ waiting' = [waiting EXCEPT ![e] = FALSE]
  /\ greeting' = IF e = "server" THEN waiting[e] ELSE greeting
  /\ MoveTo(e, "read")
  /\ UNCHANGED <<closeVars, uses_fifo, ioVars, historyVars>>

\* What a read gets.
Readable(e) ==
  LET n == Len(pipe[Peer(e)])
  IN  SubSeq(pipe[Peer(e)], 1, IF n < BufferSize THEN n ELSE BufferSize)

MayRead(e) == at[e] = "read" /\ open[e] /\ pipe[Peer(e)] # <<>>

\* The part of a message there is, and what was read, are not too much.
Fits(e) == input[e] = <<>> \/ Len(input[e]) + Len(Readable(e)) <= Maximum

\* With its first read the server closes the client's end of the pipe.
ReadPipe(e) ==
  /\ MayRead(e) /\ Fits(e)
  /\ input' = [input EXCEPT ![e] = @ \o Readable(e)]
  /\ pipe' = [pipe EXCEPT ![Peer(e)] = SubSeq(@, Len(Readable(e)) + 1, Len(@))]
  /\ client_pipe' = (client_pipe /\ e = "client")
  /\ MoveTo(e, "parse")
  /\ UNCHANGED <<listening, open, fd_pipe, write_watch, output, fds, handshakeVars, blocked,
                 written, historyVars>>

\* There is nothing to read: a server then sends its first messages.
ReadWouldBlock(e) ==
  /\ at[e] = "read" /\ open[e] /\ pipe[Peer(e)] = <<>> /\ ~Gone(Peer(e))
  /\ IF e = "server" /\ greeting
     THEN ProcessOutgoing(e, "hello") /\ greeting' = FALSE
     ELSE MoveTo(e, "idle") /\ UNCHANGED <<blocked, greeting>>
  /\ UNCHANGED <<closeVars, uses_fifo, waiting, written, input, historyVars>>

\* Variant: the listener is not called.
FailReadUnheard(e) ==
  /\ MoveTo(e, "idle")
  /\ Close(e)
  /\ greeting' = IF e = "server" THEN FALSE ELSE greeting
  /\ UNCHANGED <<uses_fifo, waiting, blocked, written, historyVars>>

\* ProcessIncomingMessages returns FALSE: the channel closes, and the listener
\* hears of it.
FailRead(e) ==
  /\ MoveTo(e, "idle")
  /\ Close(e)
  /\ Tell(e, "error")
  /\ greeting' = IF e = "server" THEN FALSE ELSE greeting
  /\ UNCHANGED <<uses_fifo, waiting, blocked, written, sent, delivered>>

\* The end of the file, or a pipe closed by a Send in a callback.
ReadEnd(e) ==
  /\ at[e] = "read" /\ pipe[Peer(e)] = <<>>
  /\ Gone(Peer(e)) \/ ~open[e]
  /\ FailRead(e) /\ UNCHANGED input

\* "IPC message is too big"
ReadTooMuch(e) ==
  /\ MayRead(e) /\ ~Fits(e)
  /\ FailRead(e)
  /\ input' = [input EXCEPT ![e] = <<>>]

\* Parsing what was read, possibly after a callback.
Parsing(e) == at[e] \in {"parse", "listener"}

\* Message::FindNext finds the end of the message.
Complete(e) == input[e] # <<>> /\ Len(input[e]) >= Head(input[e]).size

HasFd(e) == fd_pipe[e] /\ fds[Peer(e)] # <<>>

\* What follows the first message.
AfterMessage(e) == SubSeq(input[e], Head(input[e]).size + 1, Len(input[e]))

\* A complete message goes to the listener, with its descriptor.  The client's
\* Hello gives the server its end of the descriptor pipe.
ParseMessage(e) ==
  /\ Parsing(e) /\ Complete(e)
  /\ LET m == Head(input[e])
     IN  /\ m.num_fds => HasFd(e)
         /\ delivered' = [delivered EXCEPT ![e] = Append(@,
              [id |-> m.id, size |-> m.size,
               whole |-> SubSeq(input[e], 1, m.size) = UnitsOf(m),
               fd |-> IF m.num_fds THEN Head(fds[Peer(e)]) ELSE 0])]
         /\ fds' = IF m.num_fds THEN [fds EXCEPT ![Peer(e)] = Tail(@)] ELSE fds
         /\ fd_pipe' = IF m.id = 0 /\ ~uses_fifo THEN [fd_pipe EXCEPT ![e] = TRUE] ELSE fd_pipe
  /\ input' = [input EXCEPT ![e] = AfterMessage(e)]
  /\ MoveTo(e, "listener")
  /\ UNCHANGED <<listening, open, client_pipe, write_watch, output, pipe, handshakeVars, blocked,
                 written, sent, told>>

\* "Message needs unreceived descriptors"
ParseFails(e) ==
  /\ Parsing(e) /\ Complete(e) /\ Head(input[e]).num_fds /\ ~HasFd(e)
  /\ FailRead(e) /\ UNCHANGED input

\* The last message is partial, or there is none: more is read.
ParsePartial(e) ==
  /\ Parsing(e) /\ ~Complete(e)
  /\ MoveTo(e, "read")
  /\ UNCHANGED <<closeVars, handshakeVars, ioVars, historyVars>>

----------------------------------------------------------------------------
IoStep(e) ==
  \/ Connect(e)
  \/ ReturnTrue(e) \/ ReturnFalse(e) \/ WriteMessage(e) \/ WriteFdBlocks(e)
  \/ CanWrite(e) \/ CanRead(e)
  \/ ReadPipe(e) \/ ReadWouldBlock(e) \/ ReadEnd(e) \/ ReadTooMuch(e)
  \/ ParseMessage(e) \/ ParseFails(e) \/ ParsePartial(e)

Next ==
  \/ \E e \in End :
       \/ IoStep(e) \/ OwnerCloses(e)
       \/ \E size \in 1 .. MaxSize, fd \in WithFd : (uses_fifo => ~fd) /\ Send(e, size, fd)
  \/ \E ok \in Accepts : AcceptConnection(ok)

Spec == Init /\ [][Next]_vars

\* Each process runs its IO thread, whose loop serves every descriptor that
\* stays ready.
FairSpec ==
  /\ Spec
  /\ \A e \in End : WF_vars(IoStep(e)) /\ SF_vars(CanRead(e))
  /\ SF_vars(\E ok \in Accepts : AcceptConnection(ok))

----------------------------------------------------------------------------
(* Properties.                                                             *)

\* Each direction of the channel is a MessagePipe: no partial write, read
\* boundary, full descriptor pipe or closing channel loses, repeats, reorders or
\* cuts a message, or gives it another's descriptor, while both ends are open.
Broken == \E e \in End : Closed(e)
ToClient == INSTANCE MessagePipe WITH
  Message <- Parcel, sent <- sent["server"], received <- delivered["client"], broken <- Broken
ToServer == INSTANCE MessagePipe WITH
  Message <- Parcel, sent <- sent["client"], received <- delivered["server"], broken <- Broken
CarriesMessages == ToClient!FairSpec /\ ToServer!FairSpec

\* The descriptor of a message that has arrived whole is there to be received,
\* and it is that message's: descriptors are sent before the first unit of
\* their message, on a pipe that keeps their order
\* (ProcessOutgoingMessages, ProcessIncomingMessages).
DescriptorsArriveFirst ==
  \A e \in End :
    Parsing(e) /\ open[e] /\ Complete(e) /\ Head(input[e]).num_fds =>
      HasFd(e) /\ Head(fds[Peer(e)]) = Head(input[e]).id

\* What waits in the output queue of a connected channel is waited for: the
\* write is marked as blocked, so that Send leaves it alone, and watched.
UnsentIsWatched ==
  \A e \in End :
    at[e] = "idle" /\ open[e] /\ ~waiting[e] /\ output[e] # <<>> => blocked[e] /\ write_watch[e]

\* An owner whose peer has gone learns of it, by OnChannelError or a Send that
\* fails, except a server that never heard of its client, whose end it still
\* holds, or that closed the channel while it sent its first messages.
OwnerLearnsOfEnd ==
  \A e \in End :
    Closed(Peer(e)) ~> (told[e] # "nothing" \/ (e = "server" /\ (client_pipe \/ Closed(e))))

\* A Send on a channel that has closed, here by its own failed read
\* (OnFileCanReadWithoutBlocking), fails (Message::Sender::Send, "Returns true on
\* success and false otherwise").
SendOnClosedFails ==
  [][\A e \in End : sent'[e] # sent[e] /\ Closed(e) => at'[e] \in {"send", "reply"}]_vars
=============================================================================
