----------------------------- MODULE SyncChannel -----------------------------
(***************************************************************************)
(* IPC::SyncChannel (ipc/ipc_sync_channel.cc) over IPC::ChannelProxy       *)
(* (ipc/ipc_channel_proxy.cc).  Every process of Proc has two threads: a   *)
(* listener thread, whose call stack is stack[p], and an IPC thread, which *)
(* owns the pipes.  A blocking Send on the listener thread pushes a        *)
(* PendingSyncMsg on deserializers_, posts a SendTask to the IPC thread    *)
(* and waits for its reply or for dispatch_event_, so that synchronous     *)
(* messages of the peers are handled while it is blocked.                  *)
(*                                                                         *)
(* A process has one SyncChannel (and SyncContext) for each peer, so that  *)
(* a context is named by the peer; all contexts of a process share one     *)
(* ReceivedSyncMsgQueue, as they share the listener thread.                *)
(*                                                                         *)
(* A definition marked "Variant" is a faulty version of the one after it;  *)
(* no specification uses it.  It is there to show that a property can tell *)
(* the two apart.                                                          *)
(***************************************************************************)
EXTENDS Naturals, FiniteSets, Sequences, SequencesExt

CONSTANTS
  Proc,         \* the processes
  Peers,        \* Peers[p]: the processes p has a SyncChannel to
  SendKinds,    \* the kinds of message sent: a subset of {"sync", "async"}
  MaxSends,     \* MaxSends[p]: bound on the messages p creates
  Timed,        \* whether a Send has a timeout: a subset of BOOLEAN
  Pumped,       \* whether a Send pumps messages: a subset of BOOLEAN
  Outcomes,     \* whether a reply is no error: a subset of BOOLEAN
  Closers,      \* the processes that may destroy a SyncChannel
  Crashers,     \* the processes that may die
  ShutDowners   \* the processes whose shutdown event may be signaled

ASSUME ConstantsOK ==
  /\ IsFiniteSet(Proc)
  /\ Peers \in [Proc -> SUBSET Proc]
  /\ \A p, q \in Proc : q \in Peers[p] => p \in Peers[q] /\ p # q
  /\ SendKinds \subseteq {"sync", "async"}
  /\ MaxSends \in [Proc -> Nat]
  /\ Timed \subseteq BOOLEAN /\ Pumped \subseteq BOOLEAN /\ Outcomes \subseteq BOOLEAN
  /\ Closers \subseteq Proc /\ Crashers \subseteq Proc
  /\ ShutDowners \subseteq Proc

VARIABLES
  alive,             \* the process runs
  stack,             \* call stack of the listener thread
  next_id,           \* g_next_id, the next message id
  deserializers,     \* SyncContext::deserializers_, one stack per context
  message_queue,     \* ReceivedSyncMsgQueue::message_queue_
  task_pending,      \* ReceivedSyncMsgQueue::task_pending_
  dispatch_event,    \* ReceivedSyncMsgQueue::dispatch_event_ is signaled
  received_replies,  \* ReceivedSyncMsgQueue::received_replies_
  dispatch_watcher,  \* SyncChannel::dispatch_watcher_
  send_done_watcher, \* what *top_send_done_watcher_ waits for: {} or {send}
  listener_loop,     \* tasks of the listener thread's MessageLoop
  ipc_loop,          \* tasks of the IPC thread's MessageLoop
  queueing,          \* how far the IPC thread is in QueueMessage
  timers,            \* the delayed OnSendTimeout tasks of the IPC thread
  listener,          \* the SyncChannel exists: Context::listener_ # NULL
  connected,         \* the channel's end of the pipe is open
  pipe,              \* pipe[p][q]: written by p, not yet read by q
  shutdown_event,    \* the process's shutdown event is signaled
  answered           \* history: <<p, q, id>> when q answered p's message id

listenerVars == <<stack, next_id, deserializers, listener, dispatch_watcher>>
queueVars == <<message_queue, task_pending, dispatch_event, received_replies>>
loopVars == <<listener_loop, ipc_loop, queueing, timers, send_done_watcher>>
worldVars == <<alive, connected, pipe, shutdown_event, answered>>
vars == <<listenerVars, queueVars, loopVars, worldVars>>

----------------------------------------------------------------------------
(* Messages, tasks and frames.                                             *)

Message == [kind : {"sync", "async", "reply"}, id : Nat, ok : BOOLEAN]

\* A request or an asynchronous message.
Request(kind, id) == [kind |-> kind, id |-> id, ok |-> TRUE]

\* Variant: an error reply is not marked as a reply.
ReplyOrError(id, ok) ==
  [kind |-> IF ok THEN "reply" ELSE "error", id |-> id, ok |-> ok]

\* A reply; it is an error unless ok.
Reply(id, ok) == [kind |-> "reply", id |-> id, ok |-> ok]

\* A Send in progress: its context and message id.
SendRef == [peer : Proc, id : Nat]
Ref(q, id) == [peer |-> q, id |-> id]

\* Entry of deserializers_.
PendingSyncMsg == [id : Nat, done : BOOLEAN, result : BOOLEAN]

\* Entry of received_replies_.
QueuedReply == [peer : Proc, msg : Message]

\* Tasks of the listener thread: DispatchMessagesTask, the callbacks of
\* dispatch_watcher_ and of a send_done_watcher, OnDispatchMessage, and a
\* callback whose watcher was stopped, which does nothing.
ListenerTask ==
  [kind : {"dispatch", "watch", "quit", "message", "nop"},
   peer : Proc, id : Nat]
Task(kind, q, id) == [kind |-> kind, peer |-> q, id |-> id]

\* Tasks of the IPC thread: SendTask, DispatchReplies, OnChannelClosed and the
\* callback of shutdown_watcher_.  Only a SendTask has a message.
IpcTask == [kind : {"send", "replies", "closed", "shutdown"},
            peer : Proc, msg : Message]
NoMessage == Reply(0, FALSE)
SendTask(q, m) == [kind |-> "send", peer |-> q, msg |-> m]
IpcCall(kind, q) == [kind |-> kind, peer |-> q, msg |-> NoMessage]

\* A frame of the listener's stack: SendWithTimeout (the first five points),
\* DispatchMessages, or the listener's OnMessageReceived.
SendPoints == {"push", "post", "wait", "pump", "pop"}
HandlerPoints == {"sync", "async"}
Frame == [at : SendPoints \cup {"dispatch"} \cup HandlerPoints,
          peer : Proc, id : Nat, timed : BOOLEAN, pumped : BOOLEAN]
Call(at, q, id) ==
  [at |-> at, peer |-> q, id |-> id, timed |-> FALSE, pumped |-> FALSE]

----------------------------------------------------------------------------
TypeOK ==
  /\ alive \in [Proc -> BOOLEAN]
  /\ stack \in [Proc -> Seq(Frame)]
  /\ next_id \in [Proc -> Nat]
  /\ deserializers \in [Proc -> [Proc -> Seq(PendingSyncMsg)]]
  /\ message_queue \in [Proc -> Seq(SendRef)]
  /\ task_pending \in [Proc -> BOOLEAN]
  /\ dispatch_event \in [Proc -> BOOLEAN]
  /\ received_replies \in [Proc -> Seq(QueuedReply)]
  /\ dispatch_watcher \in [Proc -> [Proc -> {"armed", "posted", "off"}]]
  /\ send_done_watcher \in [Proc -> SUBSET SendRef]
  /\ listener_loop \in [Proc -> Seq(ListenerTask)]
  /\ ipc_loop \in [Proc -> Seq(IpcTask)]
  /\ queueing \in [Proc -> {"no", "signal", "signal and post", "post"}]
  /\ timers \in [Proc -> SUBSET SendRef]
  /\ listener \in [Proc -> [Proc -> BOOLEAN]]
  /\ connected \in [Proc -> [Proc -> BOOLEAN]]
  /\ pipe \in [Proc -> [Proc -> Seq(Message)]]
  /\ shutdown_event \in [Proc -> BOOLEAN]
  /\ answered \subseteq Proc \X Proc \X Nat

\* The channels are open: OnChannelOpened has run in every process.
Init ==
  /\ alive = [p \in Proc |-> TRUE]
  /\ stack = [p \in Proc |-> <<>>]
  /\ next_id = [p \in Proc |-> 1]
  /\ deserializers = [p \in Proc |-> [q \in Proc |-> <<>>]]
  /\ message_queue = [p \in Proc |-> <<>>]
  /\ task_pending = [p \in Proc |-> FALSE]
  /\ dispatch_event = [p \in Proc |-> FALSE]
  /\ received_replies = [p \in Proc |-> <<>>]
  /\ dispatch_watcher = [p \in Proc |->
       [q \in Proc |-> IF q \in Peers[p] THEN "armed" ELSE "off"]]
  /\ send_done_watcher = [p \in Proc |-> {}]
  /\ listener_loop = [p \in Proc |-> <<>>]
  /\ ipc_loop = [p \in Proc |-> <<>>]
  /\ queueing = [p \in Proc |-> "no"]
  /\ timers = [p \in Proc |-> {}]
  /\ listener = [p \in Proc |-> [q \in Proc |-> q \in Peers[p]]]
  /\ connected = [p \in Proc |-> [q \in Proc |-> q \in Peers[p]]]
  /\ pipe = [p \in Proc |-> [q \in Proc |-> <<>>]]
  /\ shutdown_event = [p \in Proc |-> FALSE]
  /\ answered = {}

----------------------------------------------------------------------------
(* Operators shared by the two threads.                                    *)

Top(p) == Last(stack[p])
TopAt(p) == IF stack[p] = <<>> THEN "loop" ELSE Top(p).at

\* The frame that runs on top of the stack moves on, is called, returns.
MoveTo(p, at) == stack' = [stack EXCEPT ![p][Len(stack[p])].at = at]
Enter(p, f) == stack' = [stack EXCEPT ![p] = Append(@, f)]
Return(p) == stack' = [stack EXCEPT ![p] = Front(@)]

\* The message loop runs at the bottom of the stack and in a pumping Send.
Looping(p) == alive[p] /\ TopAt(p) \in {"loop", "pump"}

\* Code of the application runs: a task of its own, or a message handler.
InApplication(p) == alive[p] /\ TopAt(p) \in {"loop", "pump"} \cup HandlerPoints

PostIpc(p, t) == ipc_loop' = [ipc_loop EXCEPT ![p] = Append(@, t)]

\* Stopping a WaitableEventWatcher: the callback already posted does nothing.
Cancelled(loop, kind, q) ==
  [i \in DOMAIN loop |->
     IF loop[i].kind = kind /\ loop[i].peer = q THEN Task("nop", q, 0) ELSE loop[i]]

\* done_event->Signal() for the sends that ds says are done: ds replaces the
\* context's deserializers_; a send being watched posts its callback.
SignalDone(p, q, ds, loop) ==
  LET fired == {w \in send_done_watcher[p] :
                  w.peer = q /\ \E i \in DOMAIN ds : ds[i].id = w.id /\ ds[i].done}
  IN  /\ deserializers' = [deserializers EXCEPT ![p][q] = ds]
      /\ send_done_watcher' = [send_done_watcher EXCEPT ![p] = @ \ fired]
      /\ listener_loop' = [listener_loop EXCEPT ![p] =
           IF fired = {} THEN loop
           ELSE Append(loop, Task("quit", q, (CHOOSE w \in fired : TRUE).id))]

\* SyncContext::CancelPendingSends
CancelPendingSends(p, q, loop) ==
  SignalDone(p, q, [i \in DOMAIN deserializers[p][q] |->
                      [deserializers[p][q][i] EXCEPT !.done = TRUE]], loop)

\* send_done_watcher.StartWatching(event of send w), for a loop of the listener
StartWatching(p, w, loop) ==
  LET done == \E i \in DOMAIN deserializers[p][w.peer] :
                 /\ deserializers[p][w.peer][i].id = w.id
                 /\ deserializers[p][w.peer][i].done
  IN  /\ send_done_watcher' = [send_done_watcher EXCEPT ![p] =
           IF done THEN {} ELSE {w}]
      /\ listener_loop' = [listener_loop EXCEPT ![p] =
           IF done THEN Append(loop, Task("quit", w.peer, w.id)) ELSE loop]

----------------------------------------------------------------------------
(* The listener thread: Send.                                              *)

\* SyncChannel::SendWithTimeout up to Push; a message that is not synchronous
\* goes to ChannelProxy::Send.
BeginSend(p, q, kind, timed, pumped) ==
  /\ InApplication(p) /\ listener[p][q] /\ next_id[p] <= MaxSends[p]
  /\ next_id' = [next_id EXCEPT ![p] = @ + 1]
  /\ IF kind = "async"
     THEN PostIpc(p, SendTask(q, Request(kind, next_id[p]))) /\ UNCHANGED stack
     ELSE /\ IF shutdown_event[p]
             THEN UNCHANGED stack
             ELSE Enter(p, [at |-> "push", peer |-> q, id |-> next_id[p],
                            timed |-> timed, pumped |-> pumped])
          /\ UNCHANGED ipc_loop
  /\ UNCHANGED <<deserializers, listener, dispatch_watcher, queueVars, worldVars,
                 listener_loop, queueing, timers, send_done_watcher>>

\* SyncContext::Push
PushSend(p) ==
  /\ alive[p] /\ TopAt(p) = "push"
  /\ deserializers' = [deserializers EXCEPT ![p][Top(p).peer] =
       Append(@, [id |-> Top(p).id, done |-> FALSE, result |-> FALSE])]
  /\ MoveTo(p, "post")
  /\ UNCHANGED <<next_id, listener, dispatch_watcher, queueVars, loopVars, worldVars>>

\* Variant: only a Send that is not nested gets its delayed task.
PostSendTimedIfOutermost(p) ==
  /\ alive[p] /\ TopAt(p) = "post"
  /\ PostIpc(p, SendTask(Top(p).peer, Request("sync", Top(p).id)))
  /\ timers' = [timers EXCEPT ![p] =
       IF Top(p).timed /\ Len(stack[p]) = 1
       THEN @ \cup {Ref(Top(p).peer, Top(p).id)} ELSE @]
  /\ MoveTo(p, "wait")
  /\ UNCHANGED <<next_id, deserializers, listener, dispatch_watcher, queueVars,
                 listener_loop, queueing, send_done_watcher, worldVars>>

\* ChannelProxy::Send, then the delayed task if there is a timeout.
PostSend(p) ==
  /\ alive[p] /\ TopAt(p) = "post"
  /\ PostIpc(p, SendTask(Top(p).peer, Request("sync", Top(p).id)))
  /\ timers' = [timers EXCEPT ![p] =
       IF Top(p).timed THEN @ \cup {Ref(Top(p).peer, Top(p).id)} ELSE @]
  /\ MoveTo(p, "wait")
  /\ UNCHANGED <<next_id, deserializers, listener, dispatch_watcher, queueVars,
                 listener_loop, queueing, send_done_watcher, worldVars>>

\* The entry whose event SyncContext::GetSendDoneEvent returns.
SendDoneEntry(p) == Last(deserializers[p][Top(p).peer])

\* WaitForReply: WaitMany returns the send done event.
WaitReturnsDone(p) ==
  /\ alive[p] /\ TopAt(p) = "wait"
  /\ SendDoneEntry(p).done
  /\ MoveTo(p, "pop")
  /\ UNCHANGED <<next_id, deserializers, listener, dispatch_watcher, queueVars,
                 loopVars, worldVars>>

\* WaitForReply: WaitMany returns the dispatch event, which is reset before
\* DispatchMessages is called.
WaitReturnsDispatch(p) ==
  /\ alive[p] /\ TopAt(p) = "wait"
  /\ dispatch_event[p]
  /\ dispatch_event' = [dispatch_event EXCEPT ![p] = FALSE]
  /\ Enter(p, Call("dispatch", p, 0))
  /\ UNCHANGED <<next_id, deserializers, listener, dispatch_watcher, message_queue,
                 task_pending, received_replies, loopVars, worldVars>>

\* Variant: the callback that the watcher below has posted is not cancelled.
WaitReturnsPumpKeepingQuit(p) ==
  /\ alive[p] /\ TopAt(p) = "wait" /\ Top(p).pumped
  /\ MoveTo(p, "pump")
  /\ StartWatching(p, Ref(Top(p).peer, SendDoneEntry(p).id), listener_loop[p])
  /\ UNCHANGED <<next_id, deserializers, listener, dispatch_watcher, queueVars,
                 ipc_loop, queueing, timers, worldVars>>

\* WaitForReply: WaitMany returns the pump event, which is always signaled, and
\* WaitForReplyWithNestedMessageLoop replaces the watcher of the send below.
WaitReturnsPump(p) ==
  /\ alive[p] /\ TopAt(p) = "wait" /\ Top(p).pumped
  /\ MoveTo(p, "pump")
  /\ LET stopped == {i \in DOMAIN stack[p] : stack[p][i].at = "pump"}
         loop == [i \in DOMAIN listener_loop[p] |->
                    IF listener_loop[p][i].kind = "quit"
                    THEN Task("nop", listener_loop[p][i].peer, 0)
                    ELSE listener_loop[p][i]]
     IN  StartWatching(p, Ref(Top(p).peer, SendDoneEntry(p).id),
                       IF stopped = {} THEN listener_loop[p] ELSE loop)
  /\ UNCHANGED <<next_id, deserializers, listener, dispatch_watcher, queueVars,
                 ipc_loop, queueing, timers, worldVars>>

\* Variant: the first entry is taken.
PopSendFromFront(p) ==
  /\ alive[p] /\ TopAt(p) = "pop"
  /\ deserializers' = [deserializers EXCEPT ![p][Top(p).peer] = Tail(@)]
  /\ PostIpc(p, IpcCall("replies", p))
  /\ Return(p)
  /\ UNCHANGED <<next_id, listener, dispatch_watcher, queueVars, listener_loop,
                 queueing, timers, send_done_watcher, worldVars>>

\* Variant: DispatchReplies is not posted.
PopSendOnly(p) ==
  /\ alive[p] /\ TopAt(p) = "pop"
  /\ deserializers' = [deserializers EXCEPT ![p][Top(p).peer] = Front(@)]
  /\ Return(p)
  /\ UNCHANGED <<next_id, listener, dispatch_watcher, queueVars, listener_loop,
                 ipc_loop, queueing, timers, send_done_watcher, worldVars>>

\* SyncContext::Pop and the return of Send: it takes the context's last entry
\* and posts DispatchReplies.
PopSend(p) ==
  /\ alive[p] /\ TopAt(p) = "pop"
  /\ deserializers' = [deserializers EXCEPT ![p][Top(p).peer] = Front(@)]
  /\ PostIpc(p, IpcCall("replies", p))
  /\ Return(p)
  /\ UNCHANGED <<next_id, listener, dispatch_watcher, queueVars, listener_loop,
                 queueing, timers, send_done_watcher, worldVars>>

----------------------------------------------------------------------------
(* The listener thread: dispatching.                                       *)

\* One round of the loop in ReceivedSyncMsgQueue::DispatchMessages; the
\* context drops the message if its listener_ is gone.
DispatchMessage(p) ==
  /\ alive[p] /\ TopAt(p) = "dispatch"
  /\ IF message_queue[p] = <<>>
     THEN Return(p) /\ UNCHANGED message_queue
     ELSE LET m == Head(message_queue[p])
          IN  /\ message_queue' = [message_queue EXCEPT ![p] = Tail(@)]
              /\ IF listener[p][m.peer] THEN Enter(p, Call("sync", m.peer, m.id))
                                        ELSE UNCHANGED stack
  /\ UNCHANGED <<next_id, deserializers, listener, dispatch_watcher, task_pending,
                 dispatch_event, received_replies, loopVars, worldVars>>

\* The handler returns.  The handler of a synchronous message has sent its
\* reply, an error unless ok, if the SyncChannel still exists.
FinishHandler(p, ok) ==
  /\ alive[p] /\ TopAt(p) \in HandlerPoints
  /\ LET q == Top(p).peer
     IN  IF TopAt(p) = "sync" /\ listener[p][q]
         THEN /\ PostIpc(p, SendTask(q, Reply(Top(p).id, ok)))
              /\ answered' = IF ok THEN answered \cup {<<q, p, Top(p).id>>} ELSE answered
         ELSE UNCHANGED <<ipc_loop, answered>>
  /\ Return(p)
  /\ UNCHANGED <<next_id, deserializers, listener, dispatch_watcher, queueVars,
                 listener_loop, queueing, timers, send_done_watcher,
                 alive, connected, pipe, shutdown_event>>

\* The message loop runs the next task t of the listener thread.
NextTask(p) == Head(listener_loop[p])
TakeTask(p) == listener_loop' = [listener_loop EXCEPT ![p] = Tail(@)]

\* Variant: task_pending_ is not reset.
RunDispatchTaskOnce(p) ==
  /\ NextTask(p).kind = "dispatch"
  /\ TakeTask(p)
  /\ Enter(p, Call("dispatch", p, 0))
  /\ UNCHANGED <<task_pending, dispatch_watcher, dispatch_event, send_done_watcher>>

\* ReceivedSyncMsgQueue::DispatchMessagesTask
RunDispatchTask(p) ==
  /\ NextTask(p).kind = "dispatch"
  /\ TakeTask(p)
  /\ task_pending' = [task_pending EXCEPT ![p] = FALSE]
  /\ Enter(p, Call("dispatch", p, 0))
  /\ UNCHANGED <<dispatch_watcher, dispatch_event, send_done_watcher>>

\* SyncChannel::OnWaitableEventSignaled: the event is reset and watched again
\* before the messages are dispatched.
RunWatchTask(p) ==
  /\ NextTask(p).kind = "watch"
  /\ TakeTask(p)
  /\ dispatch_event' = [dispatch_event EXCEPT ![p] = FALSE]
  /\ dispatch_watcher' = [dispatch_watcher EXCEPT ![p][NextTask(p).peer] = "armed"]
  /\ Enter(p, Call("dispatch", p, 0))
  /\ UNCHANGED <<task_pending, send_done_watcher>>

\* Variant: the pumping send below is not watched again.
RunQuitTaskOnly(p) ==
  /\ NextTask(p).kind = "quit" /\ TopAt(p) = "pump"
  /\ MoveTo(p, "pop")
  /\ TakeTask(p)
  /\ send_done_watcher' = [send_done_watcher EXCEPT ![p] = {}]
  /\ UNCHANGED <<task_pending, dispatch_event, dispatch_watcher>>

\* SyncContext::OnWaitableEventSignaled quits the innermost loop, and
\* WaitForReplyWithNestedMessageLoop watches the pumping send below again.
RunQuitTask(p) ==
  /\ NextTask(p).kind = "quit" /\ TopAt(p) = "pump"
  /\ MoveTo(p, "pop")
  /\ LET below == {i \in DOMAIN Front(stack[p]) : stack[p][i].at = "pump"}
     IN  IF below = {}
         THEN TakeTask(p) /\ send_done_watcher' = [send_done_watcher EXCEPT ![p] = {}]
         ELSE \E i \in below :
                /\ \A j \in below : j <= i
                /\ StartWatching(p, Ref(stack[p][i].peer, stack[p][i].id),
                                 Tail(listener_loop[p]))
  /\ UNCHANGED <<task_pending, dispatch_event, dispatch_watcher>>

\* ChannelProxy::Context::OnDispatchMessage, or a stopped callback.
RunOtherTask(p) ==
  /\ NextTask(p).kind \in {"message", "nop"}
  /\ TakeTask(p)
  /\ IF NextTask(p).kind = "message" /\ listener[p][NextTask(p).peer]
     THEN Enter(p, Call("async", NextTask(p).peer, NextTask(p).id))
     ELSE UNCHANGED stack
  /\ UNCHANGED <<task_pending, dispatch_event, dispatch_watcher, send_done_watcher>>

RunTask(p) ==
  /\ Looping(p) /\ listener_loop[p] # <<>>
  /\ RunDispatchTask(p) \/ RunWatchTask(p) \/ RunQuitTask(p) \/ RunOtherTask(p)
  /\ UNCHANGED <<next_id, deserializers, listener, message_queue, received_replies,
                 ipc_loop, queueing, timers, worldVars>>

\* ~SyncChannel: dispatch_watcher_ stops, then ChannelProxy::Close calls
\* SyncContext::Clear (CancelPendingSends, RemoveContext, listener_ = NULL) and
\* posts OnChannelClosed.  kept are the places of the messages that stay queued.
CloseChannel(p, q) ==
  /\ InApplication(p) /\ p \in Closers /\ listener[p][q]
  /\ dispatch_watcher' = [dispatch_watcher EXCEPT ![p][q] = "off"]
  /\ CancelPendingSends(p, q, Cancelled(listener_loop[p], "watch", q))
  /\ \E kept \in SetToSeqs({i \in DOMAIN message_queue[p] : message_queue[p][i].peer # q}) :
       /\ \A i, j \in DOMAIN kept : i < j => kept[i] < kept[j]
       /\ message_queue' = [message_queue EXCEPT ![p] =
            [i \in DOMAIN kept |-> @[kept[i]]]]
  /\ listener' = [listener EXCEPT ![p][q] = FALSE]
  /\ PostIpc(p, IpcCall("closed", q))
  /\ UNCHANGED <<stack, next_id, task_pending, dispatch_event, received_replies,
                 queueing, timers, worldVars>>

----------------------------------------------------------------------------
(* The IPC thread.  It reads pipes and runs tasks one at a time; only       *)
(* QueueMessage takes several steps that the listener thread can see.       *)

IpcFree(p) == alive[p] /\ queueing[p] = "no"
NextIpcTask(p) == Head(ipc_loop[p])
TakeIpcTask(p) == ipc_loop' = [ipc_loop EXCEPT ![p] = Tail(@)]

\* Variant: the pending sends are left alone.
DisconnectOnly(p, q) ==
  /\ connected' = [connected EXCEPT ![p][q] = FALSE]
  /\ pipe' = [pipe EXCEPT ![q][p] = <<>>]
  /\ UNCHANGED <<deserializers, send_done_watcher, listener_loop>>

\* Channel::Close on an error or by OnChannelClosed, with CancelPendingSends:
\* what the peer wrote and this process has not read is lost.
Disconnect(p, q) ==
  /\ connected' = [connected EXCEPT ![p][q] = FALSE]
  /\ pipe' = [pipe EXCEPT ![q][p] = <<>>]
  /\ CancelPendingSends(p, q, listener_loop[p])

\* Variant: a message that cannot be sent is dropped in silence.
RunSendTaskDropping(p) ==
  LET t == NextIpcTask(p)
  IN  /\ t.kind = "send"
      /\ pipe' = IF connected[p][t.peer] /\ connected[t.peer][p]
                 THEN [pipe EXCEPT ![p][t.peer] = Append(@, t.msg)] ELSE pipe
      /\ UNCHANGED <<connected, deserializers, send_done_watcher, listener_loop,
                     received_replies>>

\* Context::OnSendMessage: without a channel, or if Channel::Send fails because
\* a pipe end is closed, the pending sends are cancelled.  (ChannelPosix has the
\* Send that a closed channel accepts, because a write was blocked.)
RunSendTask(p) ==
  LET t == NextIpcTask(p)
  IN  /\ t.kind = "send"
      /\ IF connected[p][t.peer] /\ connected[t.peer][p]
         THEN /\ pipe' = [pipe EXCEPT ![p][t.peer] = Append(@, t.msg)]
              /\ UNCHANGED <<connected, deserializers, send_done_watcher, listener_loop>>
         ELSE Disconnect(p, t.peer)
      /\ UNCHANGED received_replies

\* Variant: any reply answers the context's last send.
UnblocksAny(p, q, m) == deserializers[p][q] # <<>> /\ m.kind = "reply"

\* SyncContext::TryToUnblockListener(m): m answers the context's last send.
Unblocks(p, q, m) ==
  /\ deserializers[p][q] # <<>>
  /\ m.kind = "reply" /\ m.id = Last(deserializers[p][q]).id

\* send_result is what the deserializer returns, FALSE for an error reply.
UnblockListener(p, q, m) ==
  LET ds == deserializers[p][q]
  IN  SignalDone(p, q, [ds EXCEPT ![Len(ds)].done = TRUE,
                                  ![Len(ds)].result = IF m.ok THEN TRUE ELSE @],
                 listener_loop[p])

\* ReceivedSyncMsgQueue::DispatchReplies: the first reply that unblocks a send
\* is consumed.
Deliverable(p) == {i \in DOMAIN received_replies[p] :
  Unblocks(p, received_replies[p][i].peer, received_replies[p][i].msg)}

RunDispatchReplies(p) ==
  /\ NextIpcTask(p).kind = "replies"
  /\ IF Deliverable(p) = {}
     THEN UNCHANGED <<received_replies, deserializers, send_done_watcher, listener_loop>>
     ELSE \E i \in Deliverable(p) :
            /\ \A j \in Deliverable(p) : i <= j
            /\ UnblockListener(p, received_replies[p][i].peer, received_replies[p][i].msg)
            /\ received_replies' = [received_replies EXCEPT ![p] = RemoveAt(@, i)]
  /\ UNCHANGED <<connected, pipe>>

\* SyncContext::OnChannelClosed
RunCloseTask(p) ==
  /\ NextIpcTask(p).kind = "closed"
  /\ Disconnect(p, NextIpcTask(p).peer)
  /\ UNCHANGED received_replies

\* SyncContext::OnWaitableEventSignaled(shutdown_event_); shutdown_watcher_ was
\* stopped if the channel is gone.
RunShutdownTask(p) ==
  /\ NextIpcTask(p).kind = "shutdown"
  /\ IF connected[p][NextIpcTask(p).peer]
     THEN CancelPendingSends(p, NextIpcTask(p).peer, listener_loop[p])
     ELSE UNCHANGED <<deserializers, send_done_watcher, listener_loop>>
  /\ UNCHANGED <<connected, pipe, received_replies>>

RunIpcTask(p) ==
  /\ IpcFree(p) /\ ipc_loop[p] # <<>>
  /\ TakeIpcTask(p)
  /\ RunSendTask(p) \/ RunDispatchReplies(p) \/ RunCloseTask(p) \/ RunShutdownTask(p)
  /\ UNCHANGED <<stack, next_id, listener, dispatch_watcher, message_queue, task_pending,
                 dispatch_event, queueing, timers, alive, shutdown_event, answered>>

\* SyncContext::OnSendTimeout, a delayed task.
RunTimeout(p, w) ==
  /\ IpcFree(p) /\ w \in timers[p]
  /\ timers' = [timers EXCEPT ![p] = @ \ {w}]
  /\ SignalDone(p, w.peer,
       [i \in DOMAIN deserializers[p][w.peer] |->
          [deserializers[p][w.peer][i] EXCEPT !.done = @ \/ deserializers[p][w.peer][i].id = w.id]],
       listener_loop[p])
  /\ UNCHANGED <<stack, next_id, listener, dispatch_watcher, queueVars, ipc_loop,
                 queueing, worldVars>>

\* SyncContext::OnMessageReceived: a reply unblocks the listener or is kept; a
\* synchronous message is queued (QueueMessage, under message_lock_); any other
\* is posted to the listener.
Receive(p, q) ==
  /\ IpcFree(p) /\ connected[p][q] /\ pipe[q][p] # <<>>
  /\ pipe' = [pipe EXCEPT ![q][p] = Tail(@)]
  /\ LET m == Head(pipe[q][p])
     IN  \/ /\ Unblocks(p, q, m)
            /\ UnblockListener(p, q, m)
            /\ UNCHANGED <<message_queue, task_pending, queueing, received_replies>>
         \/ /\ ~Unblocks(p, q, m) /\ m.kind = "sync"
            /\ queueing' = [queueing EXCEPT ![p] =
                 IF task_pending[p] THEN "signal" ELSE "signal and post"]
            /\ task_pending' = [task_pending EXCEPT ![p] = TRUE]
            /\ message_queue' = [message_queue EXCEPT ![p] = Append(@, Ref(q, m.id))]
            /\ UNCHANGED <<received_replies, deserializers, send_done_watcher, listener_loop>>
         \/ /\ ~Unblocks(p, q, m) /\ m.kind = "reply"
            /\ received_replies' = [received_replies EXCEPT ![p] =
                 Append(@, [peer |-> q, msg |-> m])]
            /\ UNCHANGED <<message_queue, task_pending, queueing, deserializers,
                           send_done_watcher, listener_loop>>
         \/ /\ m.kind = "async"
            /\ listener_loop' = [listener_loop EXCEPT ![p] =
                 Append(@, Task("message", q, m.id))]
            /\ UNCHANGED <<message_queue, task_pending, queueing, received_replies,
                           deserializers, send_done_watcher>>
  /\ UNCHANGED <<stack, next_id, listener, dispatch_watcher, dispatch_event, ipc_loop,
                 timers, alive, connected, shutdown_event, answered>>

\* Variant: the event resets itself when it has released a watcher.
SignalAutoResetEvent(p) ==
  /\ alive[p] /\ queueing[p] \in {"signal", "signal and post"}
  /\ LET armed == {q \in Proc : dispatch_watcher[p][q] = "armed"}
     IN  /\ dispatch_event' = [dispatch_event EXCEPT ![p] = @ \/ armed = {}]
         /\ \E order \in SetToSeqs(armed) :
              listener_loop' = [listener_loop EXCEPT ![p] =
                @ \o [i \in DOMAIN order |-> Task("watch", order[i], 0)]]
         /\ dispatch_watcher' = [dispatch_watcher EXCEPT ![p] =
              [q \in Proc |-> IF q \in armed THEN "posted" ELSE @[q]]]
  /\ queueing' = [queueing EXCEPT ![p] = IF @ = "signal" THEN "no" ELSE "post"]
  /\ UNCHANGED <<stack, next_id, deserializers, listener, message_queue, task_pending,
                 received_replies, ipc_loop, timers, send_done_watcher, worldVars>>

\* QueueMessage: dispatch_event_.Signal(), which fires the dispatch watchers.
SignalDispatchEvent(p) ==
  /\ alive[p] /\ queueing[p] \in {"signal", "signal and post"}
  /\ dispatch_event' = [dispatch_event EXCEPT ![p] = TRUE]
  /\ LET armed == {q \in Proc : dispatch_watcher[p][q] = "armed"}
     IN  /\ \E order \in SetToSeqs(armed) :
              listener_loop' = [listener_loop EXCEPT ![p] =
                @ \o [i \in DOMAIN order |-> Task("watch", order[i], 0)]]
         /\ dispatch_watcher' = [dispatch_watcher EXCEPT ![p] =
              [q \in Proc |-> IF q \in armed THEN "posted" ELSE @[q]]]
  /\ queueing' = [queueing EXCEPT ![p] = IF @ = "signal" THEN "no" ELSE "post"]
  /\ UNCHANGED <<stack, next_id, deserializers, listener, message_queue, task_pending,
                 received_replies, ipc_loop, timers, send_done_watcher, worldVars>>

\* QueueMessage: PostTask(DispatchMessagesTask).
PostDispatchTask(p) ==
  /\ alive[p] /\ queueing[p] = "post"
  /\ queueing' = [queueing EXCEPT ![p] = "no"]
  /\ listener_loop' = [listener_loop EXCEPT ![p] = Append(@, Task("dispatch", p, 0))]
  /\ UNCHANGED <<listenerVars, queueVars, ipc_loop, timers, send_done_watcher, worldVars>>

\* The channel reads the end of the pipe: SyncContext::OnChannelError.
ReadError(p, q) ==
  /\ IpcFree(p) /\ connected[p][q] /\ ~connected[q][p] /\ pipe[q][p] = <<>>
  /\ Disconnect(p, q)
  /\ UNCHANGED <<stack, next_id, listener, dispatch_watcher, queueVars, ipc_loop,
                 queueing, timers, alive, shutdown_event, answered>>

----------------------------------------------------------------------------
(* The environment.                                                        *)

\* Another thread signals the shutdown event: shutdown_watcher_ of every open
\* channel posts its callback to the IPC thread.
Shutdown(p) ==
  /\ alive[p] /\ p \in ShutDowners /\ ~shutdown_event[p]
  /\ shutdown_event' = [shutdown_event EXCEPT ![p] = TRUE]
  /\ \E order \in SetToSeqs({q \in Proc : connected[p][q]}) :
       ipc_loop' = [ipc_loop EXCEPT ![p] =
         @ \o [i \in DOMAIN order |-> IpcCall("shutdown", order[i])]]
  /\ UNCHANGED <<listenerVars, queueVars, listener_loop, queueing, timers,
                 send_done_watcher, alive, connected, pipe, answered>>

\* The process dies: its ends of the pipes close.
Crash(p) ==
  /\ alive[p] /\ p \in Crashers
  /\ alive' = [alive EXCEPT ![p] = FALSE]
  /\ connected' = [connected EXCEPT ![p] = [q \in Proc |-> FALSE]]
  /\ UNCHANGED <<listenerVars, queueVars, loopVars, pipe, shutdown_event, answered>>

----------------------------------------------------------------------------
SendStep(p) ==
  \/ PushSend(p) \/ PostSend(p) \/ WaitReturnsDone(p) \/ WaitReturnsDispatch(p)
  \/ WaitReturnsPump(p) \/ PopSend(p)

IpcStep(p) ==
  \/ RunIpcTask(p) \/ SignalDispatchEvent(p) \/ PostDispatchTask(p)
  \/ \E q \in Proc : Receive(p, q) \/ ReadError(p, q)

Next ==
  \E p \in Proc :
    \/ \E q \in Proc, kind \in SendKinds, timed \in Timed, pumped \in Pumped :
         BeginSend(p, q, kind, timed, pumped)
    \/ SendStep(p)
    \/ DispatchMessage(p) \/ RunTask(p)
    \/ \E ok \in Outcomes : FinishHandler(p, ok)
    \/ \E q \in Proc : CloseChannel(p, q)
    \/ IpcStep(p)
    \/ \E w \in timers[p] : RunTimeout(p, w)
    \/ Shutdown(p) \/ Crash(p)

Spec == Init /\ [][Next]_vars

----------------------------------------------------------------------------
(* Safety.                                                                 *)

InStack(p, at) == \E i \in DOMAIN stack[p] : stack[p][i].at = at

\* PopSend takes deserializers_.back() without looking at its id: whenever a
\* Send that has been pushed is on top of the stack, that entry is its own,
\* although handlers it ran, of any channel, may have sent in between.
SendOwnsLastEntry ==
  \A p \in Proc : TopAt(p) \in SendPoints \ {"push"} =>
    /\ deserializers[p][Top(p).peer] # <<>>
    /\ SendDoneEntry(p).id = Top(p).id

\* A Send reports success only if the peer's handler answered this very
\* message: a late, early or queued reply of another Send never completes it.
SuccessWasAnswered ==
  \A p, q \in Proc : \A i \in DOMAIN deserializers[p][q] :
    deserializers[p][q][i].result =>
      <<p, q, deserializers[p][q][i].id>> \in answered

\* A queued reply of the Send that now blocks its context is not forgotten:
\* the IPC thread still has a DispatchReplies to run, posted by a Pop.
QueuedReplyIsCarried ==
  \A p \in Proc : \A i \in Deliverable(p) :
    \/ Last(deserializers[p][received_replies[p][i].peer]).done
    \/ \E k \in DOMAIN ipc_loop[p] : ipc_loop[p][k].kind = "replies"

\* task_pending_ saves posting a second DispatchMessagesTask, and never the
\* last one: a queued message is about to be posted, has a task in the
\* listener's loop, or a DispatchMessages in progress will take it.
QueuedMessageHasDispatcher ==
  \A p \in Proc : message_queue[p] # <<>> =>
    \/ queueing[p] # "no"
    \/ \E i \in DOMAIN listener_loop[p] : listener_loop[p][i].kind = "dispatch"
    \/ InStack(p, "dispatch")

\* A blocked Send does not sleep on a queued message: dispatch_event_ is set or
\* about to be, unless a DispatchMessages below, whose handler made this Send,
\* was already taking the queue.
BlockedSendIsWoken ==
  \A p \in Proc : TopAt(p) = "wait" /\ message_queue[p] # <<>> =>
    \/ dispatch_event[p]
    \/ queueing[p] \in {"signal", "signal and post"}
    \/ InStack(p, "dispatch")

\* DCHECK(event == GetSendDoneEvent()): when a send_done_watcher's callback
\* runs, the send it watched is the one whose nested loop is innermost, and
\* owns the last entry of its context.
QuitIsForInnermostSend ==
  \A p \in Proc : Looping(p) /\ listener_loop[p] # <<>> /\ NextTask(p).kind = "quit" =>
    /\ TopAt(p) = "pump"
    /\ Ref(Top(p).peer, Top(p).id) = Ref(NextTask(p).peer, NextTask(p).id)
    /\ SendDoneEntry(p).id = NextTask(p).id

----------------------------------------------------------------------------
(* Liveness.                                                               *)

\* The operating system schedules both threads of every process and delivers
\* what is in the pipes and the end of a closed pipe.
ThreadFairness(p) ==
  /\ WF_vars(SendStep(p))
  /\ WF_vars(DispatchMessage(p))
  /\ WF_vars(RunTask(p))
  /\ WF_vars(IpcStep(p))

\* A timeout expires.
TimeoutFairness(p) == WF_vars(\E w \in timers[p] : RunTimeout(p, w))

\* Handlers may take forever: what is left is the channel's own work.
HandlersMayHangSpec ==
  /\ Spec
  /\ \A p \in Proc : ThreadFairness(p) /\ TimeoutFairness(p)

\* A Send with a timeout that is on top of the stack stops waiting, even if
\* the peer never answers.
TimedSendReturns ==
  \A p \in Proc :
    (TopAt(p) = "wait" /\ Top(p).timed) ~> (TopAt(p) # "wait" \/ ~alive[p])

\* "Both these functions wait for a reply, timeout or process shutdown"
\* (ipc_sync_channel.h): a Send does not outlive the shutdown of its process.
ShutdownReleasesSends ==
  \A p \in Proc : (shutdown_event[p] /\ TopAt(p) = "wait")
                    ~> (TopAt(p) # "wait" \/ ~alive[p])

=============================================================================
