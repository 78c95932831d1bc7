--------------------------- MODULE ChannelFilters ---------------------------
(***************************************************************************)
(* IPC::ChannelProxy::Context with its filters (ipc/ipc_channel_proxy.cc)  *)
(* and IPC::SyncMessageFilter (ipc/ipc_sync_message_filter.cc), through    *)
(* which threads other than the listener's send synchronous messages.      *)
(*                                                                         *)
(* The listener thread owns the ChannelProxy and posts its calls to the    *)
(* IPC thread, which owns the channel and the list of filters; every task  *)
(* and every call of the channel on the IPC thread is one action, since    *)
(* what it shares with the workers is guarded by the filter's lock_.       *)
(* Every filter is a SyncMessageFilter: one that no worker uses is any     *)
(* filter that leaves the messages to the listener.  The channel is known  *)
(* by what its owner sees of it: whether it is open, and whether it is     *)
(* blocked on a write.                                                     *)
(*                                                                         *)
(* A definition marked "Variant" is a faulty version of the one after it.  *)
(***************************************************************************)
EXTENDS Naturals, FiniteSets, Sequences, SequencesExt

CONSTANTS
  Filters,       \* the message filters
  Workers,       \* the threads that send through a filter
  CreateNow,     \* the values of create_pipe_now: a subset of BOOLEAN
  Blocking,      \* whether a write may block: a subset of BOOLEAN
  Outcomes,      \* whether a reply is no error: a subset of BOOLEAN
  MaxSends,      \* bound on the messages the workers send
  MaxPosts,      \* bound on the messages sent by the listener thread
  MaxIncoming    \* bound on the messages of the peer that are no replies

ASSUME ConstantsOK ==
  /\ IsFiniteSet(Filters) /\ IsFiniteSet(Workers)
  /\ CreateNow \subseteq BOOLEAN /\ CreateNow # {}
  /\ Blocking \subseteq BOOLEAN /\ Outcomes \subseteq BOOLEAN
  /\ MaxSends \in Nat /\ MaxPosts \in Nat /\ MaxIncoming \in Nat

VARIABLES
  listener,      \* Context::listener_ # NULL
  called,        \* Context::channel_connected_called_
  listener_loop, \* tasks of the listener thread's MessageLoop
  client,        \* what the owner did with a filter: "new", "given", "taken"
  posts,         \* messages the listener thread has sent
  heard,         \* history: the calls of the listener
  ipc_loop,      \* tasks of the IPC thread's MessageLoop
  channel,       \* *channel_: "none", "made", "open", "closed" or "deleted"
  blocked,       \* Channel::is_blocked_on_write_
  filters,       \* Context::filters_
  told,          \* history: the notifications each filter got
  filter_channel,\* SyncMessageFilter::channel_ # NULL
  io_loop,       \* SyncMessageFilter::io_loop_ # NULL
  pending,       \* SyncMessageFilter::pending_sync_messages_
  at,            \* where a worker is in SyncMessageFilter::Send
  using,         \* the filter a worker sends through
  id,            \* the id of the message a worker sends
  done,          \* the worker's done_event is signaled
  result,        \* PendingSyncMsg::send_result
  next_id,       \* the next message id
  alive,         \* the peer's end of the pipe is open
  output,        \* ids of requests written and not yet read by the peer
  queued,        \* ids of requests in the channel's output_queue_
  input,         \* messages of the peer, not yet read
  incoming,      \* messages of the peer that were no replies
  answered,      \* history: ids of the requests the peer answered
  shutdown       \* the shutdown event is signaled

clientVars == <<listener, called, listener_loop, client, posts, heard>>
filterVars == <<filters, told, filter_channel, io_loop>>
workerVars == <<pending, at, using, id, done, result, next_id>>
peerVars == <<alive, output, input, incoming, answered>>
channelVars == <<channel, blocked, queued>>
vars == <<clientVars, ipc_loop, filterVars, workerVars, peerVars, channelVars, shutdown>>

----------------------------------------------------------------------------
Ids == 0 .. MaxSends
NoId == 0

\* Tasks of the IPC thread; SendOnIOThread carries the filter and the id of a
\* synchronous message.
IpcTask == [kind : {"create", "opened", "closed", "send", "add", "remove", "filter send"},
            filter : Filters \cup {"none"}, id : Ids]
Task(kind) == [kind |-> kind, filter |-> "none", id |-> NoId]
FilterTask(kind, f, i) == [kind |-> kind, filter |-> f, id |-> i]

Message == [kind : {"hello", "message", "reply"}, id : Ids, ok : BOOLEAN]
Plain(kind) == [kind |-> kind, id |-> NoId, ok |-> TRUE]
Reply(i, ok) == [kind |-> "reply", id |-> i, ok |-> ok]

Notification == {"added", "connected", "error", "closing", "removed"}
ListenerCall == {"connected", "message", "error"}

TypeOK ==
  /\ listener \in BOOLEAN /\ called \in BOOLEAN
  /\ listener_loop \in Seq(ListenerCall)
  /\ client \in [Filters -> {"new", "given", "taken"}]
  /\ posts \in 0 .. MaxPosts
  /\ heard \in Seq(ListenerCall)
  /\ ipc_loop \in Seq(IpcTask)
  /\ channel \in {"none", "made", "open", "closed", "deleted"}
  /\ blocked \in BOOLEAN
  /\ filters \in Seq(Filters)
  /\ told \in [Filters -> Seq(Notification)]
  /\ filter_channel \in [Filters -> BOOLEAN]
  /\ io_loop \in [Filters -> BOOLEAN]
  /\ pending \in [Filters -> SUBSET Workers]
  /\ at \in [Workers -> {"idle", "insert", "post", "wait", "erase"}]
  /\ using \in [Workers -> Filters \cup {"none"}]
  /\ id \in [Workers -> Ids]
  /\ done \in [Workers -> BOOLEAN]
  /\ result \in [Workers -> BOOLEAN]
  /\ next_id \in 1 .. MaxSends + 1
  /\ alive \in BOOLEAN
  /\ output \subseteq Ids /\ queued \subseteq Ids /\ answered \subseteq Ids
  /\ input \in Seq(Message)
  /\ incoming \in 0 .. MaxIncoming
  /\ shutdown \in BOOLEAN

\* Variant: the constructor keeps a filter that is NULL.
FirstFiltersWithNull == {<<"none">>} \cup {<<f>> : f \in Filters}

\* The constructor is given a filter or none.
FirstFilters == {<<>>} \cup {<<f>> : f \in Filters}

\* ChannelProxy::ChannelProxy and Init
Init ==
  /\ listener = TRUE /\ called = FALSE /\ listener_loop = <<>>
  /\ posts = 0 /\ heard = <<>>
  /\ \E now \in CreateNow :
       /\ channel = IF now THEN "made" ELSE "none"
       /\ ipc_loop = IF now THEN <<Task("opened")>> ELSE <<Task("create"), Task("opened")>>
  /\ blocked = FALSE
  /\ filters \in FirstFilters
  /\ client = [f \in Filters |-> IF f \in ToSet(filters) THEN "given" ELSE "new"]
  /\ told = [f \in Filters |-> <<>>]
  /\ filter_channel = [f \in Filters |-> FALSE]
  /\ io_loop = [f \in Filters |-> FALSE]
  /\ pending = [f \in Filters |-> {}]
  /\ at = [w \in Workers |-> "idle"]
  /\ using = [w \in Workers |-> "none"]
  /\ id = [w \in Workers |-> NoId]
  /\ done = [w \in Workers |-> FALSE]
  /\ result = [w \in Workers |-> FALSE]
  /\ next_id = 1
  /\ alive = TRUE /\ output = {} /\ queued = {} /\ answered = {}
  /\ input = <<Plain("hello")>> /\ incoming = 0
  /\ shutdown = FALSE

----------------------------------------------------------------------------
(* The owner of the ChannelProxy, on the listener thread.                  *)

PostIpc(task) == ipc_loop' = Append(ipc_loop, task)

\* ChannelProxy::AddFilter; a filter is given to a proxy once.
AddFilter(f) ==
  /\ client[f] = "new"
  /\ client' = [client EXCEPT ![f] = "given"]
  /\ PostIpc(FilterTask("add", f, NoId))
  /\ UNCHANGED <<listener, called, listener_loop, posts, heard, filterVars, workerVars,
                 peerVars, channelVars, shutdown>>

\* ChannelProxy::RemoveFilter, of a filter that was given.
RemoveFilter(f) ==
  /\ client[f] = "given"
  /\ client' = [client EXCEPT ![f] = "taken"]
  /\ PostIpc(FilterTask("remove", f, NoId))
  /\ UNCHANGED <<listener, called, listener_loop, posts, heard, filterVars, workerVars,
                 peerVars, channelVars, shutdown>>

\* ChannelProxy::Send
Send ==
  /\ posts < MaxPosts
  /\ posts' = posts + 1
  /\ PostIpc(Task("send"))
  /\ UNCHANGED <<listener, called, listener_loop, client, heard, filterVars, workerVars,
                 peerVars, channelVars, shutdown>>

\* ChannelProxy::Close, called once: Context::Clear and a task.
Close ==
  /\ listener
  /\ listener' = FALSE
  /\ PostIpc(Task("closed"))
  /\ UNCHANGED <<called, listener_loop, client, posts, heard, filterVars, workerVars,
                 peerVars, channelVars, shutdown>>

\* A call of the listener; repeated messages and errors are recorded once.
Heard(h, call) ==
  IF h # <<>> /\ Last(h) = call /\ call # "connected" THEN h ELSE Append(h, call)

\* Variant: the tasks do not look whether there still is a listener.
DispatchAnyway ==
  /\ listener_loop # <<>>
  /\ listener_loop' = Tail(listener_loop)
  /\ called' = TRUE
  /\ heard' = Heard(heard, Head(listener_loop))
  /\ UNCHANGED <<listener, client, posts, ipc_loop, filterVars, workerVars, peerVars,
                 channelVars, shutdown>>

\* Context::OnDispatchMessage, OnDispatchConnected and OnDispatchError.
Dispatch ==
  /\ listener_loop # <<>>
  /\ listener_loop' = Tail(listener_loop)
  /\ LET task == Head(listener_loop)
         announces == listener /\ ~called /\ task # "error"
         announced == IF announces THEN Append(heard, "connected") ELSE heard
     IN  /\ called' = (called \/ announces \/ task = "connected")
         /\ heard' = IF listener /\ task # "connected" THEN Heard(announced, task)
                                                       ELSE announced
  /\ UNCHANGED <<listener, client, posts, ipc_loop, filterVars, workerVars, peerVars,
                 channelVars, shutdown>>

----------------------------------------------------------------------------
(* The channel, as its owner sees it.                                      *)

\* Channel::Close: what was not written and what was not read is lost.
Shut(state) ==
  /\ channel' = state
  /\ queued' = {}
  /\ input' = <<>>

\* Channel::Send of the message with id i, which returns TRUE: it is written,
\* or is in output_queue_ because a write blocks, or, the channel being
\* closed while a write was blocked, will never be written.
Accept(i) ==
  /\ \/ channel = "open" /\ alive
     \/ blocked
  /\ \/ /\ ~blocked
        /\ output' = output \cup ({i} \ {NoId})
        /\ UNCHANGED <<blocked, queued>>
     \/ /\ blocked \/ TRUE \in Blocking
        /\ blocked' = TRUE
        /\ queued' = IF channel = "open" THEN queued \cup ({i} \ {NoId}) ELSE queued
        /\ UNCHANGED output
  /\ UNCHANGED <<channel, input>>

\* Channel::Send returns FALSE: the peer is gone, and the channel closes, or
\* is closed.
Refuse ==
  /\ ~blocked /\ (channel = "open" => ~alive)
  /\ Shut("closed")
  /\ UNCHANGED <<blocked, output>>

----------------------------------------------------------------------------
(* The IPC thread: Context.                                                *)

\* The filters fs get the notifications ns, in this order.
Tell(fs, ns) ==
  told' = [f \in Filters |-> IF f \in fs THEN told[f] \o ns ELSE told[f]]

\* SyncMessageFilter::SignalAllEvents of the filters fs.
SignalAllEvents(fs) ==
  done' = [w \in Workers |-> done[w] \/ \E f \in fs : w \in pending[f]]

\* SyncMessageFilter::OnFilterAdded
FilterAdded(fs) ==
  /\ filter_channel' = [f \in Filters |-> filter_channel[f] \/ f \in fs]
  /\ io_loop' = [f \in Filters |-> io_loop[f] \/ f \in fs]

\* Variant: the pending sends are left alone.
ForgetChannelOnly(fs) ==
  /\ filter_channel' = [f \in Filters |-> filter_channel[f] /\ f \notin fs]
  /\ UNCHANGED done

\* SyncMessageFilter::OnChannelError and OnChannelClosing
ForgetChannel(fs) ==
  /\ filter_channel' = [f \in Filters |-> filter_channel[f] /\ f \notin fs]
  /\ SignalAllEvents(fs)

\* Repeated errors are recorded once.
Unwarned == {f \in ToSet(filters) : told[f] = <<>> \/ Last(told[f]) # "error"}

\* Context::OnChannelError
OnChannelError ==
  /\ Tell(Unwarned, <<"error">>)
  /\ ForgetChannel(ToSet(filters))
  /\ listener_loop' = Append(listener_loop, "error")

NextTask == Head(ipc_loop)

\* Context::CreateChannel
CreateChannel ==
  /\ NextTask.kind = "create"
  /\ channel' = "made"
  /\ UNCHANGED <<blocked, queued, input, output, filterVars, done, listener_loop>>

\* Context::OnChannelOpened: Connect writes the first message, and fails if
\* the peer is gone.
OnChannelOpened ==
  /\ NextTask.kind = "opened"
  /\ \/ /\ alive
        /\ channel' = "open"
        /\ Tell(ToSet(filters), <<"added">>)
        /\ FilterAdded(ToSet(filters))
        /\ UNCHANGED <<queued, input, done, listener_loop>>
     \/ /\ ~alive
        /\ Shut("closed")
        /\ OnChannelError
        /\ UNCHANGED io_loop
  /\ UNCHANGED <<blocked, output, filters>>

\* Variant: SyncMessageFilter does not override OnChannelClosing.
OnChannelClosedUnheard ==
  /\ NextTask.kind = "closed"
  /\ IF channel \in {"none", "deleted"}
     THEN UNCHANGED <<channel, queued, input, filters, told>>
     ELSE /\ Tell(ToSet(filters), <<"closing", "removed">>)
          /\ filters' = <<>>
          /\ Shut("deleted")
  /\ UNCHANGED <<blocked, output, io_loop, listener_loop, filter_channel, done>>

\* Context::OnChannelClosed
OnChannelClosed ==
  /\ NextTask.kind = "closed"
  /\ IF channel \in {"none", "deleted"}
     THEN UNCHANGED <<channel, queued, input, filters, told, filter_channel, done>>
     ELSE /\ Tell(ToSet(filters), <<"closing", "removed">>)
          /\ ForgetChannel(ToSet(filters))
          /\ filters' = <<>>
          /\ Shut("deleted")
  /\ UNCHANGED <<blocked, output, io_loop, listener_loop>>

\* Context::OnSendMessage; without a channel, OnChannelClosed does nothing.
OnSendMessage ==
  /\ NextTask.kind = "send"
  /\ \/ /\ channel \in {"none", "deleted"}
        /\ UNCHANGED <<channelVars, input, output, told, filter_channel, done, listener_loop>>
     \/ /\ channel \in {"open", "closed"}
        /\ Accept(NoId)
        /\ UNCHANGED <<told, filter_channel, done, listener_loop>>
     \/ /\ channel \in {"open", "closed"}
        /\ Refuse
        /\ OnChannelError
  /\ UNCHANGED <<filters, io_loop>>

\* Context::OnAddFilter
OnAddFilter ==
  /\ NextTask.kind = "add"
  /\ filters' = Append(filters, NextTask.filter)
  /\ IF channel \in {"none", "deleted"}
     THEN UNCHANGED <<told, filter_channel, io_loop>>
     ELSE Tell({NextTask.filter}, <<"added">>) /\ FilterAdded({NextTask.filter})
  /\ UNCHANGED <<channelVars, input, output, done, listener_loop>>

\* Variant: the filter stays in the list.
OnRemoveFilterKeepingIt ==
  /\ NextTask.kind = "remove"
  /\ Tell(ToSet(filters) \cap {NextTask.filter}, <<"removed">>)
  /\ UNCHANGED <<filters, filter_channel, io_loop, channelVars, input, output, done,
                 listener_loop>>

\* Context::OnRemoveFilter; SyncMessageFilter does not override
\* OnFilterRemoved.  A filter that is not in the list is only reported.
OnRemoveFilter ==
  /\ NextTask.kind = "remove"
  /\ Tell(ToSet(filters) \cap {NextTask.filter}, <<"removed">>)
  /\ filters' = RemoveFirst(filters, NextTask.filter)
  /\ UNCHANGED <<filter_channel, io_loop, channelVars, input, output, done, listener_loop>>

\* Variant: a synchronous message without a channel is dropped.
SendOnIOThreadDropping ==
  /\ NextTask.kind = "filter send"
  /\ IF filter_channel[NextTask.filter] /\ channel \in {"open", "closed"}
     THEN Accept(NextTask.id) \/ Refuse
     ELSE UNCHANGED <<channelVars, input, output>>
  /\ UNCHANGED <<done, filterVars, listener_loop>>

\* SyncMessageFilter::SendOnIOThread: what the channel returns is ignored.  A
\* removed filter may use a deleted channel, and then anything may happen: here
\* the message is lost.
SendOnIOThread ==
  LET f == NextTask.filter
  IN  /\ NextTask.kind = "filter send"
      /\ \/ /\ filter_channel[f] /\ channel # "deleted"
            /\ Accept(NextTask.id) \/ Refuse
            /\ UNCHANGED done
         \/ /\ filter_channel[f] /\ channel = "deleted"
            /\ UNCHANGED <<channelVars, input, output, done>>
         \/ /\ ~filter_channel[f]
            /\ IF NextTask.id # NoId THEN SignalAllEvents({f}) ELSE UNCHANGED done
            /\ UNCHANGED <<channelVars, input, output>>
      /\ UNCHANGED <<filterVars, listener_loop>>

RunIpcTask ==
  /\ ipc_loop # <<>>
  /\ ipc_loop' = Tail(ipc_loop)
  /\ \/ CreateChannel \/ OnChannelOpened \/ OnChannelClosed \/ OnSendMessage
     \/ OnAddFilter \/ OnRemoveFilter \/ SendOnIOThread
  /\ UNCHANGED <<listener, called, client, posts, heard, pending, at, using, id, result,
                 next_id, alive, incoming, answered, shutdown>>

----------------------------------------------------------------------------
(* The IPC thread: calls of the channel.                                   *)

\* Variant: a filter takes any reply for its pending sends.
AskingAnything(f, m) == {w \in pending[f] : m.kind = "reply"}

\* SyncMessageFilter::OnMessageReceived: the sends of the filter that the
\* message answers.
Asking(f, m) == {w \in pending[f] : m.kind = "reply" /\ id[w] = m.id}

\* Context::OnMessageReceived with TryFilters, and OnChannelConnected for the
\* first message.
Receive ==
  /\ channel = "open" /\ input # <<>>
  /\ input' = Tail(input)
  /\ LET m == Head(input)
         asking == UNION {Asking(f, m) : f \in ToSet(filters)}
     IN  \/ /\ m.kind = "hello"
            /\ Tell(ToSet(filters), <<"connected">>)
            /\ listener_loop' = Append(listener_loop, "connected")
            /\ UNCHANGED <<done, result>>
         \/ /\ m.kind # "hello" /\ asking = {}
            /\ listener_loop' = Append(listener_loop, "message")
            /\ UNCHANGED <<told, done, result>>
         \/ /\ asking # {}
            /\ done' = [w \in Workers |-> done[w] \/ w \in asking]
            /\ result' = [w \in Workers |-> result[w] \/ (m.ok /\ w \in asking)]
            /\ UNCHANGED <<told, listener_loop>>
  /\ UNCHANGED <<listener, called, client, posts, heard, ipc_loop, filters, filter_channel,
                 io_loop, pending, at, using, id, next_id, alive, output, incoming, answered,
                 channelVars, shutdown>>

\* The channel reads the end of the pipe and closes; is_blocked_on_write_
\* stays as it is.
ReadError ==
  /\ channel = "open" /\ ~alive /\ input = <<>>
  /\ Shut("closed")
  /\ OnChannelError
  /\ UNCHANGED <<listener, called, client, posts, heard, ipc_loop, filters, io_loop, pending,
                 at, using, id, result, next_id, alive, output, incoming, answered, blocked,
                 shutdown>>

\* The pipe takes what was blocked, or the write fails.
Unblock ==
  /\ channel = "open" /\ blocked
  /\ blocked' = FALSE
  /\ \/ /\ alive
        /\ output' = output \cup queued
        /\ queued' = {}
        /\ UNCHANGED <<channel, input, told, filter_channel, done, listener_loop>>
     \/ /\ ~alive
        /\ Shut("closed")
        /\ OnChannelError
        /\ UNCHANGED output
  /\ UNCHANGED <<listener, called, client, posts, heard, ipc_loop, filters, io_loop, pending,
                 at, using, id, result, next_id, alive, incoming, answered, shutdown>>

----------------------------------------------------------------------------
(* The workers: SyncMessageFilter::Send.                                   *)

\* Without an io_loop_ the message is dropped; one that is not synchronous is
\* posted, and Send returns.
BeginSend(w, f, sync) ==
  /\ at[w] = "idle" /\ next_id <= MaxSends
  /\ next_id' = next_id + 1
  /\ IF io_loop[f] /\ sync
     THEN /\ at' = [at EXCEPT ![w] = "insert"]
          /\ using' = [using EXCEPT ![w] = f]
          /\ id' = [id EXCEPT ![w] = next_id]
          /\ done' = [done EXCEPT ![w] = FALSE]
          /\ result' = [result EXCEPT ![w] = FALSE]
          /\ UNCHANGED ipc_loop
     ELSE /\ IF io_loop[f] THEN PostIpc(FilterTask("filter send", f, NoId))
                           ELSE UNCHANGED ipc_loop
          /\ UNCHANGED <<at, using, id, done, result>>
  /\ UNCHANGED <<clientVars, filterVars, pending, peerVars, channelVars, shutdown>>

\* The entry, a variable of Send, is inserted under lock_.
InsertPending(w) ==
  /\ at[w] = "insert"
  /\ at' = [at EXCEPT ![w] = "post"]
  /\ pending' = [pending EXCEPT ![using[w]] = @ \cup {w}]
  /\ UNCHANGED <<clientVars, ipc_loop, filterVars, using, id, done, result, next_id,
                 peerVars, channelVars, shutdown>>

PostSend(w) ==
  /\ at[w] = "post"
  /\ at' = [at EXCEPT ![w] = "wait"]
  /\ PostIpc(FilterTask("filter send", using[w], id[w]))
  /\ UNCHANGED <<clientVars, filterVars, pending, using, id, done, result, next_id,
                 peerVars, channelVars, shutdown>>

\* WaitMany(shutdown_event_, done_event)
WaitReturns(w) ==
  /\ at[w] = "wait" /\ (done[w] \/ shutdown)
  /\ at' = [at EXCEPT ![w] = "erase"]
  /\ UNCHANGED <<clientVars, ipc_loop, filterVars, pending, using, id, done, result, next_id,
                 peerVars, channelVars, shutdown>>

\* Variant: the entry stays in the set when Send returns without a reply.
ErasePendingAnswered(w) ==
  /\ at[w] = "erase"
  /\ at' = [at EXCEPT ![w] = "idle"]
  /\ pending' = [pending EXCEPT ![using[w]] = IF done[w] THEN @ \ {w} ELSE @]
  /\ UNCHANGED <<clientVars, ipc_loop, filterVars, using, id, done, result, next_id,
                 peerVars, channelVars, shutdown>>

\* The entry is erased under lock_ and Send returns send_result.
ErasePending(w) ==
  /\ at[w] = "erase"
  /\ at' = [at EXCEPT ![w] = "idle"]
  /\ pending' = [pending EXCEPT ![using[w]] = @ \ {w}]
  /\ UNCHANGED <<clientVars, ipc_loop, filterVars, using, id, done, result, next_id,
                 peerVars, channelVars, shutdown>>

WorkerStep(w) == InsertPending(w) \/ PostSend(w) \/ WaitReturns(w) \/ ErasePending(w)

----------------------------------------------------------------------------
(* The environment.                                                        *)

\* The peer sends a message, or answers a request.
PeerSends ==
  /\ alive /\ channel = "open" /\ incoming < MaxIncoming
  /\ incoming' = incoming + 1
  /\ input' = Append(input, Plain("message"))
  /\ UNCHANGED <<clientVars, ipc_loop, filterVars, workerVars, alive, output, answered,
                 channelVars, shutdown>>

PeerAnswers(i, ok) ==
  /\ alive /\ i \in output
  /\ output' = output \ {i}
  /\ answered' = IF ok THEN answered \cup {i} ELSE answered
  /\ input' = IF channel = "open" THEN Append(input, Reply(i, ok)) ELSE input
  /\ UNCHANGED <<clientVars, ipc_loop, filterVars, workerVars, alive, incoming,
                 channelVars, shutdown>>

\* The peer closes its end, or dies.
PeerDies ==
  /\ alive
  /\ alive' = FALSE
  /\ UNCHANGED <<clientVars, ipc_loop, filterVars, workerVars, output, input, incoming,
                 answered, channelVars, shutdown>>

Shutdown ==
  /\ ~shutdown
  /\ shutdown' = TRUE
  /\ UNCHANGED <<clientVars, ipc_loop, filterVars, workerVars, peerVars, channelVars>>

IpcStep == RunIpcTask \/ Receive \/ ReadError \/ Unblock
PeerAnswer == \E i \in output, ok \in Outcomes : PeerAnswers(i, ok)

Next ==
  \/ \E f \in Filters : AddFilter(f) \/ RemoveFilter(f)
  \/ Send \/ Close \/ Dispatch
  \/ IpcStep
  \/ \E w \in Workers : WorkerStep(w) \/ \E f \in Filters, sync \in BOOLEAN : BeginSend(w, f, sync)
  \/ PeerSends \/ PeerAnswer \/ PeerDies \/ Shutdown

Spec == Init /\ [][Next]_vars

\* The operating system schedules the threads, and the peer answers what it
\* has read.
Fairness ==
  /\ WF_vars(IpcStep) /\ WF_vars(Dispatch) /\ WF_vars(PeerAnswer)
  /\ \A w \in Workers : WF_vars(WorkerStep(w))

FairSpec == Spec /\ Fairness

----------------------------------------------------------------------------
(* Properties.                                                             *)

\* The owner took the filter away before the channel closed.
Removed(f) == "removed" \in ToSet(told[f]) /\ "closing" \notin ToSet(told[f])

\* A filter is added before anything else it is told, unless the channel
\* failed first; it hears once that the peer is connected, and "After a filter
\* is removed, it will not be called again" (ipc_channel_proxy.h:66-68).
FilterLifeCycle ==
  \A f \in Filters : \A i \in DOMAIN told[f] :
    LET s == told[f]
    IN  /\ s[i] = "removed" => i = Len(s)
        /\ s[i] = "closing" => i + 1 = Len(s)
        /\ s[i] = "added" => i = 1
        /\ s[i] = "connected" => s[1] = "added" /\ \A j \in 1 .. i - 1 : s[j] # "connected"

\* The listener hears first, and once, that the peer is connected, unless the
\* channel fails before; and nothing after Close, whatever its loop still
\* holds: "pending calls to Context::OnDispatchMessage or OnDispatchError will
\* be ignored" (ipc_channel_proxy.cc:295-297).
ListenerHearsInOrder ==
  [][/\ ~listener => heard' = heard
     /\ \A i \in DOMAIN heard' :
          LET before == {heard'[j] : j \in 1 .. i - 1}
          IN  IF heard'[i] = "connected" THEN before \subseteq {"error"}
              ELSE heard'[i] = "error" \/ "connected" \in before]_vars

\* Only a filter that the owner removed keeps a channel that was deleted.
DeletedChannelIsForgotten ==
  channel = "deleted" => \A f \in Filters : filter_channel[f] => Removed(f)

\* An entry of pending_sync_messages_ is a variable of a Send that has not
\* returned, through that filter.
PendingEntryIsOnStack ==
  \A f \in Filters : \A w \in pending[f] :
    using[w] = f /\ at[w] \in {"post", "wait", "erase"}

\* A worker's Send reports success only if the peer answered its message.
ResultWasAnswered == \A w \in Workers : result[w] => id[w] \in answered

\* Nobody will tell the filter of w that the channel failed: the filter was
\* removed, or it was given a channel that had failed, or the channel failed
\* in a Send of a filter, which ignores it.
Forsaken(w) ==
  \/ Removed(using[w])
  \/ channel = "closed" /\ filter_channel[using[w]]

\* A blocked worker has an event to come: its task is queued, or the request
\* or the reply is on its way on an open channel.
UnansweredSendIsCarried ==
  \A w \in Workers : at[w] = "wait" /\ ~done[w] =>
    \/ Forsaken(w)
    \/ FilterTask("filter send", using[w], id[w]) \in ToSet(ipc_loop)
    \/ /\ channel = "open" /\ using[w] \in ToSet(filters)
       /\ alive => \/ id[w] \in output \cup queued
                   \/ \E m \in ToSet(input) : m.kind = "reply" /\ m.id = id[w]

\* A Send through a filter returns, unless the filter is forsaken.
FilterSendReturns ==
  \A w \in Workers : at[w] = "wait" ~> (at[w] # "wait" \/ Forsaken(w))

=============================================================================
