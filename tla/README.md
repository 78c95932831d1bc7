# A specification of nacl_ipc

nacl_ipc brings Chromium's interprocess communication (`ipc/`, on top of
`base/`) and the out-of-process PPAPI proxy (`ppapi/proxy/`) to Native Client.
The modules here model the parts of it that are hard to test: from the events
and message loops that threads wait on, over the channel and its filters, to
synchronous messages between processes whose threads block on each other, and
the state of the PPAPI proxies that both ends of a channel must keep in step.

| modules | model | section |
|---|---|---|
| `SyncChannel` | synchronous messages between processes | 2 |
| `ChannelFilters` | the proxy of a channel, its filters, Sends from other threads | 3 |
| `ChannelPosix`, `MessagePipe` | the two ends of a channel, and what a channel promises | 4 |
| `WaitableEvents`, `MessageLoops` | events, watchers, the message loop and its pump | 5 |
| `PluginReferences` | references to objects and resources in plugin and browser | 6 |
| `PluginCallbacks` | completion callbacks of the plugin | 7 |

A module `MC...` gives the constants of the module it is named after values for
TLC, and bounds; a module `...Proofs` holds theorems about it (section 8).

## 1. Inventory

The program's own logic is in `ipc/` and `ppapi/proxy/`, and in the event and
message loop classes of `base/`.  The rest of `base/` is utilities (strings,
files, values, JSON, time, logging, statistics, other platforms);
`base/third_party`, `testing`, `build` and the project files are not this
program's.

| component | state | operations | interacts by |
|---|---|---|---|
| SyncChannel (`ipc_sync_channel.cc`) | per context `deserializers_`, the stack of pending sends; per listener thread a `ReceivedSyncMsgQueue`: queued messages, `task_pending_`, `dispatch_event_`, early replies, the top send done watcher | Send, SendWithTimeout, the wait with its nested dispatch and nested loop, Pop, Clear; on the IPC thread QueueMessage, TryToUnblockListener, DispatchReplies, OnSendTimeout, CancelPendingSends | tasks posted between the listener thread and the IPC thread; shared queue under locks; events |
| SyncMessage (`ipc_sync_message.cc`) | message id, reply and unblock bits, pump event | GenerateReply, IsMessageReplyTo, EnableMessagePumping | used by SyncChannel |
| ChannelProxy (`ipc_channel_proxy.cc`) | `channel_`, `listener_`, `filters_` | Send, Close, AddFilter, RemoveFilter; OnSendMessage, OnChannelOpened/Closed/Error/Connected; OnDispatch* | tasks between the two threads; calls to filters |
| SyncMessageFilter (`ipc_sync_message_filter.cc`) | set of pending messages, channel | Send from any thread, OnMessageReceived, OnChannelError/Closing | filter callbacks on the IPC thread; events |
| Channel, POSIX (`ipc_channel_posix.cc`) | pipe, output queue, partial write, input overflow, descriptors, connection state | Connect, Send, Close, OnFileCanRead/Write | file watcher callbacks of the IPC thread, calls to the listener |
| FileDescriptorSet | descriptors, highwater mark | Add, GetDescriptorAt, CommitAll | owned by a message, used by two threads in turn |
| WaitableEvent, WaitableEventWatcher (`base/`) | signaled flag, waiters | Signal, Reset, WaitMany; StartWatching, StopWatching | locks; tasks |
| MessageLoop, MessagePumpDefault (`base/`) | incoming, work, delayed and deferred queues; run state; the pump's event | PostTask, Run, Quit, QuitNow, DoWork, DoDelayedWork, DoIdleWork | every thread posts to it |
| Dispatcher (`ppapi/proxy`) | interface proxies by name and id | GetProxiedInterface, OnMsgSupportsInterface, OnMsgDeclareInterfaces | synchronous and asynchronous messages |
| variable and resource references (`plugin_var_tracker.cc`, `plugin_resource_tracker.cc`, serialization rules) | reference counts in the plugin, one reference for each in the browser | AddRef, Release, ReceiveObjectPassRef, PreparePreviouslyTrackedResource, Begin/EndSendPassRef | AddRefObject, ReleaseObject and ReleaseResource messages; values in calls and replies |
| completion callbacks (`callback_tracker.cc`, URL loader, Graphics2D) | callbacks in flight; pending read and flush | SendCallback, ReceiveExecuteSerializedCallback, ReadResponseBody and its Ack, Flush and its ACK | asynchronous messages |

What makes these hard: two threads per process that share a queue and an event;
Sends that nest in handlers that run inside Sends, across channels and
processes; replies, timeouts, shutdown, errors and the destruction of the channel
racing each other; asynchronous messages that a synchronous one overtakes.  The
list of hazards, each at its line, is in `PROJECT.json`.

What makes each component correct:

* SyncChannel: a Send returns, and with its own reply; two blocked processes do
  not deadlock; no queued message or early reply is forgotten; nested loops end
  in the right order; failure, destruction, timeout and shutdown release a Send.
* ChannelProxy: a filter is added once, removed once, and not called after that;
  nothing is delivered to a listener that is gone.
* SyncMessageFilter: a Send returns with its own reply, or when the channel or
  the process ends, and its stack-allocated entry is not touched afterwards.
* Channel: the listener gets the messages sent, in order, and learns of a close
  it did not ask for; a descriptor is closed once.
* WaitableEvent: no wake-up is lost; an auto-reset signal releases one waiter; no
  callback runs after StopWatching.
* MessageLoop: a posted task runs once, in order among its kind, and the pump
  does not sleep on a task.
* PPAPI references: the browser holds one reference for an object the plugin
  tracks, and none for another; callbacks run exactly once.

## 2. The core: SyncChannel

`SyncChannel.tla` models any number of processes, each with a listener thread
and an IPC thread, and a SyncChannel between any two that are peers.

| in the module | in the code |
|---|---|
| `stack[p]` | the call stack of the listener thread: SendWithTimeout (at a point of it), DispatchMessages, the listener's OnMessageReceived |
| `deserializers[p][q]` | `SyncContext::deserializers_` of the channel to q, with the state of each entry's `done_event` |
| `message_queue`, `task_pending`, `dispatch_event`, `received_replies` | the fields of `ReceivedSyncMsgQueue`, one for each listener thread |
| `dispatch_watcher[p][q]` | `SyncChannel::dispatch_watcher_`: armed, fired and its callback posted, stopped |
| `send_done_watcher[p]` | what `*top_send_done_watcher_` waits for |
| `listener_loop`, `ipc_loop`, `timers` | the tasks of the two message loops, delayed tasks apart |
| `queueing[p]` | how far the IPC thread is in `QueueMessage` after it released `message_lock_` |
| `listener`, `connected`, `pipe` | `Context::listener_`, the open ends, and what is in the pipes |
| `shutdown_event`, `alive` | the process's shutdown event; whether it runs |
| `answered` | history: who answered which message without error |

Steps of a Send: `BeginSend` (up to the test of the shutdown event), `PushSend`,
`PostSend`, then `WaitReturnsDone`, `WaitReturnsDispatch` or `WaitReturnsPump`
for each result of WaitMany, and `PopSend`.  `DispatchMessage` is one round of
DispatchMessages; `FinishHandler` ends a handler, which may itself have sent
(`BeginSend` on top of it) or destroyed the channel (`CloseChannel`).  `RunTask`
runs a task of the loop, at the bottom of the stack or in a pumping Send.  On
the IPC thread, `RunIpcTask`, `Receive`, `RunTimeout` and `ReadError` are atomic
for the listener, since all they change is under a lock, except for QueueMessage,
whose Signal and PostTask come after the lock is released
(`SignalDispatchEvent`, `PostDispatchTask`).

Abstractions.  A message is its kind, its id and whether its reply is an error.
Ids are natural numbers, per process.  A handler replies when it returns, with an
error or not; a handler that keeps the message and replies later is not
modelled.  The pipe is reliable and FIFO, and an end that closes loses what it
had not read.  WaitMany may return any signaled event, where the code prefers
the first in the array: this only adds behaviours.  The events and watchers are
atomic; their locks and lists are in `WaitableEvents`, which shows the contract used
here.  Tasks that change nothing here (OnDispatchError, OnDispatchConnected) are
left out, and message filters are in `ChannelFilters`.  A Send on a closed channel
fails here (`RunIpcTask`); section 4 shows where the code's channel, blocked on a
write when it was closed, accepts the message and drops it.  The pending Sends
were released by the close, but one that is made after it is not, unless it has a
timeout.  `EnableMessagePumping` is modelled, where the pump event is always
signaled; an event that someone signals later is not.

Definitions marked *Variant* are faulty versions of the definition that follows
them.  No specification uses them: each shows that a property below tells the
code from a plausible bug.

### What the runs check

| run | instance | shows |
|---|---|---|
| `SyncChannelNesting` | three processes in a row.  Two of them exchange three messages, synchronous and asynchronous, whose replies may be errors; or each of the three sends one synchronous message, and the middle one's two channels share a queue | `TypeOK`, `SendOwnsLastEntry`, `SuccessWasAnswered`, `QueuedReplyIsCarried`, `QueuedMessageHasDispatcher`, `BlockedSendIsWoken` |
| `SyncChannelScenarios` | two processes, up to three messages, in one of three scenarios: every Send runs a nested message loop; a process may destroy its channel while its peer may die; Sends with and without a timeout, a shutdown, and handlers that never return | `QuitIsForInnermostSend` (the DCHECK of line 352), `EverySendReturns`, `TimedSendReturns` |
| `SyncChannelShutdown` | one Send and a shutdown, a handler that never returns | violated: `ShutdownReleasesSends` |

Deadlock is not checked: each process sends a bounded number of messages
(`MaxSends`), so that the system stops when all were sent.  `EverySendReturns`
says that it does not stop with a Send waiting.

Bounds.  Three messages between two processes give every shape of nesting that
the code distinguishes: a Send in a handler in a Send on the same context, a
reply that arrives for a Send that is not the innermost, a reply queued and then
consumed by DispatchReplies, and a second message queued while the
DispatchMessagesTask is pending.  Three processes in a row are what it takes for
two contexts on one thread; `BoundedSpec` cuts off the mixture of the two cases.
In the scenario "pump", process 2 sends only from a handler, which is where a
nested loop meets another; in "timeout", each process sends once and only
process 1 with a timeout.  Nothing in the code counts messages or processes, and
the safety properties that are proved hold for any number.

### Fairness

`ThreadFairness` is weak fairness of the steps of the listener thread (a Send,
DispatchMessages, a task of the loop) and of the IPC thread: the operating system
schedules both, and neither loop skips a task.  `TimeoutFairness` says that a
delayed task is run.  That the application's handlers return is assumed only
where the property needs it: in the scenarios "pump" and "failure", since
`EverySendReturns` cannot hold if a handler hangs, and not in "timeout", where
`TimedSendReturns` says that a Send with a timeout does not depend on it.
`HandlersMayHangSpec`, of `SyncChannelShutdown`, does not assume it either.  Nothing
is assumed of the application's sends, of CloseChannel, Crash or Shutdown.

### Finding

`ShutdownReleasesSends` is what `ipc_sync_channel.h` says (lines 74 and 136): a
Send waits "for a reply, timeout or process shutdown".  SendWithTimeout tests the
shutdown event (line 392) before it pushes its entry (line 400).  If the event is
signaled, and the IPC thread cancels the pending sends, between the two, the
entry is pushed after the cancellation and no other comes: with a peer that does
not answer, the Send never returns.  A Send with a timeout does
(the scenario "timeout" includes the shutdown).

## 3. A channel's filters: ChannelFilters

`ChannelFilters.tla` models a ChannelProxy, whose calls the listener thread posts
to the IPC thread, the list of filters that thread keeps, and a SyncMessageFilter,
through which other threads, the *workers*, send synchronous messages.

| in the module | in the code |
|---|---|
| `ipc_loop`, `listener_loop` | the tasks of the two threads |
| `listener`, `called`, `filters` | `listener_`, `channel_connected_called_`, `filters_` of `ChannelProxy::Context` |
| `channel`, `blocked`, `queued` | `channel_` as its owner sees it: not made, made, open, closed, deleted; a blocked write and its queue |
| `filter_channel`, `io_loop`, `pending` | `channel_`, `io_loop_` and `pending_sync_messages_` of the filter |
| `at`, `using`, `id`, `done`, `result` | a worker in `SyncMessageFilter::Send`: where, through which filter, and its `PendingSyncMsg` |
| `alive`, `output`, `input` | the peer: whether its end is open, what it has not answered, what was not read |
| `client`, `told`, `heard`, `answered` | what the owner did with a filter; history: what each filter and the listener were told, and what the peer answered |

The owner's calls are `AddFilter`, `RemoveFilter`, `Send`, `Close`, and `Dispatch`
runs a task of its loop.  On the IPC thread `RunIpcTask` runs a task
(`CreateChannel`, `OnChannelOpened`, `OnChannelClosed`, `OnSendMessage`,
`OnAddFilter`, `OnRemoveFilter`, `SendOnIOThread`), and `Receive`, `ReadError` and
`Unblock` are the calls of the channel.  Each is one action, since what it shares
with the workers is under the filter's lock.  A worker's Send is cut where it
leaves the lock: `BeginSend`, `InsertPending`, `PostSend`, `WaitReturns`,
`ErasePending`.

Abstractions.  A filter that no worker uses is any filter that leaves messages to
the listener; filters that consume messages of their own are left out.  The
channel is reduced to what its owner can tell, and `Accept` and `Refuse` say when
its Send returns TRUE or FALSE, with the flag that survives Close (section 4).
The code would let a removed filter use a deleted channel: this is undefined, and
the message is lost in the model.

The run `ChannelFilters` has one filter, one worker, and two messages in all, of
the owner, the peer or the worker, in any order with the adding and removing of
the filter, Close, a blocked write, the death of the peer and a shutdown
(`BoundedSpec`).  It shows `TypeOK`, `FilterLifeCycle`,
`DeletedChannelIsForgotten`, `PendingEntryIsOnStack`, `ResultWasAnswered`,
`UnansweredSendIsCarried`, `ListenerHearsInOrder` and `FilterSendReturns`.  Two
messages are what it takes for a reply to be another Send's, and for a failed
message to come before a second one; a filter's life does not depend on other
filters, since the code calls them in turn and asks nothing of the list.  Most
of the safety properties are proved for any number of both (section 8).

Fairness (`Fairness`) is weak fairness of the IPC thread, the listener thread, each
worker's own steps and the peer's answers; nothing is assumed of the owner or of the
shutdown.

What the properties except is what the code does not promise.  `Forsaken` names
the workers that nobody will tell of a failure: their filter was removed
(SyncMessageFilter does not override OnFilterRemoved, and keeps a channel that
may be deleted), or the channel failed in the filter's own Send, whose result
SendOnIOThread ignores, or it had failed before the filter was added.  These
Sends return only by the shutdown.  `FilterLifeCycle` allows a filter to be told
of an error without being added, which happens when Connect fails.

## 4. The two ends of a channel: ChannelPosix and MessagePipe

`MessagePipe.tla` says what one direction of a channel promises: a message is
received once, whole, with its own descriptor and in the order sent, and it is
received unless the channel breaks.  `ChannelPosix.tla` models the two ends of an
IPC::Channel on a socket pair or a FIFO, each on the IO thread of its process.

| in the module | in the code |
|---|---|
| `listening`, `open`, `client_pipe`, `fd_pipe` | `server_listen_pipe_`, `pipe_`, `client_pipe_`, `fd_pipe_`: whether they are open |
| `output`, `written`, `blocked`, `write_watch` | `output_queue_`, `message_send_bytes_written_`, `is_blocked_on_write_`, `write_watcher_` |
| `input` | `input_buf_` and `input_overflow_buf_`, what is not parsed |
| `waiting`, `greeting` | `waiting_connect_`, `send_server_hello_msg` |
| `at[e]` | the method the IO thread of end e is in, and who called it |
| `pipe`, `fds` | what is in the socket or FIFO, and in the descriptor pipe |
| `sent`, `delivered`, `told` | history: messages sent and received, and the last thing the owner learned |

Writing (ProcessOutgoingMessages) is `WriteMessage`, a round of its loop,
`WriteFdBlocks`, `ReturnTrue` and `ReturnFalse`; `CanWrite` is the callback of the
write watcher.  Reading (OnFileCanReadWithoutBlocking, ProcessIncomingMessages) is
`AcceptConnection`, `CanRead`, `ReadPipe` and `ReadWouldBlock`, `ReadEnd`,
`ReadTooMuch`, `ParseMessage`, `ParsePartial`, `ParseFails`.  The owner's calls are
`Connect`, `Send`, and `OwnerCloses`, which is also the end of the process.

Abstractions.  A message is made of units; a write takes as many as there is room
for, a read as many as fit the buffer.  A message has at most one descriptor, so
that `input_overflow_fds_` is always empty between messages.  Over a FIFO no
descriptors are sent.  A listener may send from a callback, and does not close the
channel there.  Errors other than EAGAIN, EPIPE and the end of the file are left
out; SIGPIPE is ignored.

| run | instance | shows |
|---|---|---|
| `ChannelPosix` | one message of the server, two of the client, of one or two units, in a pipe with room for three and a descriptor pipe with room for one; either end closes | `TypeOK`, `DescriptorsArriveFirst`, `UnsentIsWatched`, `CarriesMessages`, `OwnerLearnsOfEnd` |
| `ChannelPosixLateSend` | two messages of the client, the server closes | violated: `SendOnClosedFails` |

`CarriesMessages` is the refinement: both directions implement `MessagePipe` under
`sent <- sent[e]`, `received <- delivered[Peer(e)]`, and `broken` when an end has
closed.  It includes the liveness of the pipe; its safety part, and the invariants,
are proved for any sizes and numbers of messages (section 8).

Bounds.  With the Hello messages, the client's queue is longer than the pipe has
room for, so that writes are cut at every unit and resumed; the read buffer of two
units cuts and joins messages; the descriptor pipe with room for one is full with
the first descriptor.  `Maximum` is two, so that "IPC message is too big" also
happens.

Fairness.  Each process runs its IO thread (`WF_vars(IoStep(e))`).  Strong fairness
of `CanRead` and of `AcceptConnection` says that libevent serves a descriptor that
is ready again and again, although others keep the thread busy.

Noted while modelling, and not findings: `kMaximumMessageSize`
(`ipc_channel.h:47`) is compared with what is buffered, so that a message that is
small enough is refused when it follows part of another in one read; a server
holds the client's end of the socket until its first read, and is not told of a
client that dies before its Hello; a failed accept, and a failed write of the
server's first messages, close without OnChannelError (`OwnerLearnsOfEnd` excepts
them); a client holds both ends of the descriptor pipe, so that sending a
descriptor to a server that is gone may block instead of failing.

### Finding

`SendOnClosedFails`.  `Close` does not reset `is_blocked_on_write_`.  In the run,
the server closes while a write of its client is blocked; the client's read meets
the end, so that its channel closes itself and calls OnChannelError
(`ipc_channel_posix.cc:978`); the client's next Send queues its message on the
closed channel and returns TRUE (`:933`), where "true on success and false
otherwise" is promised (`ipc_message.h:46`).  ChannelProxy keeps its channel after
OnChannelError, and its later Sends are accepted in silence.

## 5. Events, loop and pump: WaitableEvents and MessageLoops

`WaitableEvents.tla` models base::WaitableEvent and WaitableEventWatcher at the
grain of the events' locks.  `MessageLoops.tla` extends it with a MessageLoop and
its MessagePumpDefault, which sleeps on such an event, and with threads that post,
signal, reset and wait.

| in the modules | in the code |
|---|---|
| `stack[t]` | the calls a thread is in: Signal, TimedWait, WaitMany, StartWatching, PostTask; on the loop's thread Run and Task::Run |
| `lock`, `signaled`, `waiters` | `WaitableEventKernel`: `lock_`, `signaled_`, `waiters_` |
| `fired[t]` | `SyncWaiter` of a thread: not fired, disabled, or its `signaling_event_` |
| `cancel_flag`, `kernel`, `set_flags` | `cancel_flag_` and `kernel_` of a watcher; the Flags that are set |
| `incoming`, `work`, `delayed`, `deferred` | the four queues of MessageLoop |
| `nestable_allowed`, `keep_running`, `delayed_time`, `recent_time` | `nestable_tasks_allowed_`, `keep_running_`, `delayed_work_time_`, `recent_time_` |
| `given`, `taken`, `watched`, `heard`, `starts`, `started` | history of signals, watches and tasks |

Each call is several steps, cut where a lock is taken or given back: `BeginSignal`,
`FireWaiter` and `EndSignal`; `TimedWait`, `Wake`, `EndWait`; `LockNext`,
`EnqueueMany`, `WakeMany`, `LeaveNext`, `EndMany`; `StartWatching` (which posts its
task with the lock held, `EndStart`), `StopWatching` and `RunCallback`.  The pump
goes from `DoWork` over `DoDelayedWork` and `DoIdleWork` to `Sleep`; each has an
action for every outcome.  Tasks make the calls `Call...`, and may run the loop
again (`CallRun`), with or without nestable tasks, and quit it.

The run `MessageLoops` has three threads, a pump's event, an auto-reset and a
manual-reset event, one watcher, delays up to one step and a time up to two.
`Budgets` is a set of tables that bound the calls of each thread, of which a
behaviour has one: all interleavings of the calls in a table are explored, and the
tables are the combinations that meet in the code (nested runs with posting and
quitting; posting from two threads; watching while others signal, reset or wait,
and while the task itself waits; two WaitMany in opposite orders).  It shows `TypeOK`, `ListedWaiterWaits`,
`SignalIsReceivedOnce`, `HeardOnlyWhileWatching`, `LocksAreReleased`,
`TaskIsInOneQueue`, `PumpSleepsUntilDue`, `TasksRunInOrder` and `EveryTaskIsRun`.

Fairness is weak fairness of each thread's steps and of time.  Nobody must make a
call.  Since the calls are bounded, "again and again" in `LocksAreReleased` and
`EveryTaskIsRun` means in the end.  Its safety properties are proved for any number
of threads, calls and events (section 8).

Worth knowing, and allowed by the properties: a non-nestable task that a nested loop
reached is deferred, and tasks posted after it overtake it; a watcher keeps the
`kernel_` of an earlier StartWatching when the event is signaled at once, which is
harmless, since a waiter is compared by its Flag; the time that
AddToDelayedWorkQueue gives the pump is given again by DoDelayedWork before each
sleep.  Left out: the destruction of the loop and its observers, task observers,
histograms, and the loops of type UI and IO.


## 6. References between plugin and browser: PluginReferences

`PluginReferences.tla` models the references that the plugin process holds to
objects and resources of the browser.  The plugin's trackers count what the
plugin's code owns; the browser holds one reference for as long as such a count is
not zero, and the AddRef and Release messages, and the references that replies
carry, are to keep the two in step.

| in the module | in the code |
|---|---|
| `ref_count[h]` | `object_ref_count_` of `PluginVarTracker`, `ref_count` in `resource_map_` of `PluginResourceTracker`; 0: no entry |
| `owned[h]`, `lent[h]` | what the plugin's code owns, and the calls in it that have h as an argument (BeginReceiveCallerOwned to EndReceiveCallerOwned) |
| `borrowed` | loaders that HandleDocumentLoad tracked |
| `adds`, `releases` | AddRefObject, ReleaseObject and ReleaseResource messages on the way |
| `passing`, `returned` | references in replies, to the plugin and to the browser |
| `browser`, `kept` | references in the browser, and those of them that callers in the browser own |
| `discarded`, `unheard` | history: references of exceptions that were not asked for, and messages that no handler took |

One action is one call of the API or the receipt of one message: `AddRefVar`,
`ReleaseVar`, `AddRefResource`, `ReleaseResource`; `ReceiveObject`,
`ReceiveResource`, `DiscardException` for replies to the plugin; `HandleCall`,
`HandleDocumentLoad`, `EndCall`, `ReturnObject` for the calls it handles;
`PassRef`, `ReceiveReturned`, `DropReturned` and the `Dispatch...` actions in the
browser.  The trackers' two rules are `ReleaseRef` and `TakeRef`.

On order.  SyncChannel lets synchronous messages and replies overtake asynchronous
ones (section 2), and the messages here are asynchronous.  So messages on the way
are counted, not queued, and dispatched in any order.  In `ReturnObject` the
plugin's reference is released, and the message sent, by the destructor of the
return value, before the reply is; the table in
`plugin_var_serialization_rules.cc:81` shows the release last.  With the counts,
either order is among the behaviours.

Abstractions.  Two objects never influence each other in the trackers, so the
instance has one of each kind.  A vector of vars is several single ones.  The
plugin's code is well behaved: it releases what it owns and uses what it owns or
was lent.  A send that fails is left out (the channel is gone), and so are
strings, which never leave a process, the state of each kind of resource, and the
`ObjectProxy` of objects that the plugin implements.

| run | instance | shows |
|---|---|---|
| `PluginReferences` | one object, one resource, two references in the plugin, three in the browser, one exception that was not asked for | `TypeOK`, `RefsAddUp`, `TrackerCoversOwned`, `OwnedResourceIsAlive`, `ReleasedResourceIsFreed` |
| `PluginReferencesUnheard` | one object, no such exception | violated: `SingleRefInBrowser` |
| `PluginReferencesDiscard` | one object, one such exception | violated: `TrackerCountsOwned` |

Bounds.  The code tells apart a count of zero, one and more, so that `MaxOwned`
is two; three references in the browser are the one that stands for the plugin's,
one on the way to it and one being released.  `MaxMessages` bounds only the
messages that AddRef and Release of an object can pile up without an answer.
Deadlock is checked: there is always something the plugin can do.

Fairness.  `LoopFairness` says that a ReleaseResource message on the way is
dispatched, and that a reply with a resource is received: the message loops of the
two processes do that.  Nothing is assumed of the plugin's code:
`ReleasedResourceIsFreed` speaks only of resources it has released.

A document's loader is the exception in `OwnedResourceIsAlive`: it is tracked
with a count of 1 for which nobody took a reference (`ppp_instance_proxy.cc:182`;
`ppp_instance.h:107` says that the plugin is to take its own), and AddRefResource
on it sends nothing.

### Findings

*No handler for the messages of objects.*  `PluginVarTracker` sends AddRefObject
and ReleaseObject, and the message map they go to
(`ppb_var_deprecated_proxy.cc:250`) has a case for neither.
`SingleRefInBrowser`, what `plugin_var_tracker.h:22` promises, fails as soon as
the plugin retains an argument.  `RefsAddUp` says what does hold: the difference
is exactly the messages nobody took (`unheard`).

*An exception that is not wanted is released on the wrong side.*
`serialized_var.cc:282` means to give up a reference that the browser took, and
decrements the plugin's own count.  If the plugin owns the object, it stops being
tracked while it is in use; if not, nothing happens and the browser's reference
stays.

## 7. Completion callbacks: PluginCallbacks

`PluginCallbacks.tla` models the callbacks a plugin hands to the browser.  The
requests of a URL loader send the id that CallbackTracker gives to their callback,
and a message brings it back.  ReadResponseBody and Flush keep their callback in
the plugin's object, one at a time, and an Ack names the object.

| in the module | in the code |
|---|---|
| `tracked`, `released` | the plugin's `resource_map_`; history: what left it |
| `next_callback_id`, `callback_map` | `next_callback_id_`, `callback_map_` of CallbackTracker |
| `current[r]` | `current_read_callback_` of a URLLoader, `current_flush_callback_` of a Graphics2D |
| `executing` | the answer whose callback runs |
| `to_browser`, `to_plugin` | the messages of each direction, all asynchronous, hence in order |
| `alive`, `pending` | resources in the browser, and operations its target has not finished |
| `handed`, `ran` | history: callbacks handed over, and run |

The plugin's calls are `Create`, `Request`, `ReadResponseBody`, `Flush` and
`Release` of the last reference; it makes them from its loop or inside a callback.
The browser finishes an operation in the call or later (`FinishAtOnce`, `Defer`,
`Answer`), and `Destroy` is OnMsgReleaseResource.  The plugin's loop runs
`RunRequestCallback`, `RunOwnCallback` or `DropAnswer`, and `EndCallback` erases the
entry of a request after its callback, as the code does.

Abstractions.  Messages carry the identity of the callback they are for as
history; no action reads it.  What the browser does with an operation is the work
of its target, which is not in the repository: it answers every operation, aborts
those of a loader that is destroyed, and may forget those of a Graphics2D
(`ppb_graphics_2d.h:190`).  Data, results, progress messages and Close, which is
forwarded, are left out, and so is RunMessageLoop of the testing interface
PPB_Testing (`ppb_testing_proxy.cc:26`): a callback that calls it would have
answers dispatched before it returns (`MayReceive`).

| run | instance | shows |
|---|---|---|
| `PluginCallbacks` | a loader and a Graphics2D, four callbacks, three ids | `TypeOK`, `IdIsOfItsCallback`, `CurrentOperationIsCarried`, `CallbackRuns` |
| `PluginCallbacksRelease` | one loader, one callback | violated: `ReadCallbackRuns` |

Bounds.  Ids wrap around in the code after 2^32; with four callbacks and three ids
they do in the instance, and an id is sought while others are in use.  Two
callbacks in flight on one loader and one that starts another are within four.
Deadlock is not checked, since the plugin may have used all callbacks.

Fairness.  Both message loops run, callbacks return, and the browser answers each
operation it keeps.  Nothing is assumed of the plugin's calls.

### Finding

`ReadCallbackRuns`.  A loader that is released while its read is in flight takes
the callback with it: the answer finds no object, reaches NOTREACHED
(`ppb_url_loader_proxy.cc:361`) and the callback never runs, where
`ppb_url_loader.h:100` says that pending callbacks run and report an abort.
`CallbackRuns` is what does hold: the callbacks of requests run in any case, those
of reads and flushes unless their object is released.

## 8. Proofs

All theorems are about the `Spec` of their module, for every value of the
constants that satisfies its assumption (`ConstantsOK`): for SyncChannel, a finite
set of processes, a symmetric and irreflexive relation of peers, any bounds and any
features; for ChannelFilters, finite sets of filters and workers and any bounds;
for ChannelPosix, positive sizes of messages, pipes and buffers and any number of
messages; for WaitableEvents and MessageLoops, a finite set of threads, of which
one has the loop, any events with distinct addresses, of which the pump's resets
itself, any watchers, delays and bounds; for PluginReferences, disjoint sets of
objects and resources and any bounds; for PluginCallbacks, disjoint sets of
loaders and Graphics2D resources, any number of ids and any bound.  Nothing else
is assumed but that names that stand for "nobody" or "not fired" are not those of
threads or events.

* `SyncChannelProofs`: `TypeCorrect` (`TypeOK`) and `SendOwnsLast`
  (`SendOwnsLastEntry`).  They are one induction.  Reading and popping the last
  entry of a context is only well typed because there is one, so the type
  invariant needs the other.  The strengthening is `StackInv`: for each context,
  the ids of the entries in `deserializers_` are the ids of the Send frames on
  the call stack for that peer, past their Push, in the same order, and a "push"
  frame can only be on top.  A handler below a Send stays below until the Send
  returned, whichever channel it was for, so Push and Pop act on the ends of both.
* `SyncChannelQueueProofs`: `SuccessIsAnswered` (`SuccessWasAnswered`), by
  following a successful reply from the handler that sent it (`answered`) through
  the SendTask, the pipe and `received_replies_` to the entry it completes; the
  parts of `AnswerInv` are one for each of these places.  `QueuedMessageIsDispatched`
  (`QueuedMessageHasDispatcher`), by `QueueInv`, which adds what `task_pending_`
  means: when it is set, the task is in the loop or about to be posted.
  `BlockedSendsAreWoken` (`BlockedSendIsWoken`), by `WakeInv`: as long as a message
  is queued, whichever thread resets `dispatch_event_` goes on to DispatchMessages.
  `QuitsInnermostSend` (`QuitIsForInnermostSend`), by `QuitsInv`: what is watched
  and the callback that was posted are together at most one, and of the innermost
  Send that runs a loop.  Its lemmas say of each way the loop's tasks change that
  the callbacks left are old ones (`NoNewQuits`).
  `QueuedRepliesAreCarried` (`QueuedReplyIsCarried`), by two invariants that count.
  `CopyInv`: a synchronous message, or its reply, is in at most one of the places it
  passes through (`Copies`), and in none before its id was given out.  `ReplyInv`:
  the IPC thread has at least as many DispatchReplies to run as the process has
  contexts whose last Send has its reply in `received_replies_` (`Waiting`).  A Pop
  adds one to both; DispatchReplies, which delivers one reply and was posted for
  one, takes one from both, because by `CopyInv` that Send has no other reply.
* `ChannelFiltersProofs`: `TypeCorrect` (`TypeOK`), `FiltersHearInOrder`
  (`FilterLifeCycle`), `ChannelIsForgotten` (`DeletedChannelIsForgotten`),
  `PendingEntriesAreOnStack` (`PendingEntryIsOnStack`), `ResultsWereAnswered`
  (`ResultWasAnswered`), `ListenerIsToldInOrder` (`ListenerHearsInOrder`, an action
  property) and `BlockedSendsAreCarried` (`UnansweredSendIsCarried`).  The first five
  are by one `IInv`.  That a filter hears "added" first needs to
  know that nobody knows it while its AddFilter waits in the loop, and that no other
  AddFilter for it does (`AddedOnce`); that it hears "connected" after it and once
  needs that Hello is the first message on an open channel, whose listed filters
  were all added (`ListedFilters`); and that no AddFilter runs before the channel
  is opened, that CreateChannel and OnChannelOpened are the first tasks
  (`Opening`).  A filter in the list was told neither that the channel closes nor
  that it is removed, and one that keeps the channel is in the list or was removed
  (`ChannelIsKnown`); from this follows what holds when the channel is deleted.  For
  the workers, `RepliesAreAnswers` follows the peer's answer through the input.
  For the listener, `HeardInv` ties what it heard to `channel_connected_called_`.
  For a blocked worker the induction follows its message through the places it
  passes, one lemma per call that takes it further (`Carried`), and needs two facts
  more: the entry of a worker is pending from its insertion until Send erases it
  (`PendingIsListed`), so that SignalAllEvents and a reply find it; and the filters
  in the list of an open channel have its pointer (`OpenIsKnown`), so that a
  message that is not on its way is one whose filter has no channel, and is woken.
* `ChannelPosixProofs`: `TypeCorrect` (`TypeOK`), `UnsentWatched`
  (`UnsentIsWatched`), `DescriptorsFirst` (`DescriptorsArriveFirst`) and
  `DirectionsArePipes`: each direction implements the specification of
  `MessagePipe`, which is the safety part of `CarriesMessages`.  `IInv` sees the
  units written by one end and not parsed by the other, in the buffer of the reader
  and in the pipe, as one stream.  They are consecutive units of the messages sent
  (`Chained`), from the first one not delivered (`Begins`) to the next one to be
  written (`Ends`); so a read that completes a message completes the next one, and
  a write that was cut continues where it was (`StreamOK`, `OutputOK`).  For the
  descriptors (`FdsOK`): they are of undelivered messages, in order, and every
  message of which a unit was written has its own among them, since it is sent
  before the first unit and not again.  `ThreadOK` says what each place in the
  code knows about the flags, of which `UnsentIsWatched` is a part: that needs to
  know that a server that has heard of its client for the first time has still to
  greet it, with the message it heard in its buffer (`FirstRead`).
* `MessageLoopsProofs`: `TypeCorrect` (`TypeOK`), `TasksAreInOneQueue`
  (`TaskIsInOneQueue`), `TasksInOrder` (`TasksRunInOrder`) and `PumpWakes`
  (`PumpSleepsUntilDue`).  `TypesOK` says which call may be on top of which
  (`Calls`): a Run below a task begins another round when it returns, so that the
  pump never sleeps on what it knew before, and a task that waits for an event is
  still below its wait.  `Partition` says that the queues and
  the tasks started are disjoint, have no task twice, and have all of them; `Order`
  that the work queue is older than the incoming one and both are in the order
  posted, and that whatever was taken from them was older than what is left, unless
  it was delayed; `PumpTold` that the time the pump sleeps until, once it has
  looked, is that of the first delayed task.
* `WaitableEventsProofs`: `WaitersMissNothing` (`ListedWaiterWaits`),
  `SignalsAreReceivedOnce` (`SignalIsReceivedOnce`) and `DelegatesAreWatching`
  (`HeardOnlyWhileWatching`, an action property), about the events under the loop
  and the other threads of `MessageLoops`, whose invariant it uses.  `EInv` adds
  to it what each call that holds a lock knows (`LocksOK`): a Signal in progress and
  a WaitMany that enqueues found the event reset, and nobody else can change
  that.  A waiter in a list is of a thread that still waits and was not fired by that
  event, or of the watch that is on (`WaitersOK`); a Flag in a posted callback is of
  the watch that is on, or set, and in no list any more (`PostedOK`), which is what
  StopWatching's three cases distinguish.  The count of signals (`ReceivedOK`) is
  kept by each step that moves one between the event, the threads it has fired and
  those that are signaling; these are cardinalities of finite sets, and the lemmas
  on them (`Counts`, `Balance`) say what adding or removing one thread does.
* `PluginReferencesProofs`: `TypeCorrect` (`TypeOK`), `ReferencesAddUp`
  (`RefsAddUp`), `TrackersCoverOwned` (`TrackerCoversOwned`) and
  `OwnedResourcesAreAlive` (`OwnedResourceIsAlive`).  They are one induction.  That
  the browser's counts do not become negative follows from the conservation of
  references; that in turn needs to know, where a document's loader is released,
  that its count covers what the plugin owns.  `IInv` adds two parts:
  `ResourcesAreSimple` (what only happens to objects does not happen to
  resources) and `KeptIsHeld` (callers in the browser own part of what it holds).
  Each action touches one handle: for the others the equation stays as it was, and
  for that one the lemmas on `ReleaseRef` and `TakeRef` say what moves where.
* `PluginCallbacksProofs`: `TypeCorrect` (`TypeOK`), `IdsAreOfTheirCallbacks`
  (`IdIsOfItsCallback`) and `CurrentOperationsAreCarried`
  (`CurrentOperationIsCarried`).  An answer finds its own callback because no other
  message carries the same one (`CarriedOnce`), and a resource that is created has
  no operation from before (`MessagesAreOfResources`).  That the search for a free
  id finds one, however far the counter is, is the existence of a least number
  (`LeastNumber`): fewer callbacks are in flight than there are ids.

Only model-checked: liveness, which is out of the prover's reach
(`EverySendReturns`, `TimedSendReturns`, `FilterSendReturns`, `OwnerLearnsOfEnd`, the
liveness part of `CarriesMessages`, `LocksAreReleased`, `EveryTaskIsRun`,
`ReleasedResourceIsFreed`, `CallbackRuns`).  Every invariant and action property of
the passing runs is a theorem.

## 9. Plan

What could come next:

1. an abstract specification of a synchronous call (called, handled, returned, once
   and with its own answer) that SyncChannel implements.  `SuccessWasAnswered`,
   `SendOwnsLastEntry` and `EverySendReturns` are its parts today.

## 10. Not modelled, and why

The models cover the control of the files they name.  They are a small part of the
repository: most of it is the utilities and tests of `base/`, code for other
platforms, headers of the PPAPI interface and vendored code.

* Serialization (pickle, parameter traits, message macros) is sequential data code,
  covered by its tests.  Logging, histograms and tracked objects observe only.
* The PPAPI proxies that only forward a call have no state.  Dispatcher keeps tables
  that each side fills in one synchronous call.  Drawing and layout are the browser's.
* Windows and Mac code is not what this repository builds; the Native Client channel
  is a stub whose operations fail.
* The pumps of libevent and glib are wrappers of their libraries: what they promise,
  that a descriptor that is ready is served, is the fairness of `ChannelPosix`.
* Reference counts and locks of `base/` are taken as atomic by all the modules, and
  `base::Thread`, `AtExitManager`, `Singleton` and lazy instances only start and end
  what is modelled.
* In the components that are modelled in part, the sections above say what is left
  out: a handler that replies later than it returns, messages that a filter consumes
  for itself, more than one descriptor in a message, the loops of type UI and IO.

`PROJECT.json` lists every component with its status and every hazard with the
properties that would catch it.  Where a property excepts what the code does, the
hazard does not list it and says so.
