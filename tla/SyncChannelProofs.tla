-------------------------- MODULE SyncChannelProofs --------------------------
(* Theorems about SyncChannel, for every value of its constants. *)
EXTENDS SyncChannel, SequenceTheorems, FiniteSetTheorems, TLAPS

----------------------------------------------------------------------------
(* The operators the actions are built from keep the types.                 *)

\* Front drops the last element and keeps the type.
LEMMA FrontType ==
  ASSUME NEW S, NEW s \in Seq(S), s # <<>>
  PROVE  Front(s) \in Seq(S)
<1>1. Len(s) \in Nat /\ Len(s) # 0
  BY EmptySeq
<1> QED
  BY <1>1, SubSeqProperties DEF Front

\* Last is an element.
LEMMA LastType ==
  ASSUME NEW S, NEW s \in Seq(S), s # <<>>
  PROVE  /\ Last(s) \in S
         /\ Last(s) = s[Len(s)]
         /\ Len(s) \in DOMAIN s
         /\ Len(s) \in Nat \ {0}
<1>1. Len(s) \in Nat /\ Len(s) # 0
  BY EmptySeq
<1>2. Len(s) \in 1..Len(s)
  BY <1>1
<1> QED
  BY <1>1, <1>2 DEF Last

\* The frame that runs, when there is one.
LEMMA TopType ==
  ASSUME TypeOK, NEW p \in Proc, stack[p] # <<>>
  PROVE  /\ Top(p) \in Frame
         /\ Top(p) = stack[p][Len(stack[p])]
         /\ TopAt(p) = Top(p).at
  BY LastType DEF TypeOK, Top, TopAt

\* A thread at a point of a call has a frame.
LEMMA TopAtType ==
  ASSUME NEW p \in Proc, TopAt(p) # "loop"
  PROVE  stack[p] # <<>>
  BY DEF TopAt

\* MoveTo, Enter and Return keep the type of the stack.
LEMMA MoveToType ==
  ASSUME TypeOK, NEW p \in Proc, stack[p] # <<>>,
         NEW at \in SendPoints \cup {"dispatch"} \cup HandlerPoints,
         MoveTo(p, at)
  PROVE  stack' \in [Proc -> Seq(Frame)]
<1> DEFINE n == Len(stack[p])
           g == [stack[p][n] EXCEPT !.at = at]
<1>1. stack \in [Proc -> Seq(Frame)]
  BY DEF TypeOK
<1>2. stack[p] \in Seq(Frame) /\ n \in DOMAIN stack[p] /\ n \in Nat \ {0}
  BY <1>1, LastType
<1>3. stack[p][n] \in Frame
  BY <1>2
<1>4. g \in Frame
  BY <1>3 DEF Frame
<1>5. [stack[p] EXCEPT ![n] = g] \in Seq(Frame)
  BY <1>2, <1>4, ExceptSeq
<1>6. stack' = [stack EXCEPT ![p] = [stack[p] EXCEPT ![n] = g]]
  BY DEF MoveTo
<1> QED
  BY <1>1, <1>5, <1>6

LEMMA EnterType ==
  ASSUME TypeOK, NEW p \in Proc, NEW f \in Frame, Enter(p, f)
  PROVE  stack' \in [Proc -> Seq(Frame)]
  BY AppendProperties DEF TypeOK, Enter

LEMMA ReturnType ==
  ASSUME TypeOK, NEW p \in Proc, stack[p] # <<>>, Return(p)
  PROVE  stack' \in [Proc -> Seq(Frame)]
<1>1. stack \in [Proc -> Seq(Frame)] /\ stack[p] \in Seq(Frame)
  BY DEF TypeOK
<1>2. Front(stack[p]) \in Seq(Frame)
  BY <1>1, FrontType
<1> QED
  BY <1>1, <1>2 DEF Return

\* Posting to the IPC thread.
LEMMA PostIpcType ==
  ASSUME TypeOK, NEW p \in Proc, NEW t \in IpcTask, PostIpc(p, t)
  PROVE  ipc_loop' \in [Proc -> Seq(IpcTask)]
  BY AppendProperties DEF TypeOK, PostIpc

\* Signaling sends: the context's entries are replaced, one callback is posted.
LEMMA SignalDoneType ==
  ASSUME TypeOK, NEW p \in Proc, NEW q \in Proc,
         NEW ds \in Seq(PendingSyncMsg), NEW loop \in Seq(ListenerTask),
         SignalDone(p, q, ds, loop)
  PROVE  /\ deserializers' \in [Proc -> [Proc -> Seq(PendingSyncMsg)]]
         /\ send_done_watcher' \in [Proc -> SUBSET SendRef]
         /\ listener_loop' \in [Proc -> Seq(ListenerTask)]
<1> DEFINE fired == {w \in send_done_watcher[p] :
                       w.peer = q /\ \E i \in DOMAIN ds : ds[i].id = w.id /\ ds[i].done}
           t == Task("quit", q, (CHOOSE w \in fired : TRUE).id)
<1>1. deserializers' \in [Proc -> [Proc -> Seq(PendingSyncMsg)]]
  BY DEF SignalDone, TypeOK
<1>2. send_done_watcher[p] \in SUBSET SendRef
  BY DEF TypeOK
<1>3. send_done_watcher' = [send_done_watcher EXCEPT ![p] = @ \ fired]
  BY DEF SignalDone
<1>4. send_done_watcher' \in [Proc -> SUBSET SendRef]
  BY <1>2, <1>3 DEF TypeOK
<1>5. listener_loop' = [listener_loop EXCEPT ![p] =
                          IF fired = {} THEN loop ELSE Append(loop, t)]
  BY DEF SignalDone
<1>6. ASSUME fired # {} PROVE t \in ListenerTask
  <2>1. (CHOOSE w \in fired : TRUE) \in SendRef
    BY <1>2, <1>6
  <2> QED
    BY <2>1 DEF SendRef, ListenerTask, Task
<1>7. (IF fired = {} THEN loop ELSE Append(loop, t)) \in Seq(ListenerTask)
  BY <1>6, AppendProperties
<1>8. listener_loop' \in [Proc -> Seq(ListenerTask)]
  BY <1>5, <1>7 DEF TypeOK
<1> QED
  BY <1>1, <1>4, <1>8

\* A sequence whose elements are mapped one by one.
LEMMA MapType ==
  ASSUME NEW S, NEW T, NEW s \in Seq(S), NEW t,
         t = [i \in DOMAIN s |-> t[i]], \A i \in DOMAIN s : t[i] \in T
  PROVE  t \in Seq(T)
<1>1. DOMAIN s = 1..Len(s) /\ Len(s) \in Nat
  OBVIOUS
<1>2. t \in [1..Len(s) -> T]
  BY <1>1
<1> QED
  BY <1>1, <1>2, SeqDef

LEMMA CancelPendingSendsType ==
  ASSUME TypeOK, NEW p \in Proc, NEW q \in Proc, NEW loop \in Seq(ListenerTask),
         CancelPendingSends(p, q, loop)
  PROVE  /\ deserializers' \in [Proc -> [Proc -> Seq(PendingSyncMsg)]]
         /\ send_done_watcher' \in [Proc -> SUBSET SendRef]
         /\ listener_loop' \in [Proc -> Seq(ListenerTask)]
<1> DEFINE s == deserializers[p][q]
           t == [i \in DOMAIN s |-> [s[i] EXCEPT !.done = TRUE]]
<1>1. s \in Seq(PendingSyncMsg)
  BY DEF TypeOK
<1>2. \A i \in DOMAIN s : s[i] \in PendingSyncMsg
  BY <1>1
<1>3. \A i \in DOMAIN s : t[i] \in PendingSyncMsg
  BY <1>2 DEF PendingSyncMsg
<1>4. t \in Seq(PendingSyncMsg)
  <2> HIDE DEF s
  <2>1. t = [i \in DOMAIN s |-> t[i]]
    OBVIOUS
  <2> HIDE DEF t
  <2> QED
    BY <1>1, <1>3, <2>1, MapType
<1>5. SignalDone(p, q, t, loop)
  BY DEF CancelPendingSends
<1> QED
  <2> HIDE DEF t
  <2> QED
    BY <1>4, <1>5, SignalDoneType

\* Watching a send: its callback is posted at once if it is done.
LEMMA StartWatchingType ==
  ASSUME TypeOK, NEW p \in Proc, NEW w \in SendRef, NEW loop \in Seq(ListenerTask),
         StartWatching(p, w, loop)
  PROVE  /\ send_done_watcher' \in [Proc -> SUBSET SendRef]
         /\ listener_loop' \in [Proc -> Seq(ListenerTask)]
<1>1. Task("quit", w.peer, w.id) \in ListenerTask
  BY DEF SendRef, ListenerTask, Task
<1>2. Append(loop, Task("quit", w.peer, w.id)) \in Seq(ListenerTask)
  BY <1>1, AppendProperties
<1> QED
  BY <1>2 DEF TypeOK, StartWatching

----------------------------------------------------------------------------
(* Each action keeps the types.                                             *)

LEMMA BeginSendType ==
  ASSUME TypeOK, NEW p \in Proc, NEW q \in Proc, NEW kind \in SendKinds,
         NEW timed \in Timed, NEW pumped \in Pumped,
         BeginSend(p, q, kind, timed, pumped)
  PROVE  TypeOK'
<1> USE DEF BeginSend
<1>1. next_id \in [Proc -> Nat] /\ next_id[p] \in Nat
  BY DEF TypeOK
<1>2. next_id' \in [Proc -> Nat]
  BY <1>1
<1>3. stack' \in [Proc -> Seq(Frame)] /\ ipc_loop' \in [Proc -> Seq(IpcTask)]
  <2>1. CASE kind = "async"
    <3>1. SendTask(q, Request(kind, next_id[p])) \in IpcTask
      BY <1>1, <2>1 DEF IpcTask, SendTask, Request, Message
    <3> QED
      BY <2>1, <3>1, PostIpcType DEF TypeOK
  <2>2. CASE kind # "async"
    <3>1. [at |-> "push", peer |-> q, id |-> next_id[p], timed |-> timed,
           pumped |-> pumped] \in Frame
      BY <1>1, ConstantsOK DEF Frame, SendPoints
    <3> QED
      BY <2>2, <3>1, EnterType DEF TypeOK
  <2> QED
    BY <2>1, <2>2
<1> QED
  BY <1>2, <1>3 DEF TypeOK, queueVars, worldVars

LEMMA PushSendType ==
  ASSUME TypeOK, NEW p \in Proc, PushSend(p)
  PROVE  TypeOK'
<1> DEFINE e == [id |-> Top(p).id, done |-> FALSE, result |-> FALSE]
<1>1. stack[p] # <<>> /\ Top(p) \in Frame
  BY TopAtType, TopType DEF PushSend
<1>2. Top(p).peer \in Proc /\ e \in PendingSyncMsg
  BY <1>1 DEF Frame, PendingSyncMsg
<1>3. deserializers' \in [Proc -> [Proc -> Seq(PendingSyncMsg)]]
  <2>1. deserializers[p][Top(p).peer] \in Seq(PendingSyncMsg)
    BY <1>2 DEF TypeOK
  <2>2. Append(deserializers[p][Top(p).peer], e) \in Seq(PendingSyncMsg)
    BY <1>2, <2>1, AppendProperties
  <2>3. deserializers' = [deserializers EXCEPT ![p][Top(p).peer] =
                            Append(deserializers[p][Top(p).peer], e)]
    BY DEF PushSend
  <2> QED
    BY <1>2, <2>2, <2>3 DEF TypeOK
<1>4. stack' \in [Proc -> Seq(Frame)]
  BY <1>1, MoveToType DEF PushSend, SendPoints
<1> QED
  BY <1>3, <1>4 DEF TypeOK, PushSend, queueVars, loopVars, worldVars

LEMMA PostSendType ==
  ASSUME TypeOK, NEW p \in Proc, PostSend(p)
  PROVE  TypeOK'
<1>1. stack[p] # <<>> /\ Top(p) \in Frame
  BY TopAtType, TopType DEF PostSend
<1>2. /\ SendTask(Top(p).peer, Request("sync", Top(p).id)) \in IpcTask
      /\ Ref(Top(p).peer, Top(p).id) \in SendRef
  BY <1>1 DEF Frame, IpcTask, SendTask, Request, Message, SendRef, Ref
<1>3. ipc_loop' \in [Proc -> Seq(IpcTask)]
  BY <1>2, PostIpcType DEF PostSend
<1>4. timers' \in [Proc -> SUBSET SendRef]
  BY <1>2 DEF PostSend, TypeOK
<1>5. stack' \in [Proc -> Seq(Frame)]
  BY <1>1, MoveToType DEF PostSend, SendPoints
<1> QED
  BY <1>3, <1>4, <1>5 DEF TypeOK, PostSend, queueVars, worldVars

LEMMA WaitReturnsDoneType ==
  ASSUME TypeOK, NEW p \in Proc, WaitReturnsDone(p)
  PROVE  TypeOK'
<1>1. stack[p] # <<>>
  BY TopAtType DEF WaitReturnsDone
<1>2. stack' \in [Proc -> Seq(Frame)]
  BY <1>1, MoveToType DEF WaitReturnsDone, SendPoints
<1> QED
  BY <1>2 DEF TypeOK, WaitReturnsDone, queueVars, loopVars, worldVars

LEMMA DispatchFrame ==
  ASSUME NEW p \in Proc
  PROVE  Call("dispatch", p, 0) \in Frame
  BY DEF Call, Frame

LEMMA WaitReturnsDispatchType ==
  ASSUME TypeOK, NEW p \in Proc, WaitReturnsDispatch(p)
  PROVE  TypeOK'
<1>1. stack' \in [Proc -> Seq(Frame)]
  BY DispatchFrame, EnterType DEF WaitReturnsDispatch
<1> QED
  BY <1>1 DEF TypeOK, WaitReturnsDispatch, loopVars, worldVars

\* Tasks that do nothing may replace any task.
LEMMA NopType ==
  ASSUME NEW loop \in Seq(ListenerTask), NEW i \in DOMAIN loop
  PROVE  /\ loop[i] \in ListenerTask
         /\ loop[i].peer \in Proc
         /\ Task("nop", loop[i].peer, 0) \in ListenerTask
<1>1. loop[i] \in ListenerTask
  OBVIOUS
<1> QED
  BY <1>1 DEF ListenerTask, Task

\* The entry a Send waits for, which exists once the Send has been pushed.
LEMMA SendDoneEntryType ==
  ASSUME TypeOK, SendOwnsLastEntry, NEW p \in Proc,
         TopAt(p) \in SendPoints \ {"push"}
  PROVE  /\ deserializers[p][Top(p).peer] \in Seq(PendingSyncMsg)
         /\ deserializers[p][Top(p).peer] # <<>>
         /\ SendDoneEntry(p) \in PendingSyncMsg
<1>1. stack[p] # <<>> /\ Top(p).peer \in Proc
  BY TopAtType, TopType DEF Frame, SendPoints
<1>2. deserializers[p][Top(p).peer] \in Seq(PendingSyncMsg)
  BY <1>1 DEF TypeOK
<1>3. deserializers[p][Top(p).peer] # <<>>
  BY DEF SendOwnsLastEntry
<1> QED
  BY <1>2, <1>3, LastType DEF SendDoneEntry

LEMMA WaitReturnsPumpType ==
  ASSUME TypeOK, SendOwnsLastEntry, NEW p \in Proc, WaitReturnsPump(p)
  PROVE  TypeOK'
<1> DEFINE stopped == {i \in DOMAIN stack[p] : stack[p][i].at = "pump"}
           loop == [i \in DOMAIN listener_loop[p] |->
                      IF listener_loop[p][i].kind = "quit"
                      THEN Task("nop", listener_loop[p][i].peer, 0)
                      ELSE listener_loop[p][i]]
           w == Ref(Top(p).peer, SendDoneEntry(p).id)
<1>1. stack[p] # <<>> /\ Top(p) \in Frame
  BY TopAtType, TopType DEF WaitReturnsPump
<1>2. stack' \in [Proc -> Seq(Frame)]
  BY <1>1, MoveToType DEF WaitReturnsPump, SendPoints
<1>3. listener_loop[p] \in Seq(ListenerTask)
  BY DEF TypeOK
<1>4. loop \in Seq(ListenerTask)
  <2>1. \A i \in DOMAIN listener_loop[p] : loop[i] \in ListenerTask
    BY <1>3, NopType
  <2>2. loop = [i \in DOMAIN listener_loop[p] |-> loop[i]]
    OBVIOUS
  <2> HIDE DEF loop
  <2> QED
    BY <1>3, <2>1, <2>2, MapType
<1>5. w \in SendRef
  BY <1>1, SendDoneEntryType
  DEF WaitReturnsPump, SendPoints, Ref, SendRef, Frame, PendingSyncMsg
<1>6. StartWatching(p, w, IF stopped = {} THEN listener_loop[p] ELSE loop)
  BY DEF WaitReturnsPump
<1>7. /\ send_done_watcher' \in [Proc -> SUBSET SendRef]
      /\ listener_loop' \in [Proc -> Seq(ListenerTask)]
  <2> HIDE DEF w, loop, stopped
  <2> QED
    BY <1>3, <1>4, <1>5, <1>6, StartWatchingType
<1> QED
  BY <1>2, <1>7 DEF TypeOK, WaitReturnsPump, queueVars, worldVars

LEMMA PopSendType ==
  ASSUME TypeOK, SendOwnsLastEntry, NEW p \in Proc, PopSend(p)
  PROVE  TypeOK'
<1> DEFINE q == Top(p).peer
<1>1. stack[p] # <<>> /\ q \in Proc
  BY TopAtType, TopType DEF PopSend, Frame
<1>2. Front(deserializers[p][q]) \in Seq(PendingSyncMsg)
  BY SendDoneEntryType, FrontType DEF PopSend, SendPoints
<1>3. deserializers' \in [Proc -> [Proc -> Seq(PendingSyncMsg)]]
  <2>1. deserializers' = [deserializers EXCEPT ![p][q] = Front(deserializers[p][q])]
    BY DEF PopSend
  <2> HIDE DEF q
  <2> QED
    BY <1>1, <1>2, <2>1 DEF TypeOK
<1>4. IpcCall("replies", p) \in IpcTask
  BY DEF IpcCall, IpcTask, NoMessage, Reply, Message
<1>5. ipc_loop' \in [Proc -> Seq(IpcTask)]
  BY <1>4, PostIpcType DEF PopSend
<1>6. stack' \in [Proc -> Seq(Frame)]
  BY <1>1, ReturnType DEF PopSend
<1> QED
  BY <1>3, <1>5, <1>6 DEF TypeOK, PopSend, queueVars, worldVars

\* Taking the head of a sequence.
LEMMA HeadTailType ==
  ASSUME NEW S, NEW s \in Seq(S), s # <<>>
  PROVE  Head(s) \in S /\ Tail(s) \in Seq(S)
  BY HeadTailProperties

LEMMA DispatchMessageType ==
  ASSUME TypeOK, NEW p \in Proc, DispatchMessage(p)
  PROVE  TypeOK'
<1>1. stack[p] # <<>>
  BY TopAtType DEF DispatchMessage
<1>2. message_queue[p] \in Seq(SendRef)
  BY DEF TypeOK
<1>3. /\ message_queue' \in [Proc -> Seq(SendRef)]
      /\ stack' \in [Proc -> Seq(Frame)]
  <2>1. CASE message_queue[p] = <<>>
    BY <1>1, <2>1, ReturnType DEF DispatchMessage, TypeOK
  <2>2. CASE message_queue[p] # <<>>
    <3> DEFINE m == Head(message_queue[p])
    <3>1. m \in SendRef /\ Tail(message_queue[p]) \in Seq(SendRef)
      BY <1>2, <2>2, HeadTailType
    <3>2. Call("sync", m.peer, m.id) \in Frame
      BY <3>1 DEF SendRef, Call, Frame, HandlerPoints
    <3>3. stack' \in [Proc -> Seq(Frame)]
      BY <2>2, <3>2, EnterType DEF DispatchMessage, TypeOK
    <3>4. message_queue' = [message_queue EXCEPT ![p] = Tail(message_queue[p])]
      BY <2>2 DEF DispatchMessage
    <3> QED
      BY <3>1, <3>3, <3>4 DEF TypeOK
  <2> QED
    BY <2>1, <2>2
<1> QED
  BY <1>3 DEF TypeOK, DispatchMessage, loopVars, worldVars

LEMMA FinishHandlerType ==
  ASSUME TypeOK, NEW p \in Proc, NEW ok \in Outcomes, FinishHandler(p, ok)
  PROVE  TypeOK'
<1> DEFINE q == Top(p).peer
<1>1. stack[p] # <<>> /\ q \in Proc /\ Top(p).id \in Nat
  BY TopAtType, TopType DEF FinishHandler, HandlerPoints, Frame
<1>2. SendTask(q, Reply(Top(p).id, ok)) \in IpcTask
  BY <1>1, ConstantsOK DEF SendTask, Reply, IpcTask, Message
<1>3. ipc_loop' \in [Proc -> Seq(IpcTask)]
  BY <1>2, PostIpcType DEF FinishHandler, TypeOK
<1>4. answered' \subseteq Proc \X Proc \X Nat
  <2>1. <<q, p, Top(p).id>> \in Proc \X Proc \X Nat
    BY <1>1
  <2>2. answered' \in {answered, answered \cup {<<q, p, Top(p).id>>}}
    BY DEF FinishHandler
  <2> QED
    BY <2>1, <2>2 DEF TypeOK
<1>5. stack' \in [Proc -> Seq(Frame)]
  BY <1>1, ReturnType DEF FinishHandler
<1> QED
  BY <1>3, <1>4, <1>5 DEF TypeOK, FinishHandler, queueVars

LEMMA TakeTaskType ==
  ASSUME TypeOK, NEW p \in Proc, listener_loop[p] # <<>>
  PROVE  /\ NextTask(p) \in ListenerTask
         /\ NextTask(p).peer \in Proc /\ NextTask(p).id \in Nat
         /\ Tail(listener_loop[p]) \in Seq(ListenerTask)
         /\ TakeTask(p) => listener_loop' \in [Proc -> Seq(ListenerTask)]
<1>1. listener_loop \in [Proc -> Seq(ListenerTask)] /\ listener_loop[p] \in Seq(ListenerTask)
  BY DEF TypeOK
<1>2. NextTask(p) \in ListenerTask /\ Tail(listener_loop[p]) \in Seq(ListenerTask)
  BY <1>1, HeadTailType DEF NextTask
<1>3. TakeTask(p) => listener_loop' \in [Proc -> Seq(ListenerTask)]
  BY <1>1, <1>2 DEF TakeTask
<1> QED
  BY <1>2, <1>3 DEF ListenerTask

LEMMA RunQuitTaskType ==
  ASSUME TypeOK, NEW p \in Proc, listener_loop[p] # <<>>, RunQuitTask(p)
  PROVE  /\ stack' \in [Proc -> Seq(Frame)]
         /\ listener_loop' \in [Proc -> Seq(ListenerTask)]
         /\ send_done_watcher' \in [Proc -> SUBSET SendRef]
<1> DEFINE below == {i \in DOMAIN Front(stack[p]) : stack[p][i].at = "pump"}
<1>1. stack[p] # <<>> /\ stack[p] \in Seq(Frame)
  BY TopAtType DEF RunQuitTask, TypeOK
<1>2. stack' \in [Proc -> Seq(Frame)]
  BY <1>1, MoveToType DEF RunQuitTask, SendPoints
<1>3. CASE below = {}
  <2>1. TakeTask(p) /\ send_done_watcher' = [send_done_watcher EXCEPT ![p] = {}]
    BY <1>3 DEF RunQuitTask
  <2> QED
    BY <1>2, <2>1, TakeTaskType DEF TypeOK
<1>4. CASE below # {}
  <2>1. PICK i \in below : StartWatching(p, Ref(stack[p][i].peer, stack[p][i].id),
                                         Tail(listener_loop[p]))
    BY <1>4 DEF RunQuitTask
  <2>2. DOMAIN Front(stack[p]) \subseteq DOMAIN stack[p]
    BY <1>1, EmptySeq DEF Front
  <2>3. stack[p][i] \in Frame
    BY <1>1, <2>2
  <2>4. Ref(stack[p][i].peer, stack[p][i].id) \in SendRef
    BY <2>3 DEF Frame, Ref, SendRef
  <2> QED
    BY <1>2, <2>1, <2>4, TakeTaskType, StartWatchingType
<1> QED
  BY <1>3, <1>4

LEMMA RunTaskType ==
  ASSUME TypeOK, NEW p \in Proc, RunTask(p)
  PROVE  TypeOK'
<1>1. listener_loop[p] # <<>>
  BY DEF RunTask
<1>2. CASE RunDispatchTask(p)
  <2>1. stack' \in [Proc -> Seq(Frame)]
    BY <1>2, DispatchFrame, EnterType DEF RunDispatchTask
  <2>2. listener_loop' \in [Proc -> Seq(ListenerTask)]
    BY <1>1, <1>2, TakeTaskType DEF RunDispatchTask
  <2> QED
    BY <1>2, <2>1, <2>2 DEF TypeOK, RunTask, RunDispatchTask, worldVars
<1>3. CASE RunWatchTask(p)
  <2>1. stack' \in [Proc -> Seq(Frame)]
    BY <1>3, DispatchFrame, EnterType DEF RunWatchTask
  <2>2. listener_loop' \in [Proc -> Seq(ListenerTask)]
    BY <1>1, <1>3, TakeTaskType DEF RunWatchTask
  <2>3. dispatch_watcher' \in [Proc -> [Proc -> {"armed", "posted", "off"}]]
    BY <1>3 DEF RunWatchTask, TypeOK
  <2> QED
    BY <1>3, <2>1, <2>2, <2>3 DEF TypeOK, RunTask, RunWatchTask, worldVars
<1>4. CASE RunQuitTask(p)
  <2>1. /\ stack' \in [Proc -> Seq(Frame)]
        /\ listener_loop' \in [Proc -> Seq(ListenerTask)]
        /\ send_done_watcher' \in [Proc -> SUBSET SendRef]
    BY <1>1, <1>4, RunQuitTaskType
  <2> QED
    BY <1>4, <2>1 DEF TypeOK, RunTask, RunQuitTask, worldVars
<1>5. CASE RunOtherTask(p)
  <2>1. Call("async", NextTask(p).peer, NextTask(p).id) \in Frame
    BY <1>1, TakeTaskType DEF Call, Frame, HandlerPoints
  <2>2. stack' \in [Proc -> Seq(Frame)]
    BY <1>5, <2>1, EnterType DEF RunOtherTask, TypeOK
  <2>3. listener_loop' \in [Proc -> Seq(ListenerTask)]
    BY <1>1, <1>5, TakeTaskType DEF RunOtherTask
  <2> QED
    BY <1>5, <2>2, <2>3 DEF TypeOK, RunTask, RunOtherTask, worldVars
<1> QED
  BY <1>2, <1>3, <1>4, <1>5 DEF RunTask

\* The places of the messages that stay in a queue s.
LEMMA KeptPlaces ==
  ASSUME NEW S, NEW s \in Seq(S), NEW q,
         NEW kept \in SetToSeqs({i \in DOMAIN s : s[i].peer # q})
  PROVE  /\ kept \in Seq(DOMAIN s)
         /\ \A i, j \in DOMAIN kept : i # j => kept[i] # kept[j]
<1> DEFINE T == {i \in DOMAIN s : s[i].peer # q}
<1>1. IsFiniteSet(DOMAIN s)
  <2>1. DOMAIN s = 1..Len(s) /\ Len(s) \in Nat
    OBVIOUS
  <2> QED
    BY <2>1, FS_Interval
<1>2. IsFiniteSet(T) /\ T \subseteq DOMAIN s
  BY <1>1, FS_Subset
<1>3. Cardinality(T) \in Nat
  BY <1>2, FS_CardinalityType
<1>4. /\ kept \in [1..Cardinality(T) -> T]
      /\ \A i, j \in 1..Cardinality(T) : i # j => kept[i] # kept[j]
  BY DEF SetToSeqs
<1>5. kept \in [1..Cardinality(T) -> DOMAIN s]
  BY <1>2, <1>4
<1>6. DOMAIN kept = 1..Cardinality(T)
  BY <1>5
<1>7. kept \in Seq(DOMAIN s)
  <2> DEFINE n == Cardinality(T)
  <2>1. n \in Nat /\ kept \in [1..n -> DOMAIN s]
    BY <1>3, <1>5
  <2> HIDE DEF n
  <2> QED
    BY <2>1, SeqDef
<1>8. \A i, j \in DOMAIN kept : i # j => kept[i] # kept[j]
  BY ONLY <1>4, <1>6
<1> QED
  BY <1>7, <1>8

LEMMA CloseChannelType ==
  ASSUME TypeOK, NEW p \in Proc, NEW q \in Proc, CloseChannel(p, q)
  PROVE  TypeOK'
<1> DEFINE s == listener_loop[p]
           loop == Cancelled(s, "watch", q)
<1>1. s \in Seq(ListenerTask)
  BY DEF TypeOK
<1>2. loop \in Seq(ListenerTask)
  <2>1. \A i \in DOMAIN s : loop[i] \in ListenerTask
    <3> SUFFICES ASSUME NEW i \in DOMAIN s
                 PROVE  loop[i] \in ListenerTask
      OBVIOUS
    <3>1. s[i] \in ListenerTask
      BY <1>1, NopType
    <3>2. Task("nop", q, 0) \in ListenerTask
      BY DEF Task, ListenerTask
    <3>3. loop[i] = IF s[i].kind = "watch" /\ s[i].peer = q THEN Task("nop", q, 0) ELSE s[i]
      BY DEF Cancelled
    <3> QED
      BY <3>1, <3>2, <3>3
  <2>2. loop = [i \in DOMAIN s |-> loop[i]]
    BY DEF Cancelled
  <2> HIDE DEF loop, s
  <2> QED
    BY <1>1, <2>1, <2>2, MapType
<1>3. /\ deserializers' \in [Proc -> [Proc -> Seq(PendingSyncMsg)]]
      /\ send_done_watcher' \in [Proc -> SUBSET SendRef]
      /\ listener_loop' \in [Proc -> Seq(ListenerTask)]
  <2>1. CancelPendingSends(p, q, loop)
    BY DEF CloseChannel
  <2> HIDE DEF loop
  <2> QED
    BY <1>2, <2>1, CancelPendingSendsType
<1>4. dispatch_watcher' \in [Proc -> [Proc -> {"armed", "posted", "off"}]]
  BY DEF CloseChannel, TypeOK
<1>5. message_queue' \in [Proc -> Seq(SendRef)]
  <2>1. message_queue[p] \in Seq(SendRef)
    BY DEF TypeOK
  <2>2. PICK kept \in SetToSeqs({i \in DOMAIN message_queue[p] : message_queue[p][i].peer # q}) :
               message_queue' = [message_queue EXCEPT ![p] =
                 [i \in DOMAIN kept |-> message_queue[p][kept[i]]]]
    BY DEF CloseChannel
  <2>3. kept \in Seq(DOMAIN message_queue[p])
    BY <2>1, KeptPlaces
  <2>4. [i \in DOMAIN kept |-> message_queue[p][kept[i]]] \in Seq(SendRef)
    <3> DEFINE m == [i \in DOMAIN kept |-> message_queue[p][kept[i]]]
    <3>1. \A i \in DOMAIN kept : m[i] \in SendRef
      BY <2>1, <2>3
    <3>2. m = [i \in DOMAIN kept |-> m[i]]
      OBVIOUS
    <3>3. m \in Seq(SendRef)
      <4> HIDE DEF m
      <4> QED
        BY <2>3, <3>1, <3>2, MapType
    <3> QED
      BY <3>3 DEF m
  <2> QED
    BY <2>2, <2>4 DEF TypeOK
<1>6. listener' \in [Proc -> [Proc -> BOOLEAN]]
  BY DEF CloseChannel, TypeOK
<1>7. IpcCall("closed", q) \in IpcTask
  BY DEF IpcCall, IpcTask, NoMessage, Reply, Message
<1>8. ipc_loop' \in [Proc -> Seq(IpcTask)]
  BY <1>7, PostIpcType DEF CloseChannel
<1> QED
  BY <1>3, <1>4, <1>5, <1>6, <1>8 DEF TypeOK, CloseChannel, worldVars

LEMMA TakeIpcTaskType ==
  ASSUME TypeOK, NEW p \in Proc, ipc_loop[p] # <<>>
  PROVE  /\ NextIpcTask(p) \in IpcTask
         /\ NextIpcTask(p).peer \in Proc
         /\ NextIpcTask(p).msg \in Message
         /\ TakeIpcTask(p) => ipc_loop' \in [Proc -> Seq(IpcTask)]
<1>1. ipc_loop \in [Proc -> Seq(IpcTask)] /\ ipc_loop[p] \in Seq(IpcTask)
  BY DEF TypeOK
<1>2. NextIpcTask(p) \in IpcTask /\ Tail(ipc_loop[p]) \in Seq(IpcTask)
  BY <1>1, HeadTailType DEF NextIpcTask
<1>3. TakeIpcTask(p) => ipc_loop' \in [Proc -> Seq(IpcTask)]
  BY <1>1, <1>2 DEF TakeIpcTask
<1> QED
  BY <1>2, <1>3 DEF IpcTask

\* What SignalDone changes.
SignalTypes ==
  /\ deserializers' \in [Proc -> [Proc -> Seq(PendingSyncMsg)]]
  /\ send_done_watcher' \in [Proc -> SUBSET SendRef]
  /\ listener_loop' \in [Proc -> Seq(ListenerTask)]

LEMMA DisconnectType ==
  ASSUME TypeOK, NEW p \in Proc, NEW q \in Proc, Disconnect(p, q)
  PROVE  /\ connected' \in [Proc -> [Proc -> BOOLEAN]]
         /\ pipe' \in [Proc -> [Proc -> Seq(Message)]]
         /\ SignalTypes
<1>1. connected' \in [Proc -> [Proc -> BOOLEAN]]
  BY DEF Disconnect, TypeOK
<1>2. pipe' \in [Proc -> [Proc -> Seq(Message)]]
  <2>1. pipe \in [Proc -> [Proc -> Seq(Message)]] /\ pipe' = [pipe EXCEPT ![q][p] = <<>>]
    BY DEF Disconnect, TypeOK
  <2>2. <<>> \in Seq(Message)
    BY EmptySeq
  <2> QED
    BY <2>1, <2>2
<1>3. listener_loop[p] \in Seq(ListenerTask)
  BY DEF TypeOK
<1>4. SignalTypes
  BY <1>3, CancelPendingSendsType DEF Disconnect, SignalTypes
<1> QED
  BY <1>1, <1>2, <1>4

LEMMA UnblockListenerType ==
  ASSUME TypeOK, NEW p \in Proc, NEW q \in Proc, NEW m \in Message,
         Unblocks(p, q, m), UnblockListener(p, q, m)
  PROVE  SignalTypes
<1> DEFINE ds == deserializers[p][q]
           n == Len(ds)
           e == [ds[n] EXCEPT !.done = TRUE]
           f == [e EXCEPT !.result = IF m.ok THEN TRUE ELSE @]
           t == [ds EXCEPT ![n].done = TRUE, ![n].result = IF m.ok THEN TRUE ELSE @]
<1>1. ds \in Seq(PendingSyncMsg) /\ ds # <<>>
  BY DEF TypeOK, Unblocks
<1>2. n \in DOMAIN ds /\ ds[n] \in PendingSyncMsg
  BY <1>1, LastType
<1>3. e \in PendingSyncMsg
  BY <1>2 DEF PendingSyncMsg
<1>4. f \in PendingSyncMsg
  BY <1>3 DEF PendingSyncMsg, Message
<1>5. t = [ds EXCEPT ![n] = f]
  BY <1>1, <1>2
<1>6. t \in Seq(PendingSyncMsg)
  <2> HIDE DEF ds, f, t, n
  <2> QED
    BY <1>1, <1>2, <1>4, <1>5, ExceptSeq
<1>7. listener_loop[p] \in Seq(ListenerTask)
  BY DEF TypeOK
<1>8. SignalDone(p, q, t, listener_loop[p])
  BY DEF UnblockListener
<1> QED
  <2> HIDE DEF t
  <2> QED
    BY <1>6, <1>7, <1>8, SignalDoneType DEF SignalTypes

\* Removing an element of a sequence.
LEMMA RemoveAtType ==
  ASSUME NEW S, NEW s \in Seq(S), NEW i \in DOMAIN s
  PROVE  RemoveAt(s, i) \in Seq(S)
<1>1. i \in 1..Len(s) /\ Len(s) \in Nat
  OBVIOUS
<1>2. SubSeq(s, 1, i - 1) \in Seq(S) /\ SubSeq(s, i + 1, Len(s)) \in Seq(S)
  BY <1>1, SubSeqProperties
<1> QED
  BY <1>2, ConcatProperties DEF RemoveAt

LEMMA RunIpcTaskType ==
  ASSUME TypeOK, NEW p \in Proc, RunIpcTask(p)
  PROVE  TypeOK'
<1> DEFINE t == NextIpcTask(p)
<1>1. ipc_loop[p] # <<>>
  BY DEF RunIpcTask
<1>2. t.peer \in Proc /\ t.msg \in Message /\ ipc_loop' \in [Proc -> Seq(IpcTask)]
  BY <1>1, TakeIpcTaskType DEF RunIpcTask
<1>3. listener_loop[p] \in Seq(ListenerTask)
  BY DEF TypeOK
<1> HIDE DEF t
<1>4. /\ connected' \in [Proc -> [Proc -> BOOLEAN]]
      /\ pipe' \in [Proc -> [Proc -> Seq(Message)]]
      /\ received_replies' \in [Proc -> Seq(QueuedReply)]
      /\ SignalTypes
  <2>1. CASE RunSendTask(p)
    <3>1. CASE connected[p][t.peer] /\ connected[t.peer][p]
      <4>1. pipe' = [pipe EXCEPT ![p][t.peer] = Append(pipe[p][t.peer], t.msg)]
        BY <2>1, <3>1 DEF RunSendTask, t
      <4>2. pipe \in [Proc -> [Proc -> Seq(Message)]]
        BY DEF TypeOK
      <4>3. Append(pipe[p][t.peer], t.msg) \in Seq(Message)
        BY <1>2, <4>2, AppendProperties
      <4>4. pipe' \in [Proc -> [Proc -> Seq(Message)]]
        BY <1>2, <4>1, <4>2, <4>3
      <4> QED
        BY <2>1, <3>1, <4>4 DEF RunSendTask, t, TypeOK, SignalTypes
    <3>2. CASE ~(connected[p][t.peer] /\ connected[t.peer][p])
      <4>1. Disconnect(p, t.peer)
        BY <2>1, <3>2 DEF RunSendTask, t
      <4> QED
        BY <1>2, <2>1, <4>1, DisconnectType DEF RunSendTask, TypeOK
    <3> QED
      BY <3>1, <3>2
  <2>2. CASE RunDispatchReplies(p)
    <3>1. CASE Deliverable(p) = {}
      BY <2>2, <3>1 DEF RunDispatchReplies, TypeOK, SignalTypes
    <3>2. CASE Deliverable(p) # {}
      <4>1. PICK i \in Deliverable(p) :
              /\ UnblockListener(p, received_replies[p][i].peer, received_replies[p][i].msg)
              /\ received_replies' = [received_replies EXCEPT ![p] = RemoveAt(@, i)]
        BY <2>2, <3>2 DEF RunDispatchReplies
      <4>2. received_replies[p] \in Seq(QueuedReply) /\ i \in DOMAIN received_replies[p]
        BY DEF TypeOK, Deliverable
      <4>3. received_replies[p][i] \in QueuedReply
        BY <4>2
      <4>4. received_replies[p][i].peer \in Proc /\ received_replies[p][i].msg \in Message
        BY <4>3 DEF QueuedReply
      <4>5. SignalTypes
        BY <4>1, <4>4, UnblockListenerType DEF Deliverable
      <4>6. RemoveAt(received_replies[p], i) \in Seq(QueuedReply)
        BY <4>2, RemoveAtType
      <4>7. received_replies' \in [Proc -> Seq(QueuedReply)]
        BY <4>1, <4>6 DEF TypeOK
      <4> QED
        BY <2>2, <4>5, <4>7 DEF RunDispatchReplies, TypeOK
    <3> QED
      BY <3>1, <3>2
  <2>3. CASE RunCloseTask(p)
    BY <1>2, <2>3, DisconnectType DEF RunCloseTask, TypeOK, t
  <2>4. CASE RunShutdownTask(p)
    BY <1>2, <1>3, <2>4, CancelPendingSendsType
    DEF RunShutdownTask, TypeOK, SignalTypes, t
  <2> QED
    BY <2>1, <2>2, <2>3, <2>4 DEF RunIpcTask
<1> QED
  BY <1>2, <1>4 DEF TypeOK, RunIpcTask, SignalTypes

LEMMA RunTimeoutType ==
  ASSUME TypeOK, NEW p \in Proc, NEW w \in timers[p], RunTimeout(p, w)
  PROVE  TypeOK'
<1> DEFINE s == deserializers[p][w.peer]
           t == [i \in DOMAIN s |-> [s[i] EXCEPT !.done = @ \/ s[i].id = w.id]]
<1>1. w \in SendRef
  BY DEF TypeOK
<1>2. s \in Seq(PendingSyncMsg) /\ listener_loop[p] \in Seq(ListenerTask) /\ w.peer \in Proc
  <2>1. w.peer \in Proc
    BY <1>1 DEF SendRef
  <2>2. /\ deserializers \in [Proc -> [Proc -> Seq(PendingSyncMsg)]]
        /\ listener_loop \in [Proc -> Seq(ListenerTask)]
    BY DEF TypeOK
  <2> QED
    BY <2>1, <2>2
<1>3. t \in Seq(PendingSyncMsg)
  <2>1. \A i \in DOMAIN s : s[i] \in PendingSyncMsg
    BY <1>2
  <2>2. \A i \in DOMAIN s : t[i] \in PendingSyncMsg
    BY <2>1 DEF PendingSyncMsg
  <2>3. t = [i \in DOMAIN s |-> t[i]]
    OBVIOUS
  <2> HIDE DEF s, t
  <2> QED
    BY <1>2, <2>2, <2>3, MapType
<1>4. SignalDone(p, w.peer, t, listener_loop[p])
  BY DEF RunTimeout
<1>5. SignalTypes
  <2> HIDE DEF t
  <2> QED
    BY <1>2, <1>3, <1>4, SignalDoneType DEF SignalTypes
<1>6. timers' \in [Proc -> SUBSET SendRef]
  BY DEF RunTimeout, TypeOK
<1> QED
  BY <1>5, <1>6 DEF TypeOK, RunTimeout, SignalTypes, queueVars, worldVars

LEMMA ReceiveType ==
  ASSUME TypeOK, NEW p \in Proc, NEW q \in Proc, Receive(p, q)
  PROVE  TypeOK'
<1> DEFINE m == Head(pipe[q][p])
<1>1. pipe \in [Proc -> [Proc -> Seq(Message)]]
  BY DEF TypeOK
<1>2. pipe[q][p] \in Seq(Message) /\ pipe[q][p] # <<>>
  BY <1>1 DEF Receive
<1>3. m \in Message /\ m.id \in Nat /\ Tail(pipe[q][p]) \in Seq(Message)
  <2>1. m \in Message /\ Tail(pipe[q][p]) \in Seq(Message)
    BY <1>2, HeadTailType
  <2> QED
    BY <2>1 DEF Message
<1>4. pipe' \in [Proc -> [Proc -> Seq(Message)]]
  <2>1. pipe' = [pipe EXCEPT ![q][p] = Tail(pipe[q][p])]
    BY DEF Receive
  <2> QED
    BY <1>1, <1>3, <2>1
<1>5. CASE Unblocks(p, q, m) /\ UnblockListener(p, q, m)
           /\ UNCHANGED <<message_queue, task_pending, queueing, received_replies>>
  <2>1. SignalTypes
    BY <1>3, <1>5, UnblockListenerType
  <2> QED
    BY <1>4, <1>5, <2>1 DEF TypeOK, Receive, SignalTypes
<1>6. CASE /\ queueing' = [queueing EXCEPT ![p] =
                 IF task_pending[p] THEN "signal" ELSE "signal and post"]
           /\ task_pending' = [task_pending EXCEPT ![p] = TRUE]
           /\ message_queue' = [message_queue EXCEPT ![p] = Append(@, Ref(q, m.id))]
           /\ UNCHANGED <<received_replies, deserializers, send_done_watcher, listener_loop>>
  <2>1. Ref(q, m.id) \in SendRef
    BY <1>3 DEF Ref, SendRef
  <2>2. message_queue' \in [Proc -> Seq(SendRef)]
    BY <1>6, <2>1, AppendProperties DEF TypeOK
  <2>3. /\ task_pending' \in [Proc -> BOOLEAN]
        /\ queueing' \in [Proc -> {"no", "signal", "signal and post", "post"}]
    BY <1>6 DEF TypeOK
  <2> QED
    BY <1>4, <1>6, <2>2, <2>3 DEF TypeOK, Receive
<1>7. CASE /\ received_replies' = [received_replies EXCEPT ![p] =
                 Append(@, [peer |-> q, msg |-> m])]
           /\ UNCHANGED <<message_queue, task_pending, queueing, deserializers,
                          send_done_watcher, listener_loop>>
  <2>1. [peer |-> q, msg |-> m] \in QueuedReply
    BY <1>3 DEF QueuedReply
  <2>2. received_replies' \in [Proc -> Seq(QueuedReply)]
    BY <1>7, <2>1, AppendProperties DEF TypeOK
  <2> QED
    BY <1>4, <1>7, <2>2 DEF TypeOK, Receive
<1>8. CASE /\ listener_loop' = [listener_loop EXCEPT ![p] =
                 Append(@, Task("message", q, m.id))]
           /\ UNCHANGED <<message_queue, task_pending, queueing, received_replies,
                          deserializers, send_done_watcher>>
  <2>1. Task("message", q, m.id) \in ListenerTask
    BY <1>3 DEF Task, ListenerTask
  <2>2. listener_loop' \in [Proc -> Seq(ListenerTask)]
    BY <1>8, <2>1, AppendProperties DEF TypeOK
  <2> QED
    BY <1>4, <1>8, <2>2 DEF TypeOK, Receive
<1> QED
  <2> HIDE DEF m
  <2> QED
    BY <1>5, <1>6, <1>7, <1>8 DEF Receive, m

\* An order of a set of processes.
LEMMA OrderType ==
  ASSUME NEW T \in SUBSET Proc, NEW order \in SetToSeqs(T)
  PROVE  order \in Seq(T)
<1>1. IsFiniteSet(T)
  BY ConstantsOK, FS_Subset
<1>2. Cardinality(T) \in Nat
  BY <1>1, FS_CardinalityType
<1>3. order \in [1..Cardinality(T) -> T]
  BY DEF SetToSeqs
<1> QED
  BY <1>2, <1>3, SeqDef

LEMMA SignalDispatchEventType ==
  ASSUME TypeOK, NEW p \in Proc, SignalDispatchEvent(p)
  PROVE  TypeOK'
<1> DEFINE armed == {q \in Proc : dispatch_watcher[p][q] = "armed"}
<1>1. PICK order \in SetToSeqs(armed) :
             listener_loop' = [listener_loop EXCEPT ![p] =
               listener_loop[p] \o [i \in DOMAIN order |-> Task("watch", order[i], 0)]]
  BY DEF SignalDispatchEvent
<1> DEFINE t == [i \in DOMAIN order |-> Task("watch", order[i], 0)]
<1>2. order \in Seq(armed)
  BY OrderType
<1>3. t \in Seq(ListenerTask)
  <2>1. \A i \in DOMAIN order : t[i] \in ListenerTask
    BY <1>2 DEF Task, ListenerTask
  <2>2. t = [i \in DOMAIN order |-> t[i]]
    OBVIOUS
  <2> HIDE DEF t, armed
  <2> QED
    BY <1>2, <2>1, <2>2, MapType
<1>4. listener_loop' \in [Proc -> Seq(ListenerTask)]
  <2>1. listener_loop \in [Proc -> Seq(ListenerTask)]
    BY DEF TypeOK
  <2>2. listener_loop' = [listener_loop EXCEPT ![p] = listener_loop[p] \o t]
    BY <1>1
  <2> HIDE DEF t
  <2> QED
    BY <1>3, <2>1, <2>2, ConcatProperties
<1>5. dispatch_watcher' \in [Proc -> [Proc -> {"armed", "posted", "off"}]]
  <2>1. dispatch_watcher \in [Proc -> [Proc -> {"armed", "posted", "off"}]]
    BY DEF TypeOK
  <2>2. dispatch_watcher' = [dispatch_watcher EXCEPT ![p] =
          [q \in Proc |-> IF q \in armed THEN "posted" ELSE dispatch_watcher[p][q]]]
    BY DEF SignalDispatchEvent
  <2>3. [q \in Proc |-> IF q \in armed THEN "posted" ELSE dispatch_watcher[p][q]]
          \in [Proc -> {"armed", "posted", "off"}]
    BY <2>1
  <2> QED
    BY <2>1, <2>2, <2>3
<1>6. queueing' \in [Proc -> {"no", "signal", "signal and post", "post"}]
  BY DEF SignalDispatchEvent, TypeOK
<1> QED
  BY <1>4, <1>5, <1>6 DEF TypeOK, SignalDispatchEvent, worldVars

LEMMA PostDispatchTaskType ==
  ASSUME TypeOK, NEW p \in Proc, PostDispatchTask(p)
  PROVE  TypeOK'
<1>1. Task("dispatch", p, 0) \in ListenerTask
  BY DEF Task, ListenerTask
<1>2. listener_loop' \in [Proc -> Seq(ListenerTask)]
  BY <1>1, AppendProperties DEF PostDispatchTask, TypeOK
<1> QED
  BY <1>2 DEF TypeOK, PostDispatchTask, listenerVars, queueVars, worldVars

LEMMA ReadErrorType ==
  ASSUME TypeOK, NEW p \in Proc, NEW q \in Proc, ReadError(p, q)
  PROVE  TypeOK'
<1>1. /\ connected' \in [Proc -> [Proc -> BOOLEAN]]
      /\ pipe' \in [Proc -> [Proc -> Seq(Message)]]
      /\ SignalTypes
  BY DisconnectType DEF ReadError
<1> QED
  BY <1>1 DEF TypeOK, ReadError, SignalTypes, queueVars

LEMMA ShutdownType ==
  ASSUME TypeOK, NEW p \in Proc, Shutdown(p)
  PROVE  TypeOK'
<1> DEFINE open == {q \in Proc : connected[p][q]}
<1>1. PICK order \in SetToSeqs(open) :
             ipc_loop' = [ipc_loop EXCEPT ![p] =
               ipc_loop[p] \o [i \in DOMAIN order |-> IpcCall("shutdown", order[i])]]
  BY DEF Shutdown
<1> DEFINE t == [i \in DOMAIN order |-> IpcCall("shutdown", order[i])]
<1>2. order \in Seq(open)
  BY OrderType
<1>3. t \in Seq(IpcTask)
  <2>1. \A i \in DOMAIN order : t[i] \in IpcTask
    BY <1>2 DEF IpcCall, IpcTask, NoMessage, Reply, Message
  <2>2. t = [i \in DOMAIN order |-> t[i]]
    OBVIOUS
  <2> HIDE DEF t, open
  <2> QED
    BY <1>2, <2>1, <2>2, MapType
<1>4. ipc_loop' \in [Proc -> Seq(IpcTask)]
  <2>1. ipc_loop \in [Proc -> Seq(IpcTask)]
    BY DEF TypeOK
  <2>2. ipc_loop' = [ipc_loop EXCEPT ![p] = ipc_loop[p] \o t]
    BY <1>1
  <2> HIDE DEF t
  <2> QED
    BY <1>3, <2>1, <2>2, ConcatProperties
<1> QED
  BY <1>4 DEF TypeOK, Shutdown, listenerVars, queueVars

LEMMA CrashType ==
  ASSUME TypeOK, NEW p \in Proc, Crash(p)
  PROVE  TypeOK'
  BY DEF TypeOK, Crash, listenerVars, queueVars, loopVars

----------------------------------------------------------------------------
(* Initial states and steps.                                                *)

LEMMA InitType ==
  ASSUME Init
  PROVE  TypeOK
<1>1. \A S : <<>> \in Seq(S)
  BY EmptySeq
<1> QED
  BY <1>1 DEF Init, TypeOK

\* Every step keeps the types, given the invariant that a Send finds its entry.
LEMMA NextType ==
  ASSUME TypeOK, SendOwnsLastEntry, [Next]_vars
  PROVE  TypeOK'
<1>1. CASE UNCHANGED vars
  BY <1>1 DEF TypeOK, vars, listenerVars, queueVars, loopVars, worldVars
<1>2. ASSUME NEW p \in Proc, SendStep(p)
      PROVE  TypeOK'
  BY <1>2, PushSendType, PostSendType, WaitReturnsDoneType, WaitReturnsDispatchType,
     WaitReturnsPumpType, PopSendType DEF SendStep
<1>3. ASSUME NEW p \in Proc, IpcStep(p)
      PROVE  TypeOK'
  BY <1>3, RunIpcTaskType, SignalDispatchEventType, PostDispatchTaskType, ReceiveType,
     ReadErrorType DEF IpcStep
<1> QED
  BY <1>1, <1>2, <1>3, BeginSendType, DispatchMessageType, RunTaskType, FinishHandlerType,
     CloseChannelType, RunTimeoutType, ShutdownType, CrashType DEF Next

----------------------------------------------------------------------------
(* A Send owns the last entry of its context.  The stack of the listener    *)
(* thread and the entries of deserializers_ are tied together by the        *)
(* message ids, which only grow.                                            *)

Pushed == SendPoints \ {"push"}

\* The sends of a stack st have increasing ids, all below n, and only the one
\* that runs may not have been pushed yet.
Ordered(st, n) ==
  /\ \A i, j \in DOMAIN st :
       i < j /\ st[i].at \in SendPoints /\ st[j].at \in SendPoints => st[i].id < st[j].id
  /\ \A i \in DOMAIN st : st[i].at \in SendPoints => st[i].id < n
  /\ \A i \in DOMAIN st : st[i].at = "push" => i = Len(st)

\* The entries ds of the context of q are the sends of st that were pushed on
\* it, in the order of their ids.
Matching(st, ds, q) ==
  /\ \A i, j \in DOMAIN ds : i < j => ds[i].id < ds[j].id
  /\ \A i \in DOMAIN ds : \E k \in DOMAIN st :
       st[k].at \in Pushed /\ st[k].peer = q /\ st[k].id = ds[i].id
  /\ \A k \in DOMAIN st : st[k].at \in Pushed /\ st[k].peer = q =>
       \E i \in DOMAIN ds : ds[i].id = st[k].id

StackInv ==
  \A p \in Proc : /\ Ordered(stack[p], next_id[p])
                  /\ \A q \in Proc : Matching(stack[p], deserializers[p][q], q)

LEMMA StackInvOwns ==
  ASSUME TypeOK, StackInv
  PROVE  SendOwnsLastEntry
<1> SUFFICES ASSUME NEW p \in Proc, TopAt(p) \in SendPoints \ {"push"}
             PROVE  /\ deserializers[p][Top(p).peer] # <<>>
                    /\ SendDoneEntry(p).id = Top(p).id
  BY DEF SendOwnsLastEntry
<1> DEFINE n == Len(stack[p])
           q == Top(p).peer
           ds == deserializers[p][q]
<1>1. /\ stack[p] # <<>> /\ stack[p] \in Seq(Frame) /\ n \in DOMAIN stack[p]
      /\ Top(p) = stack[p][n] /\ stack[p][n] \in Frame /\ stack[p][n].at \in Pushed
  <2>1. stack[p] # <<>> /\ stack[p] \in Seq(Frame)
    BY TopAtType DEF TypeOK, SendPoints
  <2> QED
    BY <2>1, TopType, LastType DEF Pushed
<1>2. q \in Proc /\ stack[p][n].id \in Nat
  BY <1>1 DEF Frame
<1>3. ds \in Seq(PendingSyncMsg)
  BY <1>2 DEF TypeOK
<1>4. PICK i \in DOMAIN ds : ds[i].id = stack[p][n].id
  BY <1>1, <1>2 DEF StackInv, Matching
<1>5. ds # <<>>
  BY <1>4
<1>6. Len(ds) \in DOMAIN ds /\ Last(ds) = ds[Len(ds)] /\ Len(ds) \in Nat
  BY <1>3, <1>5, LastType
<1>7. PICK k \in DOMAIN stack[p] :
             stack[p][k].at \in Pushed /\ stack[p][k].id = ds[Len(ds)].id
  <2>1. Matching(stack[p], deserializers[p][q], q)
    BY <1>2 DEF StackInv
  <2>2. \A j \in DOMAIN ds : \E k \in DOMAIN stack[p] :
          stack[p][k].at \in Pushed /\ stack[p][k].peer = q /\ stack[p][k].id = ds[j].id
    BY <2>1 DEF Matching
  <2> HIDE DEF ds, q
  <2> QED
    BY <1>6, <2>2
<1>8. stack[p][k].id \in Nat /\ ds[Len(ds)].id \in Nat
  <2>1. stack[p][k] \in Frame
    BY <1>1
  <2> QED
    BY <1>7, <2>1 DEF Frame
<1>9. k = n
  <2> SUFFICES ASSUME k # n PROVE FALSE
    OBVIOUS
  <2>1. k < n
    BY <1>1
  <2>2. stack[p][k].id < stack[p][n].id
    BY <1>1, <1>7, <2>1 DEF StackInv, Ordered, Pushed
  <2>3. i = Len(ds) \/ i < Len(ds)
    BY <1>3, <1>4
  <2>4. i = Len(ds) \/ ds[i].id < ds[Len(ds)].id
    BY <1>2, <1>4, <1>6, <2>3 DEF StackInv, Matching
  <2> QED
    BY <1>2, <1>4, <1>7, <1>8, <2>2, <2>4
<1> QED
  BY <1>1, <1>5, <1>6, <1>7, <1>9 DEF SendDoneEntry

\* The same send, at the same place of a stack before and after a step.
SameSend(f, g) ==
  /\ f.at \in SendPoints /\ g.at \in SendPoints
  /\ f.at = "push" <=> g.at = "push"
  /\ f.peer = g.peer /\ f.id = g.id

SendsKept ==
  \A p \in Proc :
    /\ \A i \in DOMAIN stack[p] : stack[p][i].at \in SendPoints =>
         i \in DOMAIN stack'[p] /\ SameSend(stack[p][i], stack'[p][i])
    /\ \A i \in DOMAIN stack'[p] : stack'[p][i].at \in SendPoints =>
         i \in DOMAIN stack[p] /\ SameSend(stack[p][i], stack'[p][i])
    /\ \A i \in DOMAIN stack'[p] : stack'[p][i].at = "push" => i = Len(stack'[p])

\* No entry is added, removed or renumbered.
SameEntries ==
  \A p, q \in Proc :
    /\ DOMAIN deserializers'[p][q] = DOMAIN deserializers[p][q]
    /\ \A i \in DOMAIN deserializers[p][q] :
         deserializers'[p][q][i].id = deserializers[p][q][i].id

LEMMA StackInvKept ==
  ASSUME StackInv, SendsKept, SameEntries, next_id' = next_id
  PROVE  StackInv'
<1> SUFFICES ASSUME NEW p \in Proc
             PROVE  /\ Ordered(stack'[p], next_id'[p])
                    /\ \A q \in Proc : Matching(stack'[p], deserializers'[p][q], q)
  BY DEF StackInv
<1>1. Ordered(stack[p], next_id[p]) /\ \A q \in Proc : Matching(stack[p], deserializers[p][q], q)
  BY DEF StackInv
<1>2. Ordered(stack'[p], next_id'[p])
  BY <1>1 DEF Ordered, SendsKept, SameSend
<1>3. ASSUME NEW q \in Proc PROVE Matching(stack'[p], deserializers'[p][q], q)
  <2> DEFINE ds == deserializers[p][q]
             es == deserializers'[p][q]
  <2>1. DOMAIN es = DOMAIN ds /\ \A i \in DOMAIN ds : es[i].id = ds[i].id
    BY DEF SameEntries
  <2>2. \A i, j \in DOMAIN es : i < j => es[i].id < es[j].id
    BY <1>1, <2>1 DEF Matching
  <2>3. ASSUME NEW i \in DOMAIN es
        PROVE  \E k \in DOMAIN stack'[p] : /\ stack'[p][k].at \in Pushed
                                           /\ stack'[p][k].peer = q
                                           /\ stack'[p][k].id = es[i].id
    <3>1. PICK k \in DOMAIN stack[p] : /\ stack[p][k].at \in Pushed
                                       /\ stack[p][k].peer = q
                                       /\ stack[p][k].id = ds[i].id
      BY <1>1, <2>1, <2>3 DEF Matching
    <3> QED
      BY <2>1, <2>3, <3>1 DEF SendsKept, SameSend, Pushed
  <2>4. ASSUME NEW k \in DOMAIN stack'[p], stack'[p][k].at \in Pushed,
               stack'[p][k].peer = q
        PROVE  \E i \in DOMAIN es : es[i].id = stack'[p][k].id
    <3>1. /\ k \in DOMAIN stack[p] /\ stack[p][k].at \in Pushed /\ stack[p][k].peer = q
          /\ stack[p][k].id = stack'[p][k].id
      BY <2>4 DEF SendsKept, SameSend, Pushed
    <3>2. PICK i \in DOMAIN ds : ds[i].id = stack[p][k].id
      BY <1>1, <3>1 DEF Matching
    <3> QED
      BY <2>1, <3>1, <3>2
  <2> QED
    BY <2>2, <2>3, <2>4 DEF Matching
<1> QED
  BY <1>2, <1>3

\* A call of code that is no Send: no send is left at "push" below it.
LEMMA EnterKeepsSends ==
  ASSUME TypeOK, StackInv, NEW p \in Proc, NEW f \in Frame, f.at \notin SendPoints,
         TopAt(p) # "push", Enter(p, f)
  PROVE  SendsKept
<1>1. stack \in [Proc -> Seq(Frame)]
  BY DEF TypeOK
<1>2. \A i \in DOMAIN stack[p] : stack[p][i].at # "push"
  BY DEF StackInv, Ordered, TopAt, Top, Last
<1>3. stack[p] \in Seq(Frame) /\ stack'[p] = Append(stack[p], f)
  BY <1>1 DEF Enter
<1>4. /\ DOMAIN stack'[p] = DOMAIN stack[p] \cup {Len(stack[p]) + 1}
      /\ \A i \in DOMAIN stack[p] : stack'[p][i] = stack[p][i]
      /\ stack'[p][Len(stack[p]) + 1] = f
  BY <1>3
<1>5. \A r \in Proc : r # p => stack'[r] = stack[r]
  BY <1>1 DEF Enter
<1>6. \A r \in Proc : \A i \in DOMAIN stack[r] : stack[r][i].at = "push" => i = Len(stack[r])
  BY DEF StackInv, Ordered
<1> QED
  BY <1>2, <1>4, <1>5, <1>6 DEF SendsKept, SameSend, SendPoints

\* The return of code that is no Send.
LEMMA ReturnKeepsSends ==
  ASSUME TypeOK, StackInv, NEW p \in Proc, stack[p] # <<>>,
         TopAt(p) \notin SendPoints, Return(p)
  PROVE  SendsKept
<1> DEFINE n == Len(stack[p])
<1>1. stack \in [Proc -> Seq(Frame)] /\ stack[p] \in Seq(Frame)
  BY DEF TypeOK
<1>2. n \in DOMAIN stack[p] /\ n \in Nat \ {0} /\ stack[p][n].at \notin SendPoints
  BY <1>1, TopType, LastType
<1>3. stack'[p] = SubSeq(stack[p], 1, n - 1)
  BY <1>1 DEF Return, Front
<1>4. /\ DOMAIN stack'[p] = (DOMAIN stack[p]) \ {n}
      /\ \A i \in DOMAIN stack'[p] : stack'[p][i] = stack[p][i]
  BY <1>1, <1>2, <1>3
<1>5. \A r \in Proc : r # p => stack'[r] = stack[r]
  BY <1>1 DEF Return
<1>6. \A r \in Proc : \A i \in DOMAIN stack[r] : stack[r][i].at = "push" => i = Len(stack[r])
  BY DEF StackInv, Ordered
<1> QED
  BY <1>2, <1>4, <1>5, <1>6 DEF SendsKept, SameSend, SendPoints

\* A Send that was pushed moves on.
LEMMA MoveToKeepsSends ==
  ASSUME TypeOK, StackInv, NEW p \in Proc, NEW at \in Pushed,
         TopAt(p) \in Pushed, MoveTo(p, at)
  PROVE  SendsKept
<1> DEFINE n == Len(stack[p])
<1>1. stack \in [Proc -> Seq(Frame)] /\ stack[p] \in Seq(Frame) /\ stack[p] # <<>>
  BY TopAtType DEF TypeOK, Pushed, SendPoints
<1>2. n \in DOMAIN stack[p] /\ stack[p][n].at \in Pushed /\ stack[p][n] \in Frame
  BY <1>1, TopType, LastType
<1>3. stack' = [stack EXCEPT ![p] = [stack[p] EXCEPT ![n] = [stack[p][n] EXCEPT !.at = at]]]
  BY DEF MoveTo
<1>4. stack'[p] = [stack[p] EXCEPT ![n] = [stack[p][n] EXCEPT !.at = at]]
  BY <1>1, <1>3
<1>5. [stack[p][n] EXCEPT !.at = at].at = at
  BY <1>2 DEF Frame
<1>6. /\ [stack[p][n] EXCEPT !.at = at].peer = stack[p][n].peer
      /\ [stack[p][n] EXCEPT !.at = at].id = stack[p][n].id
  BY <1>2 DEF Frame
<1>7. /\ DOMAIN stack'[p] = DOMAIN stack[p]
      /\ \A i \in DOMAIN stack[p] : i # n => stack'[p][i] = stack[p][i]
      /\ stack'[p][n].at = at
      /\ stack'[p][n].peer = stack[p][n].peer /\ stack'[p][n].id = stack[p][n].id
  <2> DEFINE g == [stack[p][n] EXCEPT !.at = at]
  <2> HIDE DEF g, n
  <2> QED
    BY <1>1, <1>2, <1>4, <1>5, <1>6 DEF g
<1>8. \A r \in Proc : r # p => stack'[r] = stack[r]
  BY <1>1, <1>3
<1>9. \A r \in Proc : \A i \in DOMAIN stack[r] : stack[r][i].at = "push" => i = Len(stack[r])
  BY DEF StackInv, Ordered
<1> QED
  BY <1>2, <1>7, <1>8, <1>9 DEF SendsKept, SameSend, Pushed

\* A step that leaves the stacks alone.
LEMMA SameStackKeepsSends ==
  ASSUME StackInv, UNCHANGED stack
  PROVE  SendsKept
  BY DEF SendsKept, SameSend, SendPoints, StackInv, Ordered

LEMMA UnchangedEntries ==
  ASSUME UNCHANGED deserializers
  PROVE  SameEntries
  BY DEF SameEntries

\* Signaling sends does not change which entries there are.
LEMMA SignalDoneSameEntries ==
  ASSUME TypeOK, NEW p \in Proc, NEW q \in Proc, NEW ds, NEW loop,
         DOMAIN ds = DOMAIN deserializers[p][q],
         \A i \in DOMAIN ds : ds[i].id = deserializers[p][q][i].id,
         SignalDone(p, q, ds, loop)
  PROVE  SameEntries
<1>1. deserializers \in [Proc -> [Proc -> Seq(PendingSyncMsg)]]
  BY DEF TypeOK
<1>2. deserializers' = [deserializers EXCEPT ![p][q] = ds]
  BY DEF SignalDone
<1>3. \A r, s \in Proc : deserializers'[r][s] =
        IF r = p /\ s = q THEN ds ELSE deserializers[r][s]
  BY <1>1, <1>2
<1> QED
  BY <1>3 DEF SameEntries

LEMMA CancelSameEntries ==
  ASSUME TypeOK, NEW p \in Proc, NEW q \in Proc, NEW loop, CancelPendingSends(p, q, loop)
  PROVE  SameEntries
<1> DEFINE s == deserializers[p][q]
           t == [i \in DOMAIN s |-> [s[i] EXCEPT !.done = TRUE]]
<1>1. s \in Seq(PendingSyncMsg)
  BY DEF TypeOK
<1>2. \A i \in DOMAIN s : s[i] \in PendingSyncMsg
  BY <1>1
<1>3. DOMAIN t = DOMAIN s /\ \A i \in DOMAIN t : t[i].id = s[i].id
  BY <1>2 DEF PendingSyncMsg
<1>4. SignalDone(p, q, t, loop)
  BY DEF CancelPendingSends
<1> QED
  <2> HIDE DEF t
  <2> QED
    BY <1>3, <1>4, SignalDoneSameEntries

LEMMA UnblockSameEntries ==
  ASSUME TypeOK, NEW p \in Proc, NEW q \in Proc, NEW m,
         Unblocks(p, q, m), UnblockListener(p, q, m)
  PROVE  SameEntries
<1> DEFINE ds == deserializers[p][q]
           n == Len(ds)
           e == [ds[n] EXCEPT !.done = TRUE]
           f == [e EXCEPT !.result = IF m.ok THEN TRUE ELSE @]
           t == [ds EXCEPT ![n].done = TRUE, ![n].result = IF m.ok THEN TRUE ELSE @]
<1>1. ds \in Seq(PendingSyncMsg) /\ ds # <<>>
  BY DEF TypeOK, Unblocks
<1>2. n \in DOMAIN ds /\ ds[n] \in PendingSyncMsg
  BY <1>1, LastType
<1>3. e.id = ds[n].id
  BY <1>2 DEF PendingSyncMsg
<1>4. f.id = ds[n].id
  BY <1>2, <1>3 DEF PendingSyncMsg
<1>5. t = [ds EXCEPT ![n] = f]
  BY <1>1, <1>2
<1>6. DOMAIN t = DOMAIN ds /\ \A i \in DOMAIN t : t[i].id = ds[i].id
  <2> HIDE DEF ds, f, t, n
  <2> QED
    BY <1>1, <1>2, <1>4, <1>5
<1>7. SignalDone(p, q, t, listener_loop[p])
  BY DEF UnblockListener
<1> QED
  <2> HIDE DEF t
  <2> QED
    BY <1>6, <1>7, SignalDoneSameEntries

\* The pushed sends of q are the same in two stacks.
SamePushed(st, tt, q) ==
  /\ \A k \in DOMAIN st : st[k].at \in Pushed /\ st[k].peer = q =>
       k \in DOMAIN tt /\ tt[k].at \in Pushed /\ tt[k].peer = q /\ tt[k].id = st[k].id
  /\ \A k \in DOMAIN tt : tt[k].at \in Pushed /\ tt[k].peer = q =>
       k \in DOMAIN st /\ st[k].at \in Pushed /\ st[k].peer = q /\ tt[k].id = st[k].id

LEMMA MatchingKept ==
  ASSUME NEW st, NEW tt, NEW ds, NEW q, Matching(st, ds, q), SamePushed(st, tt, q)
  PROVE  Matching(tt, ds, q)
<1>1. \A i \in DOMAIN ds : \E k \in DOMAIN tt :
        tt[k].at \in Pushed /\ tt[k].peer = q /\ tt[k].id = ds[i].id
  BY DEF Matching, SamePushed
<1>2. \A k \in DOMAIN tt : tt[k].at \in Pushed /\ tt[k].peer = q =>
        \E i \in DOMAIN ds : ds[i].id = tt[k].id
  BY DEF Matching, SamePushed
<1> QED
  BY <1>1, <1>2 DEF Matching

LEMMA OrderedKept ==
  ASSUME NEW st \in Seq(Frame), NEW m \in Nat, NEW n \in Nat, m <= n, Ordered(st, m)
  PROVE  Ordered(st, n)
<1>1. \A i \in DOMAIN st : st[i].id \in Nat
  <2>1. \A i \in DOMAIN st : st[i] \in Frame
    OBVIOUS
  <2> QED
    BY <2>1 DEF Frame
<1> QED
  BY <1>1 DEF Ordered

\* A new Send, whose id is larger than all ids of the stack.
LEMMA BeginSendStackInv ==
  ASSUME TypeOK, StackInv, NEW p \in Proc, NEW q \in Proc, NEW kind, NEW timed, NEW pumped,
         BeginSend(p, q, kind, timed, pumped)
  PROVE  StackInv'
<1> DEFINE n == Len(stack[p])
           f == [at |-> "push", peer |-> q, id |-> next_id[p], timed |-> timed,
                 pumped |-> pumped]
<1>1. /\ stack \in [Proc -> Seq(Frame)] /\ stack[p] \in Seq(Frame) /\ n \in Nat
      /\ next_id \in [Proc -> Nat] /\ next_id[p] \in Nat
  <2>1. stack \in [Proc -> Seq(Frame)] /\ next_id \in [Proc -> Nat]
    BY DEF TypeOK
  <2> QED
    BY <2>1, LenProperties
<1>2. next_id'[p] = next_id[p] + 1 /\ \A r \in Proc : r # p => next_id'[r] = next_id[r]
  BY <1>1 DEF BeginSend
<1>3. \A i \in DOMAIN stack[p] : stack[p][i].at # "push"
  BY DEF StackInv, Ordered, TopAt, Top, Last, BeginSend, InApplication, HandlerPoints
<1>4. UNCHANGED deserializers
  BY DEF BeginSend
<1>5. \A i \in DOMAIN stack[p] : stack[p][i].id \in Nat
  <2>1. \A i \in DOMAIN stack[p] : stack[p][i] \in Frame
    BY <1>1
  <2> QED
    BY <2>1 DEF Frame
<1>6. \A r \in Proc : r # p => stack'[r] = stack[r]
  BY <1>1 DEF BeginSend, Enter
<1>7. CASE stack' = stack
  <2> SUFFICES ASSUME NEW r \in Proc
               PROVE  Ordered(stack[r], next_id'[r])
    BY <1>4, <1>7 DEF StackInv
  <2>1. next_id[r] \in Nat
    BY <1>1
  <2>2. next_id'[r] = next_id[r] \/ next_id'[r] = next_id[r] + 1
    BY <1>2
  <2>3. next_id'[r] \in Nat /\ next_id[r] <= next_id'[r]
    BY <2>1, <2>2
  <2> QED
    BY <1>1, <2>1, <2>3, OrderedKept DEF StackInv
<1>8. CASE stack'[p] = Append(stack[p], f)
  <2>1. /\ DOMAIN stack'[p] = DOMAIN stack[p] \cup {n + 1} /\ Len(stack'[p]) = n + 1
        /\ \A i \in DOMAIN stack[p] : stack'[p][i] = stack[p][i] /\ i < n + 1 /\ i \in Nat
        /\ stack'[p][n + 1] = f
    BY <1>1, <1>8
  <2>2. f.at = "push" /\ f.id = next_id[p]
    OBVIOUS
  <2>3. Ordered(stack[p], next_id[p])
    BY DEF StackInv
  <2> HIDE DEF n, f
  <2>4. Ordered(stack'[p], next_id'[p])
    <3>1. \A i, j \in DOMAIN stack'[p] :
            i < j /\ stack'[p][i].at \in SendPoints /\ stack'[p][j].at \in SendPoints
              => stack'[p][i].id < stack'[p][j].id
      <4> SUFFICES ASSUME NEW i \in DOMAIN stack'[p], NEW j \in DOMAIN stack'[p], i < j,
                          stack'[p][i].at \in SendPoints, stack'[p][j].at \in SendPoints
                   PROVE  stack'[p][i].id < stack'[p][j].id
        OBVIOUS
      <4>1. i \in DOMAIN stack[p]
        BY <1>1, <2>1 DEF n
      <4>2. CASE j \in DOMAIN stack[p]
        BY <2>1, <2>3, <4>1, <4>2 DEF Ordered
      <4>3. CASE j = n + 1
        BY <2>1, <2>2, <2>3, <4>1, <4>3 DEF Ordered
      <4> QED
        BY <2>1, <4>2, <4>3
    <3>2. \A i \in DOMAIN stack'[p] :
            stack'[p][i].at \in SendPoints => stack'[p][i].id < next_id'[p]
      BY <1>1, <1>2, <1>5, <2>1, <2>2, <2>3 DEF Ordered
    <3>3. \A i \in DOMAIN stack'[p] : stack'[p][i].at = "push" => i = Len(stack'[p])
      BY <1>3, <2>1
    <3> QED
      BY <3>1, <3>2, <3>3 DEF Ordered
  <2>5. \A r \in Proc : Matching(stack'[p], deserializers'[p][r], r)
    <3>1. \A r \in Proc : SamePushed(stack[p], stack'[p], r)
      BY <2>1, <2>2 DEF SamePushed, Pushed
    <3> QED
      BY <1>4, <3>1, MatchingKept DEF StackInv
  <2>6. \A r \in Proc : r # p =>
        /\ Ordered(stack'[r], next_id'[r])
        /\ \A s \in Proc : Matching(stack'[r], deserializers'[r][s], s)
    BY <1>2, <1>4, <1>6 DEF StackInv, Ordered, Matching
  <2> QED
    BY <2>4, <2>5, <2>6 DEF StackInv
<1> QED
  BY <1>1, <1>7, <1>8 DEF BeginSend, Enter

\* Push: the entry of the send that runs goes on top.
LEMMA PushSendStackInv ==
  ASSUME TypeOK, StackInv, NEW p \in Proc, PushSend(p)
  PROVE  StackInv'
<1> DEFINE n == Len(stack[p])
           q == Top(p).peer
           ds == deserializers[p][q]
           es == deserializers'[p][q]
           e == [id |-> Top(p).id, done |-> FALSE, result |-> FALSE]
<1>1. /\ stack \in [Proc -> Seq(Frame)] /\ stack[p] \in Seq(Frame) /\ stack[p] # <<>>
      /\ deserializers \in [Proc -> [Proc -> Seq(PendingSyncMsg)]]
  BY TopAtType DEF TypeOK, PushSend
<1>2. /\ n \in DOMAIN stack[p] /\ Top(p) = stack[p][n] /\ stack[p][n] \in Frame
      /\ stack[p][n].at = "push"
  BY <1>1, TopType, LastType DEF PushSend
<1>3. q \in Proc /\ stack[p][n].id \in Nat
  BY <1>2 DEF Frame
<1>4. ds \in Seq(PendingSyncMsg)
  BY <1>1, <1>3
<1>5. deserializers' = [deserializers EXCEPT ![p][q] = Append(ds, e)]
  BY DEF PushSend
<1>6. /\ es = Append(ds, e)
      /\ \A r, s \in Proc : r # p \/ s # q => deserializers'[r][s] = deserializers[r][s]
  BY <1>1, <1>3, <1>5
<1>7. /\ DOMAIN es = DOMAIN ds \cup {Len(ds) + 1}
      /\ \A i \in DOMAIN ds : es[i] = ds[i] /\ i < Len(ds) + 1 /\ i \in Nat
      /\ es[Len(ds) + 1].id = stack[p][n].id /\ Len(ds) \in Nat
  <2>1. e.id = stack[p][n].id
    BY <1>2
  <2> HIDE DEF ds, es, e
  <2> QED
    BY <1>4, <1>6, <2>1
<1>8. stack' = [stack EXCEPT ![p] =
                  [stack[p] EXCEPT ![n] = [stack[p][n] EXCEPT !.at = "post"]]]
  BY DEF PushSend, MoveTo
<1>9. /\ \A r \in Proc : r # p => stack'[r] = stack[r]
      /\ DOMAIN stack'[p] = DOMAIN stack[p]
      /\ \A i \in DOMAIN stack[p] : i # n => stack'[p][i] = stack[p][i]
      /\ stack'[p][n].at = "post"
      /\ stack'[p][n].peer = q /\ stack'[p][n].id = stack[p][n].id
  <2>1. stack'[p] = [stack[p] EXCEPT ![n] = [stack[p][n] EXCEPT !.at = "post"]]
    BY <1>1, <1>8
  <2>2. /\ [stack[p][n] EXCEPT !.at = "post"].at = "post"
        /\ [stack[p][n] EXCEPT !.at = "post"].peer = q
        /\ [stack[p][n] EXCEPT !.at = "post"].id = stack[p][n].id
    BY <1>2 DEF Frame
  <2> DEFINE g == [stack[p][n] EXCEPT !.at = "post"]
  <2> HIDE DEF g, n, q
  <2> QED
    BY <1>1, <1>2, <1>8, <2>1, <2>2 DEF g
<1>10. Ordered(stack[p], next_id[p]) /\ (\A s \in Proc : Matching(stack[p], deserializers[p][s], s)) /\ next_id' = next_id
  BY DEF StackInv, PushSend
<1>11. \A i \in DOMAIN stack[p] : i # n => stack[p][i].at # "push"
  BY <1>10 DEF Ordered
<1>12. \A i \in DOMAIN stack[p] : i # n => i < n
  BY <1>1, <1>2
<1>13. \A r \in Proc : r # p =>
       /\ Ordered(stack'[r], next_id'[r])
       /\ \A s \in Proc : Matching(stack'[r], deserializers'[r][s], s)
  BY <1>6, <1>9, <1>10 DEF StackInv
<1> HIDE DEF n, q, ds, es, e
<1>14. Ordered(stack'[p], next_id'[p])
  BY <1>2, <1>9, <1>10, <1>11 DEF Ordered, SendPoints
<1>15. ASSUME NEW s \in Proc, s # q PROVE Matching(stack'[p], deserializers'[p][s], s)
  <2>1. SamePushed(stack[p], stack'[p], s)
    BY <1>2, <1>9, <1>15 DEF SamePushed, Pushed, q
  <2> QED
    BY <1>6, <1>10, <1>15, <2>1, MatchingKept
<1>16. Matching(stack'[p], deserializers'[p][q], q)
  <2>1. Matching(stack[p], deserializers[p][q], q)
    BY <1>3, <1>10
  <2>2. \A i \in DOMAIN ds : ds[i].id < stack[p][n].id
    <3> SUFFICES ASSUME NEW i \in DOMAIN ds PROVE ds[i].id < stack[p][n].id
      OBVIOUS
    <3>1. PICK k \in DOMAIN stack[p] : stack[p][k].at \in Pushed /\ stack[p][k].id = ds[i].id
      BY <2>1 DEF Matching, ds
    <3>2. k < n
      BY <1>2, <1>12, <3>1 DEF Pushed
    <3> QED
      BY <1>2, <1>10, <3>1, <3>2 DEF Ordered, Pushed, SendPoints
  <2>3. \A i, j \in DOMAIN es : i < j => es[i].id < es[j].id
    <3> SUFFICES ASSUME NEW i \in DOMAIN es, NEW j \in DOMAIN es, i < j
                 PROVE  es[i].id < es[j].id
      OBVIOUS
    <3>1. i \in DOMAIN ds
      BY <1>7
    <3>2. CASE j \in DOMAIN ds
      BY <1>7, <2>1, <3>1, <3>2 DEF Matching, ds
    <3>3. CASE j = Len(ds) + 1
      BY <1>7, <2>2, <3>1, <3>3
    <3> QED
      BY <1>7, <3>2, <3>3
  <2>4. ASSUME NEW i \in DOMAIN es
        PROVE  \E k \in DOMAIN stack'[p] : /\ stack'[p][k].at \in Pushed
                                           /\ stack'[p][k].peer = q
                                           /\ stack'[p][k].id = es[i].id
    <3>1. CASE i \in DOMAIN ds
      <4>1. PICK k \in DOMAIN stack[p] : /\ stack[p][k].at \in Pushed
                                         /\ stack[p][k].peer = q
                                         /\ stack[p][k].id = ds[i].id
        BY <2>1, <3>1 DEF Matching, ds
      <4>2. k # n
        BY <1>2, <4>1 DEF Pushed
      <4> QED
        BY <1>7, <1>9, <3>1, <4>1, <4>2
    <3>2. CASE i = Len(ds) + 1
      BY <1>2, <1>7, <1>9, <3>2 DEF Pushed, SendPoints
    <3> QED
      BY <1>7, <3>1, <3>2
  <2>5. ASSUME NEW k \in DOMAIN stack'[p], stack'[p][k].at \in Pushed, stack'[p][k].peer = q
        PROVE  \E i \in DOMAIN es : es[i].id = stack'[p][k].id
    <3>1. CASE k = n
      BY <1>7, <1>9, <3>1
    <3>2. CASE k # n
      <4>1. k \in DOMAIN stack[p] /\ stack[p][k].at \in Pushed /\ stack[p][k].peer = q
        BY <1>9, <2>5, <3>2
      <4>2. PICK i \in DOMAIN ds : ds[i].id = stack[p][k].id
        BY <2>1, <4>1 DEF Matching, ds
      <4> QED
        BY <1>7, <1>9, <3>2, <4>1, <4>2
    <3> QED
      BY <3>1, <3>2
  <2> QED
    BY <2>3, <2>4, <2>5 DEF Matching, es
<1> QED
  BY <1>13, <1>14, <1>15, <1>16 DEF StackInv

\* Pop: the last entry and the send that runs go together.
LEMMA PopSendStackInv ==
  ASSUME TypeOK, StackInv, NEW p \in Proc, PopSend(p)
  PROVE  StackInv'
<1> DEFINE st == stack[p]
           tt == stack'[p]
           n == Len(st)
           q == st[n].peer
           ds == deserializers[p][q]
           es == deserializers'[p][q]
           m == Len(ds)
<1>1. /\ stack \in [Proc -> Seq(Frame)] /\ st \in Seq(Frame) /\ st # <<>>
      /\ deserializers \in [Proc -> [Proc -> Seq(PendingSyncMsg)]]
  BY TopAtType DEF TypeOK, PopSend
<1>2. n \in DOMAIN st /\ n \in Nat \ {0} /\ Top(p) = st[n] /\ st[n] \in Frame /\ st[n].at = "pop"
  BY <1>1, TopType, LastType DEF PopSend
<1>3. q \in Proc /\ st[n].id \in Nat
  BY <1>2 DEF Frame
<1>4. /\ Ordered(st, next_id[p]) /\ next_id' = next_id
      /\ \A s \in Proc : Matching(st, deserializers[p][s], s)
  BY DEF StackInv, PopSend
<1>5. ds \in Seq(PendingSyncMsg) /\ ds # <<>> /\ Last(ds).id = st[n].id
  <2>1. SendOwnsLastEntry
    BY StackInvOwns
  <2>2. TopAt(p) \in SendPoints \ {"push"}
    BY DEF PopSend, SendPoints
  <2>3. ds # <<>> /\ Last(ds).id = st[n].id
    BY <1>2, <2>1, <2>2 DEF SendOwnsLastEntry, SendDoneEntry
  <2> QED
    BY <1>1, <1>3, <2>3
<1>6. m \in DOMAIN ds /\ m \in Nat \ {0} /\ ds[m].id = st[n].id
  BY <1>5, LastType
<1>7. /\ tt = SubSeq(st, 1, n - 1)
      /\ \A r \in Proc : r # p => stack'[r] = stack[r]
  BY <1>1 DEF PopSend, Return, Front
<1>8. DOMAIN tt = (DOMAIN st) \ {n} /\ \A i \in DOMAIN tt : tt[i] = st[i]
  <2> HIDE DEF st, tt
  <2> QED
    BY <1>1, <1>2, <1>7 DEF n
<1>9. /\ es = SubSeq(ds, 1, m - 1)
      /\ \A r, s \in Proc : r # p \/ s # q => deserializers'[r][s] = deserializers[r][s]
  <2>1. deserializers' = [deserializers EXCEPT ![p][q] = Front(ds)]
    BY <1>2 DEF PopSend
  <2> HIDE DEF q
  <2> QED
    BY <1>1, <1>3, <2>1 DEF Front
<1>10. DOMAIN es = (DOMAIN ds) \ {m} /\ \A i \in DOMAIN es : es[i] = ds[i]
  <2> HIDE DEF ds, es
  <2> QED
    BY <1>5, <1>6, <1>9 DEF m
<1>11. \A r \in Proc : r # p =>
         /\ Ordered(stack'[r], next_id'[r])
         /\ \A s \in Proc : Matching(stack'[r], deserializers'[r][s], s)
  BY <1>4, <1>7, <1>9 DEF StackInv
<1>12. \A i \in DOMAIN st : i # n => i < n
  BY <1>1, <1>2
<1>13. \A i \in DOMAIN ds : i # m => i < m
  BY <1>5, <1>6
<1> HIDE DEF st, tt, n, q, ds, es, m
<1>14. Ordered(tt, next_id'[p])
  <2>1. \A i \in DOMAIN tt : i \in DOMAIN st /\ i # n /\ tt[i] = st[i]
    BY <1>8
  <2>2. \A i \in DOMAIN st : st[i].at = "push" => i = n
    BY <1>4 DEF Ordered, n
  <2> QED
    BY <1>4, <2>1, <2>2 DEF Ordered
<1>15. ASSUME NEW s \in Proc, s # q PROVE Matching(tt, deserializers'[p][s], s)
  <2>1. SamePushed(st, tt, s)
    BY <1>8, <1>15 DEF SamePushed, Pushed, q
  <2> QED
    BY <1>4, <1>9, <1>15, <2>1, MatchingKept
<1>16. Matching(tt, es, q)
  <2>1. Matching(st, ds, q)
    BY <1>3, <1>4 DEF ds
  <2>2. \A i, j \in DOMAIN es : i < j => es[i].id < es[j].id
    BY <1>10, <2>1 DEF Matching
  <2>3. ASSUME NEW i \in DOMAIN es
        PROVE  \E k \in DOMAIN tt :
                 tt[k].at \in Pushed /\ tt[k].peer = q /\ tt[k].id = es[i].id
    <3>1. i \in DOMAIN ds /\ i # m /\ es[i] = ds[i]
      BY <1>10
    <3>2. PICK k \in DOMAIN st : st[k].at \in Pushed /\ st[k].peer = q /\ st[k].id = ds[i].id
      BY <2>1, <3>1 DEF Matching
    <3>3. ds[i].id < ds[m].id
      BY <1>6, <1>13, <2>1, <3>1 DEF Matching
    <3>4. k # n
      BY <1>3, <1>6, <3>2, <3>3
    <3> QED
      BY <1>8, <3>1, <3>2, <3>4
  <2>4. ASSUME NEW k \in DOMAIN tt, tt[k].at \in Pushed, tt[k].peer = q
        PROVE  \E i \in DOMAIN es : es[i].id = tt[k].id
    <3>1. k \in DOMAIN st /\ k # n /\ tt[k] = st[k]
      BY <1>8
    <3>2. PICK i \in DOMAIN ds : ds[i].id = st[k].id
      BY <2>1, <2>4, <3>1 DEF Matching
    <3>3. st[k].id < st[n].id
      BY <1>2, <1>4, <1>12, <2>4, <3>1 DEF Ordered, Pushed, SendPoints
    <3>4. i # m
      BY <1>3, <1>6, <3>2, <3>3
    <3> QED
      BY <1>10, <3>1, <3>2, <3>4
  <2> QED
    BY <2>2, <2>3, <2>4 DEF Matching
<1> QED
  BY <1>9, <1>11, <1>14, <1>15, <1>16 DEF StackInv, tt, es

LEMMA RunTaskSends ==
  ASSUME TypeOK, StackInv, NEW p \in Proc, RunTask(p)
  PROVE  SendsKept
<1>1. TopAt(p) # "push"
  BY DEF RunTask, Looping
<1>2. CASE RunDispatchTask(p) \/ RunWatchTask(p)
  <2>1. Call("dispatch", p, 0) \in Frame /\ Call("dispatch", p, 0).at \notin SendPoints
    BY DispatchFrame DEF Call, SendPoints
  <2> QED
    BY <1>1, <1>2, <2>1, EnterKeepsSends DEF RunDispatchTask, RunWatchTask
<1>3. CASE RunQuitTask(p)
  BY <1>3, MoveToKeepsSends DEF RunQuitTask, Pushed, SendPoints
<1>4. CASE RunOtherTask(p)
  <2>1. NextTask(p).peer \in Proc /\ NextTask(p).id \in Nat
    BY TakeTaskType DEF RunTask
  <2>2. /\ Call("async", NextTask(p).peer, NextTask(p).id) \in Frame
        /\ Call("async", NextTask(p).peer, NextTask(p).id).at \notin SendPoints
    BY <2>1 DEF Call, Frame, SendPoints, HandlerPoints
  <2> QED
    BY <1>1, <1>4, <2>2, EnterKeepsSends, SameStackKeepsSends DEF RunOtherTask
<1> QED
  BY <1>2, <1>3, <1>4 DEF RunTask

LEMMA DispatchMessageSends ==
  ASSUME TypeOK, StackInv, NEW p \in Proc, DispatchMessage(p)
  PROVE  SendsKept
<1>1. stack[p] # <<>> /\ TopAt(p) # "push" /\ TopAt(p) \notin SendPoints
  BY TopAtType DEF DispatchMessage, SendPoints
<1>2. CASE message_queue[p] = <<>>
  BY <1>1, <1>2, ReturnKeepsSends DEF DispatchMessage
<1>3. CASE message_queue[p] # <<>>
  <2> DEFINE m == Head(message_queue[p])
  <2>1. message_queue[p] \in Seq(SendRef)
    BY DEF TypeOK
  <2>2. m \in SendRef
    BY <1>3, <2>1, HeadTailType
  <2>3. /\ Call("sync", m.peer, m.id) \in Frame
        /\ Call("sync", m.peer, m.id).at \notin SendPoints
    BY <2>2 DEF SendRef, Call, Frame, SendPoints, HandlerPoints
  <2> QED
    BY <1>1, <1>3, <2>3, EnterKeepsSends, SameStackKeepsSends DEF DispatchMessage
<1> QED
  BY <1>2, <1>3

LEMMA RunIpcTaskEntries ==
  ASSUME TypeOK, NEW p \in Proc, RunIpcTask(p)
  PROVE  SameEntries
<1>1. NextIpcTask(p).peer \in Proc
  BY TakeIpcTaskType DEF RunIpcTask
<1>2. CASE RunSendTask(p)
  BY <1>1, <1>2, CancelSameEntries, UnchangedEntries DEF RunSendTask, Disconnect
<1>3. CASE RunDispatchReplies(p)
  <2>1. CASE Deliverable(p) = {}
    BY <1>3, <2>1, UnchangedEntries DEF RunDispatchReplies
  <2>2. CASE Deliverable(p) # {}
    <3>1. PICK i \in Deliverable(p) :
            UnblockListener(p, received_replies[p][i].peer, received_replies[p][i].msg)
      BY <1>3, <2>2 DEF RunDispatchReplies
    <3>2. received_replies[p] \in Seq(QueuedReply) /\ i \in DOMAIN received_replies[p]
      BY DEF TypeOK, Deliverable
    <3>3. received_replies[p][i] \in QueuedReply
      BY <3>2
    <3> QED
      BY <3>1, <3>3, UnblockSameEntries DEF Deliverable, QueuedReply
  <2> QED
    BY <2>1, <2>2
<1>4. CASE RunCloseTask(p)
  BY <1>1, <1>4, CancelSameEntries DEF RunCloseTask, Disconnect
<1>5. CASE RunShutdownTask(p)
  BY <1>1, <1>5, CancelSameEntries, UnchangedEntries DEF RunShutdownTask
<1> QED
  BY <1>2, <1>3, <1>4, <1>5 DEF RunIpcTask

LEMMA RunTimeoutEntries ==
  ASSUME TypeOK, NEW p \in Proc, NEW w \in timers[p], RunTimeout(p, w)
  PROVE  SameEntries
<1> DEFINE s == deserializers[p][w.peer]
           t == [i \in DOMAIN s |-> [s[i] EXCEPT !.done = @ \/ s[i].id = w.id]]
<1>1. w \in SendRef
  BY DEF TypeOK
<1>2. w.peer \in Proc
  BY <1>1 DEF SendRef
<1>3. s \in Seq(PendingSyncMsg)
  <2>1. deserializers \in [Proc -> [Proc -> Seq(PendingSyncMsg)]]
    BY DEF TypeOK
  <2> QED
    BY <1>2, <2>1
<1>4. \A i \in DOMAIN s : s[i] \in PendingSyncMsg
  BY <1>3
<1>5. DOMAIN t = DOMAIN s /\ \A i \in DOMAIN t : t[i].id = s[i].id
  BY <1>4 DEF PendingSyncMsg
<1>6. SignalDone(p, w.peer, t, listener_loop[p])
  BY DEF RunTimeout
<1> QED
  <2> HIDE DEF t
  <2> QED
    BY <1>2, <1>5, <1>6, SignalDoneSameEntries

LEMMA ReceiveEntries ==
  ASSUME TypeOK, NEW p \in Proc, NEW q \in Proc, Receive(p, q)
  PROVE  SameEntries
<1> DEFINE m == Head(pipe[q][p])
<1>1. (Unblocks(p, q, m) /\ UnblockListener(p, q, m)) \/ UNCHANGED deserializers
  BY DEF Receive
<1> QED
  <2> HIDE DEF m
  <2> QED
    BY <1>1, UnblockSameEntries, UnchangedEntries

LEMMA NextStackInv ==
  ASSUME TypeOK, StackInv, [Next]_vars
  PROVE  StackInv'
<1>1. ASSUME UNCHANGED stack, UNCHANGED next_id, SameEntries
      PROVE  StackInv'
  BY <1>1, SameStackKeepsSends, StackInvKept
<1>2. ASSUME SendsKept, UNCHANGED next_id, UNCHANGED deserializers
      PROVE  StackInv'
  BY <1>2, StackInvKept, UnchangedEntries
<1>3. CASE UNCHANGED vars
  BY <1>1, <1>3, UnchangedEntries DEF vars, listenerVars
<1>4. ASSUME NEW p \in Proc, SendStep(p)
      PROVE  StackInv'
  <2>1. CASE PushSend(p)
    BY <2>1, PushSendStackInv
  <2>2. CASE PopSend(p)
    BY <2>2, PopSendStackInv
  <2>3. CASE PostSend(p)
    BY <1>2, <2>3, MoveToKeepsSends DEF PostSend, Pushed, SendPoints
  <2>4. CASE WaitReturnsDone(p)
    BY <1>2, <2>4, MoveToKeepsSends DEF WaitReturnsDone, Pushed, SendPoints
  <2>5. CASE WaitReturnsPump(p)
    BY <1>2, <2>5, MoveToKeepsSends DEF WaitReturnsPump, Pushed, SendPoints
  <2>6. CASE WaitReturnsDispatch(p)
    <3>1. Call("dispatch", p, 0) \in Frame /\ Call("dispatch", p, 0).at \notin SendPoints
      BY DispatchFrame DEF Call, SendPoints
    <3>2. SendsKept
      BY <2>6, <3>1, EnterKeepsSends DEF WaitReturnsDispatch
    <3> QED
      BY <1>2, <2>6, <3>2 DEF WaitReturnsDispatch
  <2> QED
    BY <1>4, <2>1, <2>2, <2>3, <2>4, <2>5, <2>6 DEF SendStep
<1>5. ASSUME NEW p \in Proc, IpcStep(p)
      PROVE  StackInv'
  <2>1. CASE RunIpcTask(p)
    BY <1>1, <2>1, RunIpcTaskEntries DEF RunIpcTask
  <2>2. CASE SignalDispatchEvent(p)
    BY <1>1, <2>2, UnchangedEntries DEF SignalDispatchEvent
  <2>3. CASE PostDispatchTask(p)
    BY <1>1, <2>3, UnchangedEntries DEF PostDispatchTask, listenerVars
  <2>4. ASSUME NEW q \in Proc, Receive(p, q) PROVE StackInv'
    BY <1>1, <2>4, ReceiveEntries DEF Receive
  <2>5. ASSUME NEW q \in Proc, ReadError(p, q) PROVE StackInv'
    BY <1>1, <2>5, CancelSameEntries DEF ReadError, Disconnect
  <2> QED
    BY <1>5, <2>1, <2>2, <2>3, <2>4, <2>5 DEF IpcStep
<1>6. ASSUME NEW p \in Proc, DispatchMessage(p) PROVE StackInv'
  BY <1>2, <1>6, DispatchMessageSends DEF DispatchMessage
<1>7. ASSUME NEW p \in Proc, RunTask(p) PROVE StackInv'
  BY <1>2, <1>7, RunTaskSends DEF RunTask
<1>8. ASSUME NEW p \in Proc, NEW ok, FinishHandler(p, ok) PROVE StackInv'
  <2>1. stack[p] # <<>> /\ TopAt(p) \notin SendPoints
    BY <1>8, TopAtType DEF FinishHandler, HandlerPoints, SendPoints
  <2> QED
    BY <1>2, <1>8, <2>1, ReturnKeepsSends DEF FinishHandler
<1>9. ASSUME NEW p \in Proc, NEW q \in Proc, CloseChannel(p, q) PROVE StackInv'
  BY <1>1, <1>9, CancelSameEntries DEF CloseChannel
<1>10. ASSUME NEW p \in Proc, NEW w \in timers[p], RunTimeout(p, w) PROVE StackInv'
  BY <1>1, <1>10, RunTimeoutEntries DEF RunTimeout
<1>11. ASSUME NEW p \in Proc, Shutdown(p) \/ Crash(p) PROVE StackInv'
  BY <1>1, <1>11, UnchangedEntries DEF Shutdown, Crash, listenerVars
<1>12. ASSUME NEW p \in Proc, NEW q \in Proc, NEW kind, NEW timed, NEW pumped,
              BeginSend(p, q, kind, timed, pumped)
       PROVE  StackInv'
  BY <1>12, BeginSendStackInv
<1> QED
  BY <1>3, <1>4, <1>5, <1>6, <1>7, <1>8, <1>9, <1>10, <1>11, <1>12 DEF Next

LEMMA InitStackInv ==
  ASSUME Init
  PROVE  StackInv
<1>1. DOMAIN (<<>>) = {}
  BY EmptySeq
<1> QED
  BY <1>1 DEF Init, StackInv, Ordered, Matching

\* The variables always have their types: no step reads the entry of a Send
\* that is not there.
THEOREM TypeCorrect == Spec => []TypeOK
<1>1. Init => TypeOK /\ StackInv
  BY InitType, InitStackInv
<1>2. TypeOK /\ StackInv /\ [Next]_vars => (TypeOK /\ StackInv)'
  BY NextType, NextStackInv, StackInvOwns
<1> QED
  BY <1>1, <1>2, PTL DEF Spec

\* Pop takes deserializers_.back() without looking at its id: whatever sends
\* the handlers that ran in between have made, on any channel, that entry is the
\* one of the Send that returns.
THEOREM SendOwnsLast == Spec => []SendOwnsLastEntry
<1>1. Init => TypeOK /\ StackInv
  BY InitType, InitStackInv
<1>2. TypeOK /\ StackInv /\ [Next]_vars => (TypeOK /\ StackInv)'
  BY NextType, NextStackInv, StackInvOwns
<1>3. TypeOK /\ StackInv => SendOwnsLastEntry
  BY StackInvOwns
<1> QED
  BY <1>1, <1>2, <1>3, PTL DEF Spec

=============================================================================
