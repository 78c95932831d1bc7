------------------------ MODULE SyncChannelQueueProofs ------------------------
(* Theorems about the replies and the message queue of SyncChannel, for     *)
(* every value of its constants.                                            *)
EXTENDS SyncChannelProofs

----------------------------------------------------------------------------
(* A Send succeeds only if the peer answered it.  Every reply on its way    *)
(* carries an answer that was given; ans stands for answered.               *)

\* A successful reply m of process q to process p was really given.
Honest(m, p, q, ans) == m.kind = "reply" /\ m.ok => <<p, q, m.id>> \in ans

HonestEntries(ds, p, q, ans) == \A i \in DOMAIN ds : ds[i].result => <<p, q, ds[i].id>> \in ans
HonestPipe(s, p, q, ans) == \A i \in DOMAIN s : Honest(s[i], p, q, ans)
HonestLoop(l, q, ans) ==
  \A i \in DOMAIN l : l[i].kind = "send" => Honest(l[i].msg, l[i].peer, q, ans)
HonestReplies(r, p, ans) == \A i \in DOMAIN r : Honest(r[i].msg, p, r[i].peer, ans)

EntriesInv == \A p, q \in Proc : HonestEntries(deserializers[p][q], p, q, answered)
PipesInv == \A p, q \in Proc : HonestPipe(pipe[q][p], p, q, answered)
LoopsInv == \A q \in Proc : HonestLoop(ipc_loop[q], q, answered)
RepliesInv == \A p \in Proc : HonestReplies(received_replies[p], p, answered)

AnswerInv == EntriesInv /\ PipesInv /\ LoopsInv /\ RepliesInv

\* What does not change stays honest, for answers are never withdrawn.
LEMMA HonestKept ==
  ASSUME AnswerInv, answered \subseteq answered'
  PROVE  /\ UNCHANGED deserializers => EntriesInv'
         /\ UNCHANGED pipe => PipesInv'
         /\ UNCHANGED ipc_loop => LoopsInv'
         /\ UNCHANGED received_replies => RepliesInv'
<1>1. UNCHANGED deserializers => EntriesInv'
  BY DEF AnswerInv, EntriesInv, HonestEntries
<1>2. UNCHANGED pipe => PipesInv'
  BY DEF AnswerInv, PipesInv, HonestPipe, Honest
<1>3. UNCHANGED ipc_loop => LoopsInv'
  BY DEF AnswerInv, LoopsInv, HonestLoop, Honest
<1>4. UNCHANGED received_replies => RepliesInv'
  BY DEF AnswerInv, RepliesInv, HonestReplies, Honest
<1> QED
  BY <1>1, <1>2, <1>3, <1>4

\* Signaling sends sets no result that is not honest.
LEMMA SignalDoneHonest ==
  ASSUME TypeOK, EntriesInv, UNCHANGED answered, NEW p \in Proc, NEW q \in Proc,
         NEW ds, NEW loop, HonestEntries(ds, p, q, answered), SignalDone(p, q, ds, loop)
  PROVE  EntriesInv'
<1>1. deserializers \in [Proc -> [Proc -> Seq(PendingSyncMsg)]]
  BY DEF TypeOK
<1>2. deserializers' = [deserializers EXCEPT ![p][q] = ds]
  BY DEF SignalDone
<1>3. \A r, s \in Proc : deserializers'[r][s] =
        IF r = p /\ s = q THEN ds ELSE deserializers[r][s]
  BY <1>1, <1>2
<1> QED
  BY <1>3 DEF EntriesInv

LEMMA CancelHonest ==
  ASSUME TypeOK, EntriesInv, UNCHANGED answered, NEW p \in Proc, NEW q \in Proc,
         NEW loop, CancelPendingSends(p, q, loop)
  PROVE  EntriesInv'
<1> DEFINE s == deserializers[p][q]
           t == [i \in DOMAIN s |-> [s[i] EXCEPT !.done = TRUE]]
<1>1. s \in Seq(PendingSyncMsg)
  BY DEF TypeOK
<1>2. \A i \in DOMAIN s : s[i] \in PendingSyncMsg
  BY <1>1
<1>3. \A i \in DOMAIN s : t[i].result = s[i].result /\ t[i].id = s[i].id
  BY <1>2 DEF PendingSyncMsg
<1>4. HonestEntries(t, p, q, answered)
  BY <1>3 DEF EntriesInv, HonestEntries
<1>5. SignalDone(p, q, t, loop)
  BY DEF CancelPendingSends
<1> QED
  <2> HIDE DEF t
  <2> QED
    BY <1>4, <1>5, SignalDoneHonest

\* A reply that unblocks the last send carries that send's id.
LEMMA UnblockHonest ==
  ASSUME TypeOK, EntriesInv, UNCHANGED answered, NEW p \in Proc, NEW q \in Proc, NEW m,
         Honest(m, p, q, answered), Unblocks(p, q, m), UnblockListener(p, q, m)
  PROVE  EntriesInv'
<1> DEFINE ds == deserializers[p][q]
           n == Len(ds)
           e == [ds[n] EXCEPT !.done = TRUE]
           f == [e EXCEPT !.result = IF m.ok THEN TRUE ELSE @]
           t == [ds EXCEPT ![n].done = TRUE, ![n].result = IF m.ok THEN TRUE ELSE @]
<1>1. ds \in Seq(PendingSyncMsg) /\ ds # <<>>
  BY DEF TypeOK, Unblocks
<1>2. n \in DOMAIN ds /\ ds[n] \in PendingSyncMsg /\ ds[n].id = m.id /\ m.kind = "reply"
  BY <1>1, LastType DEF Unblocks
<1>3. e.id = ds[n].id /\ e.result = ds[n].result /\ e \in PendingSyncMsg
  BY <1>2 DEF PendingSyncMsg
<1>4. f.id = ds[n].id /\ f.result = (IF m.ok THEN TRUE ELSE ds[n].result)
  BY <1>2, <1>3 DEF PendingSyncMsg
<1>5. t = [ds EXCEPT ![n] = f]
  BY <1>1, <1>2
<1>6. \A i \in DOMAIN ds : ds[i].result => <<p, q, ds[i].id>> \in answered
  BY DEF EntriesInv, HonestEntries
<1>7. f.result => <<p, q, f.id>> \in answered
  BY <1>2, <1>4, <1>6 DEF Honest
<1>8. HonestEntries(t, p, q, answered)
  <2> HIDE DEF ds, f, t, n
  <2>1. DOMAIN t = DOMAIN ds /\ \A i \in DOMAIN ds : t[i] = IF i = n THEN f ELSE ds[i]
    BY <1>1, <1>2, <1>5
  <2> QED
    BY <1>6, <1>7, <2>1 DEF HonestEntries
<1>9. SignalDone(p, q, t, listener_loop[p])
  BY DEF UnblockListener
<1> QED
  <2> HIDE DEF t
  <2> QED
    BY <1>8, <1>9, SignalDoneHonest

\* Posting to the IPC thread, and taking its next task.
LEMMA PostIpcHonest ==
  ASSUME TypeOK, LoopsInv, answered \subseteq answered', NEW p \in Proc, NEW t,
         t.kind = "send" => Honest(t.msg, t.peer, p, answered'), PostIpc(p, t)
  PROVE  LoopsInv'
<1>1. ipc_loop \in [Proc -> Seq(IpcTask)] /\ ipc_loop[p] \in Seq(IpcTask)
  BY DEF TypeOK
<1>2. ipc_loop'[p] = Append(ipc_loop[p], t) /\ \A r \in Proc : r # p => ipc_loop'[r] = ipc_loop[r]
  BY <1>1 DEF PostIpc
<1>3. /\ DOMAIN ipc_loop'[p] = DOMAIN ipc_loop[p] \cup {Len(ipc_loop[p]) + 1}
      /\ \A i \in DOMAIN ipc_loop[p] : ipc_loop'[p][i] = ipc_loop[p][i]
      /\ ipc_loop'[p][Len(ipc_loop[p]) + 1] = t
  BY <1>1, <1>2
<1>4. \A r \in Proc : HonestLoop(ipc_loop[r], r, answered')
  BY DEF LoopsInv, HonestLoop, Honest
<1>5. HonestLoop(ipc_loop'[p], p, answered')
  BY <1>3, <1>4 DEF HonestLoop
<1> QED
  BY <1>2, <1>4, <1>5 DEF LoopsInv

LEMMA TakeIpcTaskHonest ==
  ASSUME TypeOK, LoopsInv, UNCHANGED answered, NEW p \in Proc, ipc_loop[p] # <<>>,
         TakeIpcTask(p)
  PROVE  /\ LoopsInv'
         /\ NextIpcTask(p).kind = "send" =>
              Honest(NextIpcTask(p).msg, NextIpcTask(p).peer, p, answered)
<1>1. ipc_loop \in [Proc -> Seq(IpcTask)] /\ ipc_loop[p] \in Seq(IpcTask)
  BY DEF TypeOK
<1>2. ipc_loop'[p] = Tail(ipc_loop[p]) /\ \A r \in Proc : r # p => ipc_loop'[r] = ipc_loop[r]
  BY <1>1 DEF TakeIpcTask
<1>3. \A i \in DOMAIN ipc_loop'[p] :
        i + 1 \in DOMAIN ipc_loop[p] /\ ipc_loop'[p][i] = ipc_loop[p][i + 1]
  BY <1>1, <1>2
<1>4. 1 \in DOMAIN ipc_loop[p] /\ NextIpcTask(p) = ipc_loop[p][1]
  <2>1. Len(ipc_loop[p]) \in Nat /\ Len(ipc_loop[p]) # 0
    BY <1>1, EmptySeq
  <2> QED
    BY <1>1, <2>1 DEF NextIpcTask
<1>5. HonestLoop(ipc_loop'[p], p, answered)
  BY <1>3 DEF LoopsInv, HonestLoop
<1> QED
  BY <1>2, <1>4, <1>5 DEF LoopsInv, HonestLoop

\* Closing a pipe end empties it.
LEMMA DisconnectHonest ==
  ASSUME TypeOK, EntriesInv, PipesInv, UNCHANGED answered, NEW p \in Proc, NEW q \in Proc,
         Disconnect(p, q)
  PROVE  EntriesInv' /\ PipesInv'
<1>1. pipe \in [Proc -> [Proc -> Seq(Message)]] /\ pipe' = [pipe EXCEPT ![q][p] = <<>>]
  BY DEF TypeOK, Disconnect
<1>2. \A r, s \in Proc : pipe'[r][s] = IF r = q /\ s = p THEN <<>> ELSE pipe[r][s]
  BY <1>1
<1>3. DOMAIN (<<>>) = {}
  BY EmptySeq
<1>4. PipesInv'
  BY <1>2, <1>3 DEF PipesInv, HonestPipe
<1>5. EntriesInv'
  BY CancelHonest DEF Disconnect
<1> QED
  BY <1>4, <1>5

LEMMA RunIpcTaskHonest ==
  ASSUME TypeOK, AnswerInv, NEW p \in Proc, RunIpcTask(p)
  PROVE  AnswerInv'
<1> DEFINE t == NextIpcTask(p)
<1>1. UNCHANGED answered /\ ipc_loop[p] # <<>> /\ TakeIpcTask(p)
  BY DEF RunIpcTask
<1>2. LoopsInv' /\ (t.kind = "send" => Honest(t.msg, t.peer, p, answered))
  BY <1>1, TakeIpcTaskHonest DEF AnswerInv
<1>3. t.peer \in Proc
  BY <1>1, TakeIpcTaskType
<1> HIDE DEF t
<1>4. EntriesInv /\ PipesInv /\ RepliesInv
  BY DEF AnswerInv
<1>5. CASE RunSendTask(p)
  <2>1. RepliesInv'
    BY <1>1, <1>5, HonestKept DEF RunSendTask
  <2>2. CASE connected[p][t.peer] /\ connected[t.peer][p]
    <3>1. /\ pipe' = [pipe EXCEPT ![p][t.peer] = Append(pipe[p][t.peer], t.msg)]
          /\ UNCHANGED deserializers /\ t.kind = "send"
      BY <1>5, <2>2 DEF RunSendTask, t
    <3>2. pipe \in [Proc -> [Proc -> Seq(Message)]] /\ pipe[p][t.peer] \in Seq(Message)
      BY <1>3 DEF TypeOK
    <3>3. \A r, s \in Proc : r # p \/ s # t.peer => pipe'[r][s] = pipe[r][s]
      BY <1>3, <3>1, <3>2
    <3>4. pipe'[p][t.peer] = Append(pipe[p][t.peer], t.msg)
      BY <1>3, <3>1, <3>2
    <3>5. HonestPipe(pipe[p][t.peer], t.peer, p, answered)
      BY <1>3, <1>4 DEF PipesInv
    <3>6. HonestPipe(pipe'[p][t.peer], t.peer, p, answered)
      BY <1>2, <3>1, <3>2, <3>4, <3>5 DEF HonestPipe
    <3>7. PipesInv'
      BY <1>1, <1>4, <3>3, <3>6 DEF PipesInv
    <3> QED
      BY <1>1, <1>2, <2>1, <3>1, <3>7, HonestKept DEF AnswerInv
  <2>3. CASE ~(connected[p][t.peer] /\ connected[t.peer][p])
    <3>1. Disconnect(p, t.peer)
      BY <1>5, <2>3 DEF RunSendTask, t
    <3> QED
      BY <1>1, <1>2, <1>3, <1>4, <2>1, <3>1, DisconnectHonest DEF AnswerInv
  <2> QED
    BY <2>2, <2>3
<1>6. CASE RunDispatchReplies(p)
  <2>1. PipesInv'
    BY <1>1, <1>6, HonestKept DEF RunDispatchReplies
  <2>2. CASE Deliverable(p) = {}
    BY <1>1, <1>2, <1>6, <2>1, <2>2, HonestKept DEF RunDispatchReplies, AnswerInv
  <2>3. CASE Deliverable(p) # {}
    <3> DEFINE r == received_replies[p]
    <3>1. PICK i \in Deliverable(p) :
            /\ UnblockListener(p, r[i].peer, r[i].msg)
            /\ received_replies' = [received_replies EXCEPT ![p] = RemoveAt(r, i)]
      BY <1>6, <2>3 DEF RunDispatchReplies
    <3>2. /\ received_replies \in [Proc -> Seq(QueuedReply)] /\ r \in Seq(QueuedReply)
          /\ i \in DOMAIN r /\ Unblocks(p, r[i].peer, r[i].msg)
      BY DEF TypeOK, Deliverable
    <3>3. r[i] \in QueuedReply
      BY <3>2
    <3>4. r[i].peer \in Proc
      BY <3>3 DEF QueuedReply
    <3>5. HonestReplies(r, p, answered)
      BY <1>4 DEF RepliesInv
    <3>6. EntriesInv'
      BY <1>1, <1>4, <3>1, <3>2, <3>4, <3>5, UnblockHonest DEF HonestReplies
    <3>7. /\ received_replies'[p] = RemoveAt(r, i)
          /\ \A s \in Proc : s # p => received_replies'[s] = received_replies[s]
      BY <3>1, <3>2
    <3> HIDE DEF r
    <3>8. \A k \in DOMAIN RemoveAt(r, i) : \E j \in DOMAIN r : RemoveAt(r, i)[k] = r[j]
      <4>1. i \in 1..Len(r) /\ Len(r) \in Nat /\ DOMAIN r = 1..Len(r)
        BY <3>2
      <4> DEFINE a == SubSeq(r, 1, i - 1)
                 b == SubSeq(r, i + 1, Len(r))
      <4>2. /\ a \in Seq(QueuedReply) /\ Len(a) = i - 1
            /\ \A k \in 1..Len(a) : a[k] = r[k]
        BY <3>2, <4>1
      <4>3. /\ b \in Seq(QueuedReply) /\ Len(b) = Len(r) - i
            /\ \A k \in 1..Len(b) : b[k] = r[i + k]
        BY <3>2, <4>1
      <4> HIDE DEF a, b
      <4>4. \A k \in DOMAIN (a \o b) : \E j \in DOMAIN r : (a \o b)[k] = r[j]
        <5> SUFFICES ASSUME NEW k \in DOMAIN (a \o b)
                     PROVE  \E j \in DOMAIN r : (a \o b)[k] = r[j]
          OBVIOUS
        <5>1. k \in 1..(Len(a) + Len(b))
          BY <4>2, <4>3
        <5>2. CASE k <= Len(a)
          BY <4>1, <4>2, <4>3, <5>1, <5>2
        <5>3. CASE k > Len(a)
          <6>1. (a \o b)[k] = b[k - Len(a)] /\ k - Len(a) \in 1..Len(b)
            BY <4>1, <4>2, <4>3, <5>1, <5>3
          <6>2. i + (k - Len(a)) \in DOMAIN r
            BY <4>1, <4>2, <4>3, <5>1, <5>3
          <6> QED
            BY <4>3, <6>1, <6>2
        <5> QED
          BY <4>1, <4>2, <5>1, <5>2, <5>3
      <4> QED
        BY <4>4 DEF RemoveAt, a, b
    <3>9. HonestReplies(received_replies'[p], p, answered)
      BY <3>5, <3>7, <3>8 DEF HonestReplies
    <3>10. RepliesInv'
      BY <1>1, <1>4, <3>7, <3>9 DEF RepliesInv
    <3> QED
      BY <1>2, <2>1, <3>6, <3>10 DEF AnswerInv
  <2> QED
    BY <2>2, <2>3
<1>7. CASE RunCloseTask(p)
  <2>1. Disconnect(p, t.peer) /\ UNCHANGED received_replies
    BY <1>7 DEF RunCloseTask, t
  <2> QED
    BY <1>1, <1>2, <1>3, <1>4, <2>1, DisconnectHonest, HonestKept DEF AnswerInv
<1>8. CASE RunShutdownTask(p)
  <2>1. /\ CancelPendingSends(p, t.peer, listener_loop[p]) \/ UNCHANGED deserializers
        /\ UNCHANGED <<pipe, received_replies>>
    BY <1>8 DEF RunShutdownTask, t
  <2>2. EntriesInv'
    BY <1>1, <1>3, <1>4, <2>1, CancelHonest, HonestKept
  <2> QED
    BY <1>1, <1>2, <2>1, <2>2, HonestKept DEF AnswerInv
<1> QED
  BY <1>5, <1>6, <1>7, <1>8 DEF RunIpcTask

\* A reply is handed over or kept; the rest of the pipe stays.
LEMMA ReceiveHonest ==
  ASSUME TypeOK, AnswerInv, NEW p \in Proc, NEW q \in Proc, Receive(p, q)
  PROVE  AnswerInv'
<1> DEFINE s == pipe[q][p]
           m == Head(s)
           r == received_replies[p]
<1>1. UNCHANGED answered /\ UNCHANGED ipc_loop /\ EntriesInv /\ PipesInv /\ RepliesInv
  BY DEF AnswerInv, Receive
<1>2. pipe \in [Proc -> [Proc -> Seq(Message)]] /\ s \in Seq(Message) /\ s # <<>>
  <2>1. pipe \in [Proc -> [Proc -> Seq(Message)]]
    BY DEF TypeOK
  <2>2. s # <<>>
    BY DEF Receive
  <2> QED
    BY <2>1, <2>2
<1>3. HonestPipe(s, p, q, answered)
  BY <1>1 DEF PipesInv
<1>4. 1 \in DOMAIN s /\ m = s[1]
  <2>1. Len(s) \in Nat /\ Len(s) # 0
    BY <1>2, EmptySeq
  <2> QED
    BY <1>2, <2>1
<1>5. Honest(m, p, q, answered)
  BY <1>3, <1>4 DEF HonestPipe
<1>6. PipesInv'
  <2>1. pipe' = [pipe EXCEPT ![q][p] = Tail(s)]
    BY DEF Receive
  <2>2. \A a, b \in Proc : pipe'[a][b] = IF a = q /\ b = p THEN Tail(s) ELSE pipe[a][b]
    BY <1>2, <2>1
  <2>3. \A i \in DOMAIN Tail(s) : i + 1 \in DOMAIN s /\ Tail(s)[i] = s[i + 1]
    BY <1>2
  <2>4. HonestPipe(Tail(s), p, q, answered)
    BY <1>3, <2>3 DEF HonestPipe
  <2> HIDE DEF s
  <2> QED
    BY <1>1, <2>2, <2>4 DEF PipesInv
<1>7. EntriesInv'
  <2>1. (Unblocks(p, q, m) /\ UnblockListener(p, q, m)) \/ UNCHANGED deserializers
    BY DEF Receive
  <2> HIDE DEF m
  <2> QED
    BY <1>1, <1>5, <2>1, UnblockHonest, HonestKept
<1>8. RepliesInv'
  <2>1. \/ UNCHANGED received_replies
        \/ received_replies' = [received_replies EXCEPT ![p] = Append(r, [peer |-> q, msg |-> m])]
    BY DEF Receive
  <2>2. CASE UNCHANGED received_replies
    BY <1>1, <2>2, HonestKept
  <2>3. CASE received_replies' =
               [received_replies EXCEPT ![p] = Append(r, [peer |-> q, msg |-> m])]
    <3> DEFINE e == [peer |-> q, msg |-> m]
    <3>1. received_replies \in [Proc -> Seq(QueuedReply)] /\ r \in Seq(QueuedReply)
      BY DEF TypeOK
    <3>2. /\ received_replies'[p] = Append(r, e)
          /\ \A a \in Proc : a # p => received_replies'[a] = received_replies[a]
      BY <2>3, <3>1
    <3>3. e.peer = q /\ e.msg = m
      OBVIOUS
    <3>4. HonestReplies(r, p, answered)
      BY <1>1 DEF RepliesInv
    <3> HIDE DEF e, r, m
    <3>5. HonestReplies(Append(r, e), p, answered)
      BY <1>5, <3>1, <3>3, <3>4 DEF HonestReplies
    <3> QED
      BY <1>1, <3>2, <3>5 DEF RepliesInv
  <2> QED
    BY <2>1, <2>2, <2>3
<1> QED
  BY <1>1, <1>6, <1>7, <1>8, HonestKept DEF AnswerInv

\* Push adds an entry without a result, Pop removes one.
LEMMA PushSendHonest ==
  ASSUME TypeOK, AnswerInv, NEW p \in Proc, PushSend(p)
  PROVE  AnswerInv'
<1> DEFINE q == Top(p).peer
           ds == deserializers[p][q]
           e == [id |-> Top(p).id, done |-> FALSE, result |-> FALSE]
<1>1. UNCHANGED <<answered, pipe, ipc_loop, received_replies>> /\ EntriesInv
  BY DEF PushSend, AnswerInv, queueVars, loopVars, worldVars
<1>2. q \in Proc /\ deserializers \in [Proc -> [Proc -> Seq(PendingSyncMsg)]]
  BY TopAtType, TopType DEF PushSend, Frame, TypeOK
<1>3. deserializers' = [deserializers EXCEPT ![p][q] = Append(ds, e)]
  BY DEF PushSend
<1>4. ds \in Seq(PendingSyncMsg) /\ HonestEntries(ds, p, q, answered) /\ ~e.result
  BY <1>1, <1>2 DEF EntriesInv
<1> HIDE DEF q, e
<1>5. HonestEntries(Append(ds, e), p, q, answered)
  <2> HIDE DEF ds
  <2> QED
    BY <1>4 DEF HonestEntries
<1>6. \A a, b \in Proc :
        deserializers'[a][b] = IF a = p /\ b = q THEN Append(ds, e) ELSE deserializers[a][b]
  BY <1>2, <1>3
<1>7. EntriesInv'
  BY <1>1, <1>5, <1>6 DEF EntriesInv
<1> QED
  BY <1>1, <1>7, HonestKept DEF AnswerInv

LEMMA PopSendHonest ==
  ASSUME TypeOK, SendOwnsLastEntry, AnswerInv, NEW p \in Proc, PopSend(p)
  PROVE  AnswerInv'
<1> DEFINE q == Top(p).peer
           ds == deserializers[p][q]
<1>1. UNCHANGED <<answered, pipe, received_replies>> /\ EntriesInv /\ LoopsInv
  BY DEF PopSend, AnswerInv, queueVars, worldVars
<1>2. q \in Proc /\ deserializers \in [Proc -> [Proc -> Seq(PendingSyncMsg)]]
  BY TopAtType, TopType DEF PopSend, Frame, TypeOK
<1>3. deserializers' = [deserializers EXCEPT ![p][q] = Front(ds)]
  BY DEF PopSend
<1>4. ds \in Seq(PendingSyncMsg) /\ ds # <<>> /\ HonestEntries(ds, p, q, answered)
  BY <1>1, <1>2, SendDoneEntryType DEF EntriesInv, PopSend, SendPoints
<1> HIDE DEF q
<1>5. HonestEntries(Front(ds), p, q, answered)
  <2> HIDE DEF ds
  <2>1. Len(ds) \in Nat /\ Len(ds) # 0
    BY <1>4, EmptySeq
  <2>2. \A i \in DOMAIN Front(ds) : i \in DOMAIN ds /\ Front(ds)[i] = ds[i]
    BY <1>4, <2>1 DEF Front
  <2> QED
    BY <1>4, <2>2 DEF HonestEntries
<1>6. \A a, b \in Proc :
        deserializers'[a][b] = IF a = p /\ b = q THEN Front(ds) ELSE deserializers[a][b]
  BY <1>2, <1>3
<1>7. EntriesInv'
  BY <1>1, <1>5, <1>6 DEF EntriesInv
<1>8. LoopsInv'
  <2>1. PostIpc(p, IpcCall("replies", p)) /\ IpcCall("replies", p).kind # "send"
    BY DEF PopSend, IpcCall
  <2> QED
    BY <1>1, <2>1, PostIpcHonest
<1> QED
  BY <1>1, <1>7, <1>8, HonestKept DEF AnswerInv

\* A handler's reply is recorded as it is sent.
LEMMA FinishHandlerHonest ==
  ASSUME TypeOK, AnswerInv, NEW p \in Proc, NEW ok, FinishHandler(p, ok)
  PROVE  AnswerInv'
<1> DEFINE q == Top(p).peer
           m == Reply(Top(p).id, ok)
<1>1. /\ UNCHANGED <<deserializers, pipe, received_replies>> /\ LoopsInv
      /\ answered \subseteq answered'
  BY DEF FinishHandler, AnswerInv, queueVars
<1>2. LoopsInv'
  <2>1. CASE UNCHANGED ipc_loop
    BY <1>1, <2>1, HonestKept
  <2>2. CASE /\ PostIpc(p, SendTask(q, m))
             /\ answered' = IF ok THEN answered \cup {<<q, p, Top(p).id>>} ELSE answered
    <3>1. /\ SendTask(q, m).msg = m /\ SendTask(q, m).peer = q
          /\ m.id = Top(p).id /\ m.ok = ok
      BY DEF SendTask, Reply
    <3>2. Honest(m, q, p, answered')
      BY <2>2, <3>1 DEF Honest
    <3> QED
      BY <1>1, <2>2, <3>1, <3>2, PostIpcHonest
  <2> QED
    BY <2>1, <2>2 DEF FinishHandler
<1> QED
  BY <1>1, <1>2, HonestKept DEF AnswerInv

LEMMA NextHonest ==
  ASSUME TypeOK, SendOwnsLastEntry, AnswerInv, [Next]_vars
  PROVE  AnswerInv'
<1>1. ASSUME UNCHANGED <<answered, deserializers, pipe, received_replies, ipc_loop>>
      PROVE  AnswerInv'
  BY <1>1, HonestKept DEF AnswerInv
<1>2. ASSUME UNCHANGED <<answered, deserializers, pipe, received_replies>>, LoopsInv'
      PROVE  AnswerInv'
  BY <1>2, HonestKept DEF AnswerInv
<1>3. ASSUME UNCHANGED <<answered, pipe, received_replies, ipc_loop>>, EntriesInv'
      PROVE  AnswerInv'
  BY <1>3, HonestKept DEF AnswerInv
<1>4. CASE UNCHANGED vars
  BY <1>1, <1>4 DEF vars, listenerVars, queueVars, loopVars, worldVars
<1>5. ASSUME NEW p \in Proc, SendStep(p) PROVE AnswerInv'
  <2>1. CASE PostSend(p)
    <3> DEFINE t == SendTask(Top(p).peer, Request("sync", Top(p).id))
    <3>1. PostIpc(p, t) /\ ~(t.msg.kind = "reply")
      BY <2>1 DEF PostSend, SendTask, Request
    <3>2. t.kind = "send" => Honest(t.msg, t.peer, p, answered')
      BY <3>1 DEF Honest
    <3>3. UNCHANGED <<answered, deserializers, pipe, received_replies>>
      BY <2>1 DEF PostSend, queueVars, worldVars
    <3> HIDE DEF t
    <3>4. LoopsInv'
      BY <3>1, <3>2, <3>3, PostIpcHonest DEF AnswerInv
    <3> QED
      BY <1>2, <3>3, <3>4
  <2>2. CASE WaitReturnsDone(p) \/ WaitReturnsDispatch(p) \/ WaitReturnsPump(p)
    BY <1>1, <2>2
    DEF WaitReturnsDone, WaitReturnsDispatch, WaitReturnsPump, queueVars, loopVars, worldVars
  <2> QED
    BY <1>5, <2>1, <2>2, PushSendHonest, PopSendHonest DEF SendStep
<1>6. ASSUME NEW p \in Proc, IpcStep(p) PROVE AnswerInv'
  <2>1. CASE SignalDispatchEvent(p) \/ PostDispatchTask(p)
    BY <1>1, <2>1
    DEF SignalDispatchEvent, PostDispatchTask, listenerVars, queueVars, worldVars
  <2>2. ASSUME NEW q \in Proc, ReadError(p, q) PROVE AnswerInv'
    <3>1. /\ UNCHANGED <<answered, received_replies, ipc_loop>> /\ Disconnect(p, q)
          /\ EntriesInv /\ PipesInv
      BY <2>2 DEF ReadError, queueVars, AnswerInv
    <3> QED
      BY <3>1, DisconnectHonest, HonestKept DEF AnswerInv
  <2> QED
    BY <1>6, <2>1, <2>2, RunIpcTaskHonest, ReceiveHonest DEF IpcStep
<1>7. ASSUME NEW p \in Proc, DispatchMessage(p) \/ RunTask(p) PROVE AnswerInv'
  BY <1>1, <1>7 DEF DispatchMessage, RunTask, loopVars, worldVars
<1>8. ASSUME NEW p \in Proc, NEW q \in Proc, CloseChannel(p, q) PROVE AnswerInv'
  <2>1. /\ UNCHANGED <<answered, pipe, received_replies>>
        /\ CancelPendingSends(p, q, Cancelled(listener_loop[p], "watch", q))
        /\ PostIpc(p, IpcCall("closed", q)) /\ IpcCall("closed", q).kind # "send"
    BY <1>8 DEF CloseChannel, worldVars, IpcCall
  <2>2. EntriesInv' /\ LoopsInv'
    BY <2>1, CancelHonest, PostIpcHonest DEF AnswerInv
  <2> QED
    BY <2>1, <2>2, HonestKept DEF AnswerInv
<1>9. ASSUME NEW p \in Proc, NEW w \in timers[p], RunTimeout(p, w) PROVE AnswerInv'
  <2> DEFINE s == deserializers[p][w.peer]
             t == [i \in DOMAIN s |-> [s[i] EXCEPT !.done = @ \/ s[i].id = w.id]]
  <2>1. w \in SendRef
    BY DEF TypeOK
  <2>2. w.peer \in Proc
    BY <2>1 DEF SendRef
  <2>3. deserializers[p][w.peer] \in Seq(PendingSyncMsg)
    <3>1. deserializers \in [Proc -> [Proc -> Seq(PendingSyncMsg)]]
      BY DEF TypeOK
    <3> QED
      BY <2>2, <3>1
  <2>4. \A i \in DOMAIN s : s[i] \in PendingSyncMsg
    BY <2>3
  <2>5. \A i \in DOMAIN s : t[i].result = s[i].result /\ t[i].id = s[i].id
    BY <2>4 DEF PendingSyncMsg
  <2>6. HonestEntries(t, p, w.peer, answered)
    BY <2>2, <2>5 DEF EntriesInv, HonestEntries, AnswerInv
  <2>7. /\ SignalDone(p, w.peer, t, listener_loop[p])
        /\ UNCHANGED <<answered, pipe, received_replies, ipc_loop>>
    BY <1>9 DEF RunTimeout, queueVars, worldVars
  <2>8. EntriesInv'
    <3> HIDE DEF t
    <3> QED
      BY <2>2, <2>6, <2>7, SignalDoneHonest DEF AnswerInv
  <2> QED
    BY <1>3, <2>7, <2>8
<1>10. ASSUME NEW p \in Proc, Shutdown(p) PROVE AnswerInv'
  <2> DEFINE open == {q \in Proc : connected[p][q]}
  <2>1. UNCHANGED <<answered, deserializers, pipe, received_replies>>
    BY <1>10 DEF Shutdown, listenerVars, queueVars
  <2>2. PICK order \in SetToSeqs(open) :
               ipc_loop' = [ipc_loop EXCEPT ![p] =
                 ipc_loop[p] \o [i \in DOMAIN order |-> IpcCall("shutdown", order[i])]]
    BY <1>10 DEF Shutdown
  <2> DEFINE t == [i \in DOMAIN order |-> IpcCall("shutdown", order[i])]
             l == ipc_loop[p]
  <2>3. order \in Seq(open)
    BY OrderType
  <2>4. DOMAIN t = 1..Len(order) /\ Len(order) \in Nat /\ \A i \in DOMAIN t : t[i].kind = "shutdown"
    BY <2>3 DEF IpcCall
  <2>5. ipc_loop \in [Proc -> Seq(IpcTask)] /\ l \in Seq(IpcTask)
    BY DEF TypeOK
  <2>6. ipc_loop'[p] = l \o t /\ \A r \in Proc : r # p => ipc_loop'[r] = ipc_loop[r]
    BY <2>2, <2>5
  <2>7. HonestLoop(l, p, answered)
    BY DEF AnswerInv, LoopsInv
  <2>8. t \in Seq({x \in {t[i] : i \in DOMAIN t} : TRUE})
    <3> HIDE DEF t
    <3>1. t = [i \in DOMAIN t |-> t[i]] /\ \A i \in DOMAIN t : t[i] \in {t[k] : k \in DOMAIN t}
      BY <2>4 DEF t
    <3> QED
      BY <2>4, <3>1, SeqDef
  <2> HIDE DEF t, l, open
  <2>9. HonestLoop(l \o t, p, answered)
    <3>1. Len(t) = Len(order)
      BY <2>4, <2>8
    <3> SUFFICES ASSUME NEW i \in DOMAIN (l \o t), (l \o t)[i].kind = "send"
                 PROVE  Honest((l \o t)[i].msg, (l \o t)[i].peer, p, answered)
      BY DEF HonestLoop
    <3>2. i \in 1..(Len(l) + Len(t))
      BY <2>5, <2>8
    <3>3. CASE i <= Len(l)
      BY <2>5, <2>7, <2>8, <3>2, <3>3 DEF HonestLoop
    <3>4. CASE i > Len(l)
      BY <2>4, <2>5, <2>8, <3>1, <3>2, <3>4
    <3> QED
      BY <2>5, <3>2, <3>3, <3>4
  <2>10. LoopsInv'
    BY <2>1, <2>6, <2>9 DEF AnswerInv, LoopsInv
  <2> QED
    BY <1>2, <2>1, <2>10
<1>11. ASSUME NEW p \in Proc, Crash(p) PROVE AnswerInv'
  BY <1>1, <1>11 DEF Crash, listenerVars, queueVars, loopVars
<1>12. ASSUME NEW p \in Proc, NEW q \in Proc, NEW kind \in SendKinds, NEW timed, NEW pumped,
              BeginSend(p, q, kind, timed, pumped)
       PROVE  AnswerInv'
  <2> DEFINE t == SendTask(q, Request(kind, next_id[p]))
  <2>1. UNCHANGED <<answered, deserializers, pipe, received_replies>>
    BY <1>12 DEF BeginSend, queueVars, worldVars
  <2>2. PostIpc(p, t) \/ UNCHANGED ipc_loop
    BY <1>12 DEF BeginSend
  <2>3. t.kind = "send" => Honest(t.msg, t.peer, p, answered')
    BY ConstantsOK DEF SendTask, Request, Honest
  <2> HIDE DEF t
  <2>4. LoopsInv'
    BY <2>1, <2>2, <2>3, PostIpcHonest, HonestKept DEF AnswerInv
  <2> QED
    BY <1>2, <2>1, <2>4
<1> QED
  BY <1>4, <1>5, <1>6, <1>7, <1>8, <1>9, <1>10, <1>11, <1>12, FinishHandlerHonest DEF Next

LEMMA InitHonest ==
  ASSUME Init
  PROVE  AnswerInv
<1>1. DOMAIN (<<>>) = {}
  BY EmptySeq
<1> QED
  BY <1>1 DEF Init, AnswerInv, EntriesInv, PipesInv, LoopsInv, RepliesInv, HonestEntries,
     HonestPipe, HonestLoop, HonestReplies

\* A Send reports success only if the peer's handler answered that very
\* message: TryToUnblockListener and DispatchReplies never complete a Send with
\* a late or a queued reply of another one, of this channel or another.
THEOREM SuccessIsAnswered == Spec => []SuccessWasAnswered
<1> DEFINE Inv == TypeOK /\ StackInv /\ AnswerInv
<1>1. Init => Inv
  BY InitType, InitStackInv, InitHonest
<1>2. Inv /\ [Next]_vars => Inv'
  BY NextType, NextStackInv, StackInvOwns, NextHonest
<1>3. Inv => SuccessWasAnswered
  BY DEF AnswerInv, EntriesInv, HonestEntries, SuccessWasAnswered
<1> QED
  BY <1>1, <1>2, <1>3, PTL DEF Spec

----------------------------------------------------------------------------
(* A queued message has a dispatcher.  task_pending_ promises a task that   *)
(* is in the listener's loop or about to be posted; the message that is     *)
(* queued while the promise stands relies on it.                            *)

HasTask(l) == \E i \in DOMAIN l : l[i].kind = "dispatch"
HasDispatch(st) == \E i \in DOMAIN st : st[i].at = "dispatch"
WillPost(p) == queueing[p] \in {"signal and post", "post"}

QueueInv ==
  \A p \in Proc :
    /\ task_pending[p] => WillPost(p) \/ HasTask(listener_loop[p])
    /\ message_queue[p] # <<>> =>
         WillPost(p) \/ HasTask(listener_loop[p]) \/ HasDispatch(stack[p])

\* No task, and no call of DispatchMessages, is lost by a step.
TasksKept == \A p \in Proc : HasTask(listener_loop[p]) => HasTask(listener_loop'[p])
DispatchKept == \A p \in Proc : HasDispatch(stack[p]) => HasDispatch(stack'[p])

LEMMA QueueInvKept ==
  ASSUME QueueInv, TasksKept, DispatchKept,
         UNCHANGED <<task_pending, message_queue, queueing>>
  PROVE  QueueInv'
  BY DEF QueueInv, TasksKept, DispatchKept, WillPost

LEMMA SameTasks ==
  /\ UNCHANGED listener_loop => TasksKept
  /\ UNCHANGED stack => DispatchKept
  BY DEF TasksKept, DispatchKept

LEMMA AppendKeepsTask ==
  ASSUME NEW S, NEW l \in Seq(S), NEW t, HasTask(l)
  PROVE  HasTask(Append(l, t))
<1>1. PICK i \in DOMAIN l : l[i].kind = "dispatch"
  BY DEF HasTask
<1>2. i \in DOMAIN Append(l, t) /\ Append(l, t)[i] = l[i]
  OBVIOUS
<1> QED
  BY <1>1, <1>2 DEF HasTask

\* SignalDone only appends to the loop it is given.
LEMMA SignalDoneTasks ==
  ASSUME TypeOK, NEW p \in Proc, NEW q \in Proc, NEW ds, NEW loop \in Seq(ListenerTask),
         HasTask(listener_loop[p]) => HasTask(loop), SignalDone(p, q, ds, loop)
  PROVE  TasksKept
<1>1. listener_loop \in [Proc -> Seq(ListenerTask)]
  BY DEF TypeOK
<1> DEFINE fired == {w \in send_done_watcher[p] :
                       w.peer = q /\ \E i \in DOMAIN ds : ds[i].id = w.id /\ ds[i].done}
           t == Task("quit", q, (CHOOSE w \in fired : TRUE).id)
           l == IF fired = {} THEN loop ELSE Append(loop, t)
<1>2. listener_loop' = [listener_loop EXCEPT ![p] = l]
  BY DEF SignalDone
<1> HIDE DEF fired, t
<1>3. HasTask(loop) => HasTask(l)
  BY AppendKeepsTask
<1> HIDE DEF l
<1>4. \A r \in Proc : listener_loop'[r] = IF r = p THEN l ELSE listener_loop[r]
  BY <1>1, <1>2
<1> QED
  BY <1>3, <1>4 DEF TasksKept

LEMMA CancelTasks ==
  ASSUME TypeOK, NEW p \in Proc, NEW q \in Proc, NEW loop \in Seq(ListenerTask),
         HasTask(listener_loop[p]) => HasTask(loop), CancelPendingSends(p, q, loop)
  PROVE  TasksKept
  BY SignalDoneTasks DEF CancelPendingSends

LEMMA LoopType ==
  ASSUME TypeOK, NEW p \in Proc
  PROVE  /\ listener_loop \in [Proc -> Seq(ListenerTask)]
         /\ listener_loop[p] \in Seq(ListenerTask)
  BY DEF TypeOK

\* Watching a send appends to the loop, or leaves it.
LEMMA StartWatchingTasks ==
  ASSUME TypeOK, NEW p \in Proc, NEW w, NEW loop \in Seq(ListenerTask),
         HasTask(listener_loop[p]) => HasTask(loop), StartWatching(p, w, loop)
  PROVE  TasksKept
<1> DEFINE done == \E i \in DOMAIN deserializers[p][w.peer] :
                      /\ deserializers[p][w.peer][i].id = w.id
                      /\ deserializers[p][w.peer][i].done
           l == IF done THEN Append(loop, Task("quit", w.peer, w.id)) ELSE loop
<1>1. listener_loop' = [listener_loop EXCEPT ![p] = l]
  BY DEF StartWatching
<1> HIDE DEF done
<1>2. HasTask(loop) => HasTask(l)
  BY AppendKeepsTask
<1> HIDE DEF l
<1>3. \A r \in Proc : listener_loop'[r] = IF r = p THEN l ELSE listener_loop[r]
  BY <1>1, LoopType
<1> QED
  BY <1>2, <1>3 DEF TasksKept

\* Replacing tasks of other kinds.
LEMMA CancelledKeepsTask ==
  ASSUME NEW l, NEW kind, kind # "dispatch", NEW q, HasTask(l)
  PROVE  HasTask(Cancelled(l, kind, q))
<1>1. PICK i \in DOMAIN l : l[i].kind = "dispatch"
  BY DEF HasTask
<1>2. i \in DOMAIN Cancelled(l, kind, q) /\ Cancelled(l, kind, q)[i] = l[i]
  BY <1>1 DEF Cancelled
<1> QED
  BY <1>1, <1>2 DEF HasTask

\* Taking a task of another kind.
LEMMA TailKeepsTask ==
  ASSUME NEW S, NEW l \in Seq(S), l # <<>>, Head(l).kind # "dispatch", HasTask(l)
  PROVE  HasTask(Tail(l))
<1>1. PICK i \in DOMAIN l : l[i].kind = "dispatch"
  BY DEF HasTask
<1>2. i # 1 /\ i \in 1..Len(l) /\ Len(l) \in Nat
  BY <1>1
<1>3. i - 1 \in DOMAIN Tail(l) /\ Tail(l)[i - 1] = l[i]
  BY <1>2
<1> QED
  BY <1>1, <1>3 DEF HasTask

LEMMA TakeTaskTasks ==
  ASSUME TypeOK, NEW p \in Proc, listener_loop[p] # <<>>,
         NextTask(p).kind # "dispatch", TakeTask(p)
  PROVE  TasksKept
<1>1. \A r \in Proc : listener_loop'[r] = IF r = p THEN Tail(listener_loop[p]) ELSE listener_loop[r]
  BY LoopType DEF TakeTask
<1>2. HasTask(listener_loop[p]) => HasTask(Tail(listener_loop[p]))
  BY LoopType, TailKeepsTask DEF NextTask
<1> QED
  BY <1>1, <1>2 DEF TasksKept

\* Calls of DispatchMessages stay on the stack.
LEMMA EnterDispatch ==
  ASSUME TypeOK, NEW p \in Proc, NEW f, Enter(p, f)
  PROVE  DispatchKept /\ (f.at = "dispatch" => HasDispatch(stack'[p]))
<1>1. stack \in [Proc -> Seq(Frame)] /\ stack[p] \in Seq(Frame)
  BY DEF TypeOK
<1>2. \A r \in Proc : stack'[r] = IF r = p THEN Append(stack[p], f) ELSE stack[r]
  BY <1>1 DEF Enter
<1>3. /\ \A i \in DOMAIN stack[p] : i \in DOMAIN Append(stack[p], f) /\ Append(stack[p], f)[i] = stack[p][i]
      /\ Len(stack[p]) + 1 \in DOMAIN Append(stack[p], f)
      /\ Append(stack[p], f)[Len(stack[p]) + 1] = f
  BY <1>1
<1> QED
  BY <1>2, <1>3 DEF DispatchKept, HasDispatch

LEMMA ReturnDispatch ==
  ASSUME TypeOK, NEW p \in Proc, stack[p] # <<>>, TopAt(p) # "dispatch", Return(p)
  PROVE  DispatchKept
<1> DEFINE n == Len(stack[p])
<1>1. stack \in [Proc -> Seq(Frame)] /\ stack[p] \in Seq(Frame)
  BY DEF TypeOK
<1>2. n \in DOMAIN stack[p] /\ n \in Nat \ {0} /\ stack[p][n].at # "dispatch"
  BY <1>1, TopType, LastType
<1>3. \A r \in Proc : stack'[r] = IF r = p THEN SubSeq(stack[p], 1, n - 1) ELSE stack[r]
  BY <1>1 DEF Return, Front
<1>4. \A i \in DOMAIN stack[p] : i # n =>
        i \in DOMAIN SubSeq(stack[p], 1, n - 1) /\ SubSeq(stack[p], 1, n - 1)[i] = stack[p][i]
  BY <1>1, <1>2
<1> HIDE DEF n
<1> QED
  BY <1>2, <1>3, <1>4 DEF DispatchKept, HasDispatch

LEMMA MoveToDispatch ==
  ASSUME TypeOK, NEW p \in Proc, stack[p] # <<>>, TopAt(p) # "dispatch", NEW at, MoveTo(p, at)
  PROVE  DispatchKept
<1> DEFINE n == Len(stack[p])
           g == [stack[p][n] EXCEPT !.at = at]
<1>1. stack \in [Proc -> Seq(Frame)] /\ stack[p] \in Seq(Frame)
  BY DEF TypeOK
<1>2. n \in DOMAIN stack[p] /\ stack[p][n].at # "dispatch"
  BY <1>1, TopType, LastType
<1>3. stack' = [stack EXCEPT ![p] = [stack[p] EXCEPT ![n] = g]]
  BY DEF MoveTo
<1> HIDE DEF n, g
<1>4. \A r \in Proc : stack'[r] = IF r = p THEN [stack[p] EXCEPT ![n] = g] ELSE stack[r]
  BY <1>1, <1>3
<1>5. \A i \in DOMAIN stack[p] : i # n =>
        i \in DOMAIN [stack[p] EXCEPT ![n] = g] /\ [stack[p] EXCEPT ![n] = g][i] = stack[p][i]
  BY <1>1
<1> QED
  BY <1>2, <1>4, <1>5 DEF DispatchKept, HasDispatch

LEMMA SendStepQueue ==
  ASSUME TypeOK, QueueInv, NEW p \in Proc, SendStep(p)
  PROVE  QueueInv'
<1>1. UNCHANGED <<task_pending, message_queue, queueing>>
  BY DEF SendStep, PushSend, PostSend, WaitReturnsDone, WaitReturnsDispatch, WaitReturnsPump,
         PopSend, queueVars, loopVars
<1>2. stack[p] # <<>> /\ TopAt(p) # "dispatch"
  BY TopAtType
  DEF SendStep, PushSend, PostSend, WaitReturnsDone, WaitReturnsDispatch, WaitReturnsPump, PopSend
<1>3. CASE PushSend(p) \/ PostSend(p) \/ WaitReturnsDone(p)
  <2>1. DispatchKept
    BY <1>2, <1>3, MoveToDispatch DEF PushSend, PostSend, WaitReturnsDone
  <2>2. UNCHANGED listener_loop
    BY <1>3 DEF PushSend, PostSend, WaitReturnsDone, loopVars
  <2> QED
    BY <1>1, <2>1, <2>2, SameTasks, QueueInvKept
<1>4. CASE WaitReturnsDispatch(p)
  <2>1. DispatchKept /\ UNCHANGED listener_loop
    BY <1>4, EnterDispatch DEF WaitReturnsDispatch, loopVars
  <2> QED
    BY <1>1, <2>1, SameTasks, QueueInvKept
<1>5. CASE PopSend(p)
  <2>1. DispatchKept /\ UNCHANGED listener_loop
    BY <1>2, <1>5, ReturnDispatch DEF PopSend
  <2> QED
    BY <1>1, <2>1, SameTasks, QueueInvKept
<1>6. CASE WaitReturnsPump(p)
  <2> DEFINE s == listener_loop[p]
             stopped == {i \in DOMAIN stack[p] : stack[p][i].at = "pump"}
             loop == [i \in DOMAIN s |-> IF s[i].kind = "quit"
                                         THEN Task("nop", s[i].peer, 0) ELSE s[i]]
  <2>1. s \in Seq(ListenerTask)
    BY LoopType
  <2>2. loop \in Seq(ListenerTask)
    <3>1. \A i \in DOMAIN s : loop[i] \in ListenerTask
      BY <2>1, NopType
    <3>2. loop = [i \in DOMAIN s |-> loop[i]]
      OBVIOUS
    <3> HIDE DEF s, loop
    <3> QED
      BY <2>1, <3>1, <3>2, MapType
  <2>3. HasTask(s) => HasTask(loop)
    <3> HAVE HasTask(s)
    <3>1. PICK i \in DOMAIN s : s[i].kind = "dispatch"
      BY DEF HasTask
    <3>2. i \in DOMAIN loop /\ loop[i] = s[i]
      BY <3>1
    <3> HIDE DEF loop
    <3> QED
      BY <3>1, <3>2 DEF HasTask
  <2>4. StartWatching(p, Ref(Top(p).peer, SendDoneEntry(p).id), IF stopped = {} THEN s ELSE loop)
    BY <1>6 DEF WaitReturnsPump
  <2>5. TasksKept
    <3> HIDE DEF s, loop, stopped
    <3> QED
      BY <2>1, <2>2, <2>3, <2>4, StartWatchingTasks DEF s
  <2>6. DispatchKept
    BY <1>2, <1>6, MoveToDispatch DEF WaitReturnsPump
  <2> QED
    BY <1>1, <2>5, <2>6, QueueInvKept
<1> QED
  BY <1>3, <1>4, <1>5, <1>6 DEF SendStep

\* DispatchMessages returns only when the queue is empty.
LEMMA DispatchMessageQueue ==
  ASSUME TypeOK, QueueInv, NEW p \in Proc, DispatchMessage(p)
  PROVE  QueueInv'
<1>1. UNCHANGED <<task_pending, queueing, listener_loop>>
  BY DEF DispatchMessage, loopVars
<1>2. message_queue \in [Proc -> Seq(SendRef)]
  BY DEF TypeOK
<1>3. stack \in [Proc -> Seq(Frame)] /\ stack[p] # <<>> /\ HasDispatch(stack[p])
  <2>1. TopAt(p) = "dispatch" /\ stack[p] # <<>> /\ stack \in [Proc -> Seq(Frame)]
    BY TopAtType DEF DispatchMessage, TypeOK
  <2>2. stack[p] \in Seq(Frame) /\ stack[p][Len(stack[p])].at = "dispatch"
    BY <2>1, TopType
  <2> QED
    BY <2>1, <2>2, LastType DEF HasDispatch
<1>4. CASE message_queue[p] = <<>>
  <2>1. UNCHANGED message_queue /\ \A r \in Proc : r # p => stack'[r] = stack[r]
    BY <1>3, <1>4 DEF DispatchMessage, Return
  <2> QED
    BY <1>1, <1>4, <2>1 DEF QueueInv, WillPost
<1>5. CASE message_queue[p] # <<>>
  <2>1. /\ message_queue' = [message_queue EXCEPT ![p] = Tail(message_queue[p])]
        /\ UNCHANGED stack \/ \E f : Enter(p, f)
    BY <1>5 DEF DispatchMessage
  <2>2. \A r \in Proc : r # p => message_queue'[r] = message_queue[r]
    BY <1>2, <2>1
  <2>3. DispatchKept
    BY <2>1, SameTasks, EnterDispatch
  <2> QED
    BY <1>1, <1>3, <2>2, <2>3 DEF QueueInv, DispatchKept, WillPost
<1> QED
  BY <1>4, <1>5

\* DispatchMessagesTask breaks its promise only as it starts to dispatch.
LEMMA RunTaskQueue ==
  ASSUME TypeOK, QueueInv, NEW p \in Proc, RunTask(p)
  PROVE  QueueInv'
<1>1. listener_loop[p] # <<>> /\ TopAt(p) # "dispatch" /\ UNCHANGED <<message_queue, queueing>>
  BY DEF RunTask, Looping
<1>2. CASE RunDispatchTask(p)
  <2>1. task_pending \in [Proc -> BOOLEAN]
    BY DEF TypeOK
  <2>2. \A r \in Proc : task_pending'[r] = IF r = p THEN FALSE ELSE task_pending[r]
    BY <1>2, <2>1 DEF RunDispatchTask
  <2>3. \A r \in Proc : r # p => listener_loop'[r] = listener_loop[r]
    BY <1>2, LoopType DEF RunDispatchTask, TakeTask
  <2>4. DispatchKept /\ HasDispatch(stack'[p])
    BY <1>2, EnterDispatch DEF RunDispatchTask, Call
  <2> QED
    BY <1>1, <2>2, <2>3, <2>4 DEF QueueInv, DispatchKept, WillPost
<1>3. CASE RunWatchTask(p)
  <2>1. TasksKept /\ DispatchKept /\ UNCHANGED task_pending
    BY <1>1, <1>3, TakeTaskTasks, EnterDispatch DEF RunWatchTask
  <2> QED
    BY <1>1, <2>1, QueueInvKept
<1>4. CASE RunQuitTask(p)
  <2>1. stack[p] # <<>> /\ UNCHANGED task_pending
    BY <1>4, TopAtType DEF RunQuitTask
  <2>2. DispatchKept
    BY <1>1, <1>4, <2>1, MoveToDispatch DEF RunQuitTask
  <2>3. TasksKept
    <3>1. TakeTask(p) \/ \E w : StartWatching(p, w, Tail(listener_loop[p]))
      BY <1>4 DEF RunQuitTask
    <3>2. NextTask(p).kind # "dispatch"
      BY <1>4 DEF RunQuitTask
    <3>3. HasTask(listener_loop[p]) => HasTask(Tail(listener_loop[p]))
      BY <1>1, <3>2, LoopType, TailKeepsTask DEF NextTask
    <3>4. Tail(listener_loop[p]) \in Seq(ListenerTask)
      BY <1>1, TakeTaskType
    <3> QED
      BY <1>1, <3>1, <3>2, <3>3, <3>4, TakeTaskTasks, StartWatchingTasks
  <2> QED
    BY <1>1, <2>1, <2>2, <2>3, QueueInvKept
<1>5. CASE RunOtherTask(p)
  <2>1. TasksKept /\ UNCHANGED task_pending
    BY <1>1, <1>5, TakeTaskTasks DEF RunOtherTask
  <2>2. DispatchKept
    BY <1>5, SameTasks, EnterDispatch DEF RunOtherTask
  <2> QED
    BY <1>1, <2>1, <2>2, QueueInvKept
<1> QED
  BY <1>2, <1>3, <1>4, <1>5 DEF RunTask

\* RemoveContext only removes messages.
LEMMA CloseChannelKeepsEmpty ==
  ASSUME TypeOK, NEW p \in Proc, NEW q \in Proc, CloseChannel(p, q), NEW r \in Proc,
         message_queue[r] = <<>>
  PROVE  message_queue'[r] = <<>>
<1> DEFINE s == message_queue[p]
<1>1. message_queue \in [Proc -> Seq(SendRef)] /\ s \in Seq(SendRef)
  BY DEF TypeOK
<1>2. PICK kept \in SetToSeqs({i \in DOMAIN s : s[i].peer # q}) :
             message_queue' = [message_queue EXCEPT ![p] = [i \in DOMAIN kept |-> s[kept[i]]]]
  BY DEF CloseChannel
<1> DEFINE m == [i \in DOMAIN kept |-> s[kept[i]]]
<1>3. kept \in Seq(DOMAIN s)
  BY <1>1, KeptPlaces
<1>4. s = <<>> => m = <<>>
  <2> HAVE s = <<>>
  <2>1. kept \in Seq(DOMAIN s) /\ DOMAIN s = {}
    <3> HIDE DEF s
    <3> QED
      BY <1>3, EmptySeq
  <2>2. kept = <<>>
    <3> SUFFICES ASSUME kept # <<>> PROVE FALSE
      OBVIOUS
    <3> QED
      BY <2>1, LastType
  <2>3. DOMAIN m = {}
    BY <2>2, EmptySeq
  <2>4. m \in [1..0 -> {}]
    BY <2>3
  <2>5. m \in Seq({}) /\ Len(m) = 0
    BY <2>4, SeqDef
  <2> QED
    BY <2>5, EmptySeq
<1> HIDE DEF m
<1> QED
  BY <1>1, <1>2, <1>4 DEF m

\* A loop with callbacks cancelled.
LEMMA CancelledType ==
  ASSUME NEW l \in Seq(ListenerTask), NEW kind, NEW q \in Proc
  PROVE  Cancelled(l, kind, q) \in Seq(ListenerTask)
<1> DEFINE m == Cancelled(l, kind, q)
<1>1. Task("nop", q, 0) \in ListenerTask
  BY DEF Task, ListenerTask
<1>2. \A i \in DOMAIN l : m[i] \in ListenerTask
  <2> SUFFICES ASSUME NEW i \in DOMAIN l PROVE m[i] \in ListenerTask
    OBVIOUS
  <2>1. l[i] \in ListenerTask
    OBVIOUS
  <2>2. m[i] = Task("nop", q, 0) \/ m[i] = l[i]
    BY DEF Cancelled
  <2> QED
    BY <1>1, <2>1, <2>2
<1>3. m = [i \in DOMAIN l |-> m[i]]
  BY DEF Cancelled
<1> HIDE DEF m
<1> QED
  BY <1>2, <1>3, MapType DEF m

LEMMA CloseChannelQueue ==
  ASSUME TypeOK, QueueInv, NEW p \in Proc, NEW q \in Proc, CloseChannel(p, q)
  PROVE  QueueInv'
<1> DEFINE l == Cancelled(listener_loop[p], "watch", q)
<1>1. UNCHANGED <<task_pending, queueing, stack>> /\ CancelPendingSends(p, q, l)
  BY DEF CloseChannel
<1>2. \A r \in Proc : message_queue[r] = <<>> => message_queue'[r] = <<>>
  BY CloseChannelKeepsEmpty
<1>3. l \in Seq(ListenerTask)
  BY LoopType, CancelledType
<1>4. HasTask(listener_loop[p]) => HasTask(l)
  BY CancelledKeepsTask
<1> HIDE DEF l
<1>5. TasksKept
  BY <1>1, <1>3, <1>4, CancelTasks
<1> QED
  BY <1>1, <1>2, <1>5 DEF QueueInv, TasksKept, WillPost

\* The other tasks of the IPC thread leave the queue alone.
LEMMA IpcTasksKept ==
  ASSUME TypeOK, NEW p \in Proc
  PROVE  /\ RunIpcTask(p) => TasksKept
         /\ \A q \in Proc : ReadError(p, q) => TasksKept
         /\ \A w \in timers[p] : RunTimeout(p, w) => TasksKept
<1>1. ASSUME NEW q \in Proc, Disconnect(p, q) PROVE TasksKept
  BY <1>1, LoopType, CancelTasks DEF Disconnect
<1>2. ASSUME NEW q \in Proc, ReadError(p, q) PROVE TasksKept
  BY <1>1, <1>2 DEF ReadError
<1>3. ASSUME RunIpcTask(p) PROVE TasksKept
  <2> DEFINE t == NextIpcTask(p)
  <2>1. t.peer \in Proc
    BY <1>3, TakeIpcTaskType DEF RunIpcTask
  <2>2. CASE RunSendTask(p)
    <3>1. Disconnect(p, t.peer) \/ UNCHANGED listener_loop
      BY <2>2 DEF RunSendTask
    <3> HIDE DEF t
    <3> QED
      BY <1>1, <2>1, <3>1, SameTasks
  <2>3. CASE RunDispatchReplies(p)
    <3>1. UNCHANGED listener_loop \/ \E q \in Proc : \E ds : SignalDone(p, q, ds, listener_loop[p])
      <4>1. CASE Deliverable(p) = {}
        BY <2>3, <4>1 DEF RunDispatchReplies
      <4>2. CASE Deliverable(p) # {}
        <5>1. PICK i \in Deliverable(p) :
                UnblockListener(p, received_replies[p][i].peer, received_replies[p][i].msg)
          BY <2>3, <4>2 DEF RunDispatchReplies
        <5>2. received_replies[p] \in Seq(QueuedReply) /\ i \in DOMAIN received_replies[p]
          BY DEF TypeOK, Deliverable
        <5>3. received_replies[p][i] \in QueuedReply
          BY <5>2
        <5>4. received_replies[p][i].peer \in Proc
          BY <5>3 DEF QueuedReply
        <5> QED
          BY <5>1, <5>4 DEF UnblockListener
      <4> QED
        BY <4>1, <4>2
    <3> QED
      BY <3>1, LoopType, SameTasks, SignalDoneTasks
  <2>4. CASE RunCloseTask(p)
    BY <1>1, <2>1, <2>4 DEF RunCloseTask
  <2>5. CASE RunShutdownTask(p)
    BY <2>1, <2>5, LoopType, SameTasks, CancelTasks DEF RunShutdownTask
  <2> QED
    BY <1>3, <2>2, <2>3, <2>4, <2>5 DEF RunIpcTask
<1>4. ASSUME NEW w \in timers[p], RunTimeout(p, w) PROVE TasksKept
  <2>1. w \in SendRef
    BY DEF TypeOK
  <2>2. w.peer \in Proc
    BY <2>1 DEF SendRef
  <2> QED
    BY <1>4, <2>2, LoopType, SignalDoneTasks DEF RunTimeout
<1> QED
  BY <1>2, <1>3, <1>4

\* QueueMessage: the promise is made with the message, under message_lock_.
LEMMA ReceiveQueue ==
  ASSUME TypeOK, QueueInv, NEW p \in Proc, NEW q \in Proc, Receive(p, q)
  PROVE  QueueInv'
<1> DEFINE m == Head(pipe[q][p])
<1>1. queueing[p] = "no" /\ UNCHANGED stack
  BY DEF Receive, IpcFree
<1>2. CASE /\ Unblocks(p, q, m) /\ UnblockListener(p, q, m)
           /\ UNCHANGED <<message_queue, task_pending, queueing>>
  <2>1. TasksKept
    BY <1>2, LoopType, SignalDoneTasks DEF UnblockListener
  <2> QED
    BY <1>1, <1>2, <2>1, SameTasks, QueueInvKept
<1>3. CASE /\ queueing' = [queueing EXCEPT ![p] =
                 IF task_pending[p] THEN "signal" ELSE "signal and post"]
           /\ task_pending' = [task_pending EXCEPT ![p] = TRUE]
           /\ message_queue' = [message_queue EXCEPT ![p] = Append(@, Ref(q, m.id))]
           /\ UNCHANGED listener_loop
  <2>1. /\ queueing \in [Proc -> {"no", "signal", "signal and post", "post"}]
        /\ task_pending \in [Proc -> BOOLEAN] /\ message_queue \in [Proc -> Seq(SendRef)]
    BY DEF TypeOK
  <2>2. \A r \in Proc : r # p =>
          /\ queueing'[r] = queueing[r] /\ task_pending'[r] = task_pending[r]
          /\ message_queue'[r] = message_queue[r]
    BY <1>3, <2>1
  <2>3. queueing'[p] = IF task_pending[p] THEN "signal" ELSE "signal and post"
    BY <1>3, <2>1
  <2>4. task_pending[p] => HasTask(listener_loop[p])
    BY <1>1 DEF QueueInv, WillPost
  <2>5. queueing'[p] = "signal and post" \/ HasTask(listener_loop'[p])
    BY <1>3, <2>3, <2>4
  <2> QED
    BY <1>1, <1>3, <2>2, <2>5 DEF QueueInv, WillPost
<1>4. CASE UNCHANGED <<message_queue, task_pending, queueing, listener_loop>>
  BY <1>1, <1>4, SameTasks, QueueInvKept
<1>5. CASE /\ listener_loop' = [listener_loop EXCEPT ![p] = Append(@, Task("message", q, m.id))]
           /\ UNCHANGED <<message_queue, task_pending, queueing>>
  <2>1. \A r \in Proc : listener_loop'[r] =
          IF r = p THEN Append(listener_loop[p], Task("message", q, m.id)) ELSE listener_loop[r]
    BY <1>5, LoopType
  <2>2. HasTask(listener_loop[p]) => HasTask(Append(listener_loop[p], Task("message", q, m.id)))
    BY LoopType, AppendKeepsTask
  <2>3. TasksKept
    BY <2>1, <2>2 DEF TasksKept
  <2> QED
    BY <1>1, <1>5, <2>3, SameTasks, QueueInvKept
<1> QED
  <2> HIDE DEF m
  <2> QED
    BY <1>2, <1>3, <1>4, <1>5 DEF Receive, m

LEMMA SignalDispatchEventQueue ==
  ASSUME TypeOK, QueueInv, NEW p \in Proc, SignalDispatchEvent(p)
  PROVE  QueueInv'
<1> DEFINE armed == {q \in Proc : dispatch_watcher[p][q] = "armed"}
<1>1. PICK order \in SetToSeqs(armed) :
             listener_loop' = [listener_loop EXCEPT ![p] =
               listener_loop[p] \o [i \in DOMAIN order |-> Task("watch", order[i], 0)]]
  BY DEF SignalDispatchEvent
<1> DEFINE t == [i \in DOMAIN order |-> Task("watch", order[i], 0)]
           l == listener_loop[p]
<1>2. order \in Seq(armed)
  BY OrderType
<1>3. t \in Seq(ListenerTask)
  <2>1. \A i \in DOMAIN order : t[i] \in ListenerTask
    BY <1>2 DEF Task, ListenerTask
  <2>2. t = [i \in DOMAIN order |-> t[i]]
    OBVIOUS
  <2> HIDE DEF t, armed
  <2> QED
    BY <1>2, <2>1, <2>2, MapType
<1>4. \A r \in Proc : listener_loop'[r] = IF r = p THEN l \o t ELSE listener_loop[r]
  BY <1>1, LoopType
<1> HIDE DEF t, armed
<1>5. HasTask(l) => HasTask(l \o t)
  <2> HAVE HasTask(l)
  <2>1. l \in Seq(ListenerTask)
    BY LoopType
  <2> HIDE DEF l
  <2>2. PICK i \in DOMAIN l : l[i].kind = "dispatch"
    BY DEF HasTask
  <2>3. i \in DOMAIN (l \o t) /\ (l \o t)[i] = l[i]
    BY <1>3, <2>1
  <2> QED
    BY <2>2, <2>3 DEF HasTask
<1>6. TasksKept
  BY <1>4, <1>5 DEF TasksKept
<1>7. UNCHANGED <<stack, message_queue, task_pending>>
  BY DEF SignalDispatchEvent
<1>8. queueing \in [Proc -> {"no", "signal", "signal and post", "post"}]
  BY DEF TypeOK
<1>9. \A r \in Proc : WillPost(r) => WillPost(r)'
  BY <1>8 DEF SignalDispatchEvent, WillPost
<1> QED
  BY <1>6, <1>7, <1>9 DEF QueueInv, TasksKept, WillPost

LEMMA PostDispatchTaskQueue ==
  ASSUME TypeOK, QueueInv, NEW p \in Proc, PostDispatchTask(p)
  PROVE  QueueInv'
<1> DEFINE l == listener_loop[p]
           t == Task("dispatch", p, 0)
<1>1. l \in Seq(ListenerTask) /\ t.kind = "dispatch"
  BY LoopType DEF Task
<1>2. \A r \in Proc : listener_loop'[r] = IF r = p THEN Append(l, t) ELSE listener_loop[r]
  BY LoopType DEF PostDispatchTask
<1>3. HasTask(Append(l, t))
  <2> HIDE DEF l, t
  <2>1. Len(l) + 1 \in DOMAIN Append(l, t) /\ Append(l, t)[Len(l) + 1] = t
    BY <1>1
  <2> QED
    BY <1>1, <2>1 DEF HasTask
<1>4. UNCHANGED <<stack, message_queue, task_pending>>
  BY DEF PostDispatchTask, listenerVars, queueVars
<1>5. \A r \in Proc : r # p => queueing'[r] = queueing[r]
  BY DEF PostDispatchTask, TypeOK
<1> HIDE DEF l, t
<1> QED
  BY <1>2, <1>3, <1>4, <1>5 DEF QueueInv, WillPost

LEMMA NextQueue ==
  ASSUME TypeOK, QueueInv, [Next]_vars
  PROVE  QueueInv'
<1>1. ASSUME TasksKept, UNCHANGED <<stack, task_pending, message_queue, queueing>>
      PROVE  QueueInv'
  BY <1>1, SameTasks, QueueInvKept
<1>2. ASSUME DispatchKept, UNCHANGED <<listener_loop, task_pending, message_queue, queueing>>
      PROVE  QueueInv'
  BY <1>2, SameTasks, QueueInvKept
<1>3. CASE UNCHANGED vars
  BY <1>1, <1>3, SameTasks DEF vars, listenerVars, queueVars, loopVars
<1>4. ASSUME NEW p \in Proc, IpcStep(p) PROVE QueueInv'
  <2>1. CASE RunIpcTask(p)
    BY <1>1, <2>1, IpcTasksKept DEF RunIpcTask
  <2>2. ASSUME NEW q \in Proc, ReadError(p, q) PROVE QueueInv'
    BY <1>1, <2>2, IpcTasksKept DEF ReadError, queueVars
  <2> QED
    BY <1>4, <2>1, <2>2, SignalDispatchEventQueue, PostDispatchTaskQueue, ReceiveQueue DEF IpcStep
<1>5. ASSUME NEW p \in Proc, NEW w \in timers[p], RunTimeout(p, w) PROVE QueueInv'
  BY <1>1, <1>5, IpcTasksKept DEF RunTimeout, queueVars
<1>6. ASSUME NEW p \in Proc, Shutdown(p) \/ Crash(p) PROVE QueueInv'
  BY <1>1, <1>6, SameTasks DEF Shutdown, Crash, listenerVars, queueVars, loopVars
<1>7. ASSUME NEW p \in Proc, NEW ok, FinishHandler(p, ok) PROVE QueueInv'
  <2>1. DispatchKept
    BY <1>7, TopAtType, ReturnDispatch DEF FinishHandler, HandlerPoints
  <2> QED
    BY <1>2, <1>7, <2>1 DEF FinishHandler, queueVars
<1>8. ASSUME NEW p \in Proc, NEW q \in Proc, NEW kind, NEW timed, NEW pumped,
             BeginSend(p, q, kind, timed, pumped)
      PROVE  QueueInv'
  <2>1. DispatchKept
    BY <1>8, SameTasks, EnterDispatch DEF BeginSend
  <2> QED
    BY <1>2, <1>8, <2>1 DEF BeginSend, queueVars
<1> QED
  BY <1>3, <1>4, <1>5, <1>6, <1>7, <1>8, SendStepQueue, DispatchMessageQueue, RunTaskQueue,
     CloseChannelQueue DEF Next

\* task_pending_ saves a second DispatchMessagesTask and never the last one: a
\* synchronous message of a peer that is queued is about to get a task, has one
\* in the listener's loop, or is taken by a DispatchMessages that runs.
THEOREM QueuedMessageIsDispatched == Spec => []QueuedMessageHasDispatcher
<1> DEFINE Inv == TypeOK /\ StackInv /\ QueueInv
<1>1. Init => Inv
  <2>1. Init => QueueInv
    BY DEF Init, QueueInv
  <2> QED
    BY <2>1, InitType, InitStackInv
<1>2. Inv /\ [Next]_vars => Inv'
  BY NextType, NextStackInv, StackInvOwns, NextQueue
<1>3. Inv => QueuedMessageHasDispatcher
  <2> SUFFICES ASSUME QueueInv PROVE QueuedMessageHasDispatcher
    OBVIOUS
  <2> QED
    BY DEF QueueInv, WillPost, HasTask, HasDispatch, QueuedMessageHasDispatcher, InStack
<1> QED
  BY <1>1, <1>2, <1>3, PTL DEF Spec

----------------------------------------------------------------------------
(* A blocked Send is woken for a queued message: dispatch_event_ is reset   *)
(* only by a thread that goes on to DispatchMessages.                       *)

WillSignal(p) == queueing[p] \in {"signal", "signal and post"}
Woken(p) == dispatch_event[p] \/ WillSignal(p) \/ HasDispatch(stack[p])
WakeInv == \A p \in Proc : message_queue[p] # <<>> => Woken(p)

LEMMA WakeInvKept ==
  ASSUME WakeInv, DispatchKept, UNCHANGED <<dispatch_event, message_queue, queueing>>
  PROVE  WakeInv'
  BY DEF WakeInv, Woken, WillSignal, DispatchKept

\* A thread that calls DispatchMessages may reset the event; it may also take
\* the message that the event was for.
LEMMA DispatchWakes ==
  ASSUME TypeOK, WakeInv, NEW p \in Proc, DispatchKept, HasDispatch(stack'[p]),
         \A r \in Proc : r # p => dispatch_event'[r] = dispatch_event[r],
         UNCHANGED <<message_queue, queueing>>
  PROVE  WakeInv'
  BY DEF WakeInv, Woken, WillSignal, DispatchKept

LEMMA SendStepWake ==
  ASSUME TypeOK, WakeInv, NEW p \in Proc, SendStep(p)
  PROVE  WakeInv'
<1>1. stack[p] # <<>> /\ TopAt(p) # "dispatch"
  BY TopAtType
  DEF SendStep, PushSend, PostSend, WaitReturnsDone, WaitReturnsDispatch, WaitReturnsPump, PopSend
<1>2. CASE PushSend(p) \/ PostSend(p) \/ WaitReturnsDone(p) \/ WaitReturnsPump(p)
  <2>1. DispatchKept
    BY <1>1, <1>2, MoveToDispatch DEF PushSend, PostSend, WaitReturnsDone, WaitReturnsPump
  <2>2. UNCHANGED <<dispatch_event, message_queue, queueing>>
    BY <1>2 DEF PushSend, PostSend, WaitReturnsDone, WaitReturnsPump, queueVars, loopVars
  <2> QED
    BY <2>1, <2>2, WakeInvKept
<1>3. CASE WaitReturnsDispatch(p)
  <2>1. UNCHANGED <<message_queue, queueing>>
    BY <1>3 DEF WaitReturnsDispatch, loopVars
  <2>2. \A r \in Proc : r # p => dispatch_event'[r] = dispatch_event[r]
    BY <1>3 DEF WaitReturnsDispatch, TypeOK
  <2>3. DispatchKept /\ HasDispatch(stack'[p])
    BY <1>3, EnterDispatch DEF WaitReturnsDispatch, Call
  <2> QED
    BY <2>1, <2>2, <2>3, DispatchWakes
<1>4. CASE PopSend(p)
  <2>1. DispatchKept
    BY <1>1, <1>4, ReturnDispatch DEF PopSend
  <2>2. UNCHANGED <<dispatch_event, message_queue, queueing>>
    BY <1>4 DEF PopSend, queueVars
  <2> QED
    BY <2>1, <2>2, WakeInvKept
<1> QED
  BY <1>2, <1>3, <1>4 DEF SendStep

\* DispatchMessages returns only when the queue is empty.
LEMMA DispatchMessageWake ==
  ASSUME TypeOK, WakeInv, NEW p \in Proc, DispatchMessage(p)
  PROVE  WakeInv'
<1>1. UNCHANGED <<dispatch_event, queueing>>
  BY DEF DispatchMessage, loopVars
<1>2. message_queue \in [Proc -> Seq(SendRef)]
  BY DEF TypeOK
<1>3. stack \in [Proc -> Seq(Frame)] /\ stack[p] # <<>> /\ HasDispatch(stack[p])
  <2>1. TopAt(p) = "dispatch" /\ stack[p] # <<>> /\ stack \in [Proc -> Seq(Frame)]
    BY TopAtType DEF DispatchMessage, TypeOK
  <2>2. stack[p] \in Seq(Frame) /\ stack[p][Len(stack[p])].at = "dispatch"
    BY <2>1, TopType
  <2> QED
    BY <2>1, <2>2, LastType DEF HasDispatch
<1>4. CASE message_queue[p] = <<>>
  <2>1. UNCHANGED message_queue /\ \A r \in Proc : r # p => stack'[r] = stack[r]
    BY <1>3, <1>4 DEF DispatchMessage, Return
  <2> QED
    BY <1>1, <1>4, <2>1 DEF WakeInv, Woken, WillSignal
<1>5. CASE message_queue[p] # <<>>
  <2>1. /\ message_queue' = [message_queue EXCEPT ![p] = Tail(message_queue[p])]
        /\ UNCHANGED stack \/ \E f : Enter(p, f)
    BY <1>5 DEF DispatchMessage
  <2>2. \A r \in Proc : r # p => message_queue'[r] = message_queue[r]
    BY <1>2, <2>1
  <2>3. DispatchKept
    BY <2>1, SameTasks, EnterDispatch
  <2> QED
    BY <1>1, <1>3, <2>2, <2>3 DEF WakeInv, DispatchKept, Woken, WillSignal
<1> QED
  BY <1>4, <1>5

LEMMA RunTaskWake ==
  ASSUME TypeOK, WakeInv, NEW p \in Proc, RunTask(p)
  PROVE  WakeInv'
<1>1. TopAt(p) # "dispatch" /\ UNCHANGED <<message_queue, queueing>>
  BY DEF RunTask, Looping
<1>2. CASE RunDispatchTask(p)
  BY <1>1, <1>2, EnterDispatch, WakeInvKept DEF RunDispatchTask
<1>3. CASE RunWatchTask(p)
  <2>1. \A r \in Proc : r # p => dispatch_event'[r] = dispatch_event[r]
    BY <1>3 DEF RunWatchTask, TypeOK
  <2>2. DispatchKept /\ HasDispatch(stack'[p])
    BY <1>3, EnterDispatch DEF RunWatchTask, Call
  <2> QED
    BY <1>1, <2>1, <2>2, DispatchWakes
<1>4. CASE RunQuitTask(p)
  <2>1. stack[p] # <<>> /\ UNCHANGED dispatch_event
    BY <1>4, TopAtType DEF RunQuitTask
  <2>2. DispatchKept
    BY <1>1, <1>4, <2>1, MoveToDispatch DEF RunQuitTask
  <2> QED
    BY <1>1, <2>1, <2>2, WakeInvKept
<1>5. CASE RunOtherTask(p)
  <2>1. DispatchKept /\ UNCHANGED dispatch_event
    BY <1>5, SameTasks, EnterDispatch DEF RunOtherTask
  <2> QED
    BY <1>1, <2>1, WakeInvKept
<1> QED
  BY <1>2, <1>3, <1>4, <1>5 DEF RunTask

\* QueueMessage signals the event after it has queued the message.
LEMMA ReceiveWake ==
  ASSUME TypeOK, WakeInv, NEW p \in Proc, NEW q \in Proc, Receive(p, q)
  PROVE  WakeInv'
<1> DEFINE m == Head(pipe[q][p])
<1>1. UNCHANGED <<stack, dispatch_event>>
  BY DEF Receive
<1>2. CASE UNCHANGED <<message_queue, queueing>>
  BY <1>1, <1>2, SameTasks, WakeInvKept
<1>3. CASE /\ queueing' = [queueing EXCEPT ![p] =
                 IF task_pending[p] THEN "signal" ELSE "signal and post"]
           /\ message_queue' = [message_queue EXCEPT ![p] = Append(@, Ref(q, m.id))]
  <2>1. /\ queueing \in [Proc -> {"no", "signal", "signal and post", "post"}]
        /\ message_queue \in [Proc -> Seq(SendRef)]
    BY DEF TypeOK
  <2>2. \A r \in Proc : r # p =>
          queueing'[r] = queueing[r] /\ message_queue'[r] = message_queue[r]
    BY <1>3, <2>1
  <2>3. queueing'[p] = IF task_pending[p] THEN "signal" ELSE "signal and post"
    BY <1>3, <2>1
  <2> QED
    BY <1>1, <2>2, <2>3 DEF WakeInv, Woken, WillSignal
<1> QED
  <2> HIDE DEF m
  <2> QED
    BY <1>2, <1>3 DEF Receive, m

LEMMA NextWake ==
  ASSUME TypeOK, WakeInv, [Next]_vars
  PROVE  WakeInv'
<1>1. ASSUME DispatchKept, UNCHANGED <<dispatch_event, message_queue, queueing>>
      PROVE  WakeInv'
  BY <1>1, WakeInvKept
<1>2. CASE UNCHANGED vars
  BY <1>1, <1>2, SameTasks DEF vars, listenerVars, queueVars, loopVars
<1>3. ASSUME NEW p \in Proc, SignalDispatchEvent(p) PROVE WakeInv'
  <2>1. UNCHANGED <<stack, message_queue>>
    BY <1>3 DEF SignalDispatchEvent
  <2>2. dispatch_event'[p] = TRUE /\ \A r \in Proc : r # p => dispatch_event'[r] = dispatch_event[r]
    BY <1>3 DEF SignalDispatchEvent, TypeOK
  <2>3. \A r \in Proc : r # p => queueing'[r] = queueing[r]
    BY <1>3 DEF SignalDispatchEvent, TypeOK
  <2> QED
    BY <2>1, <2>2, <2>3 DEF WakeInv, Woken, WillSignal
<1>4. ASSUME NEW p \in Proc, PostDispatchTask(p) PROVE WakeInv'
  <2>1. UNCHANGED <<stack, message_queue, dispatch_event>>
    BY <1>4 DEF PostDispatchTask, listenerVars, queueVars
  <2>2. ~WillSignal(p) /\ \A r \in Proc : r # p => queueing'[r] = queueing[r]
    BY <1>4 DEF PostDispatchTask, TypeOK, WillSignal
  <2> QED
    BY <2>1, <2>2 DEF WakeInv, Woken, WillSignal
<1>5. ASSUME NEW p \in Proc, RunIpcTask(p) \/ \E q \in Proc : ReadError(p, q)
      PROVE  WakeInv'
  BY <1>1, <1>5, SameTasks DEF RunIpcTask, ReadError, queueVars
<1>6. ASSUME NEW p \in Proc, NEW w \in timers[p], RunTimeout(p, w) PROVE WakeInv'
  BY <1>1, <1>6, SameTasks DEF RunTimeout, queueVars
<1>7. ASSUME NEW p \in Proc, Shutdown(p) \/ Crash(p) PROVE WakeInv'
  BY <1>1, <1>7, SameTasks DEF Shutdown, Crash, listenerVars, queueVars, loopVars
<1>8. ASSUME NEW p \in Proc, NEW ok, FinishHandler(p, ok) PROVE WakeInv'
  <2>1. DispatchKept
    BY <1>8, TopAtType, ReturnDispatch DEF FinishHandler, HandlerPoints
  <2> QED
    BY <1>1, <1>8, <2>1 DEF FinishHandler, queueVars
<1>9. ASSUME NEW p \in Proc, NEW q \in Proc, NEW kind, NEW timed, NEW pumped,
             BeginSend(p, q, kind, timed, pumped)
      PROVE  WakeInv'
  <2>1. DispatchKept
    BY <1>9, SameTasks, EnterDispatch DEF BeginSend
  <2> QED
    BY <1>1, <1>9, <2>1 DEF BeginSend, queueVars
<1>10. ASSUME NEW p \in Proc, NEW q \in Proc, CloseChannel(p, q) PROVE WakeInv'
  <2>1. UNCHANGED <<stack, dispatch_event, queueing>>
    BY <1>10 DEF CloseChannel
  <2>2. \A r \in Proc : message_queue[r] = <<>> => message_queue'[r] = <<>>
    BY <1>10, CloseChannelKeepsEmpty
  <2> QED
    BY <2>1, <2>2 DEF WakeInv, Woken, WillSignal
<1> QED
  BY <1>2, <1>3, <1>4, <1>5, <1>6, <1>7, <1>8, <1>9, <1>10, SendStepWake, DispatchMessageWake,
     RunTaskWake, ReceiveWake DEF Next, IpcStep

\* WaitForReply does not sleep on a synchronous message that its peer waits to
\* have handled: dispatch_event_ is set, or about to be, unless the Send was
\* made by a handler that a DispatchMessages below is running.
THEOREM BlockedSendsAreWoken == Spec => []BlockedSendIsWoken
<1> DEFINE Inv == TypeOK /\ StackInv /\ WakeInv
<1>1. Init => Inv
  <2>1. Init => WakeInv
    BY DEF Init, WakeInv
  <2> QED
    BY <2>1, InitType, InitStackInv
<1>2. Inv /\ [Next]_vars => Inv'
  BY NextType, NextStackInv, StackInvOwns, NextWake
<1>3. Inv => BlockedSendIsWoken
  <2> SUFFICES ASSUME WakeInv PROVE BlockedSendIsWoken
    OBVIOUS
  <2> QED
    BY DEF WakeInv, Woken, WillSignal, HasDispatch, BlockedSendIsWoken, InStack
<1> QED
  BY <1>1, <1>2, <1>3, PTL DEF Spec

----------------------------------------------------------------------------
(* The callback of a send_done_watcher quits the innermost nested loop.     *)
(* The watcher, or the one callback it has posted, always belongs to the    *)
(* Send that runs that loop.                                                *)

\* w is the Send of the stack st that runs the innermost nested loop.
Innermost(st, w) ==
  \E i \in DOMAIN st :
    /\ st[i].at = "pump" /\ Ref(st[i].peer, st[i].id) = w
    /\ \A j \in DOMAIN st : j > i => st[j].at # "pump"

\* l are the tasks, ws what is watched and st the stack of a listener thread.
QuitsIn(l, ws, st) ==
  /\ \A w \in ws : Innermost(st, w)
  /\ \A i \in DOMAIN l : l[i].kind = "quit" =>
       /\ ws = {} /\ Innermost(st, Ref(l[i].peer, l[i].id))
       /\ \A j \in DOMAIN l : l[j].kind = "quit" => i = j

QuitsInv == \A p \in Proc : QuitsIn(listener_loop[p], send_done_watcher[p], stack[p])

\* Every callback of the tasks m is one of l, at the place that o tells.
OldQuits(l, m, o) ==
  /\ \A i \in DOMAIN m : m[i].kind = "quit" => o[i] \in DOMAIN l /\ l[o[i]] = m[i]
  /\ \A i, j \in DOMAIN m : m[i].kind = "quit" /\ m[j].kind = "quit" /\ o[i] = o[j] => i = j
NoNewQuits(l, m) == \E o : OldQuits(l, m, o)

PumpsKept == \A p \in Proc : \A w : Innermost(stack[p], w) => Innermost(stack'[p], w)
QuitsKept == \A p \in Proc : NoNewQuits(listener_loop[p], listener_loop'[p])

LEMMA OnlyInnermost ==
  ASSUME NEW S, NEW st \in Seq(S), NEW v, NEW w, Innermost(st, v), Innermost(st, w)
  PROVE  v = w
<1>1. PICK i \in DOMAIN st : /\ st[i].at = "pump" /\ Ref(st[i].peer, st[i].id) = v
                             /\ \A k \in DOMAIN st : k > i => st[k].at # "pump"
  BY DEF Innermost
<1>2. PICK j \in DOMAIN st : /\ st[j].at = "pump" /\ Ref(st[j].peer, st[j].id) = w
                             /\ \A k \in DOMAIN st : k > j => st[k].at # "pump"
  BY DEF Innermost
<1>3. ~(i < j) /\ ~(j < i) /\ DOMAIN st = 1..Len(st) /\ Len(st) \in Nat
  BY <1>1, <1>2
<1>4. i = j
  BY <1>3
<1> QED
  BY <1>1, <1>2, <1>4

LEMMA OldQuitsStay ==
  ASSUME NEW l, NEW m, NEW ws, NEW st, QuitsIn(l, ws, st), NoNewQuits(l, m)
  PROVE  QuitsIn(m, ws, st)
<1>1. PICK o : OldQuits(l, m, o)
  BY DEF NoNewQuits
<1> QED
  BY <1>1 DEF OldQuits, QuitsIn

LEMMA SameQuits ==
  ASSUME NEW l
  PROVE  NoNewQuits(l, l)
<1>1. OldQuits(l, l, [i \in DOMAIN l |-> i])
  BY DEF OldQuits
<1> QED
  BY <1>1 DEF NoNewQuits

LEMMA TailQuits ==
  ASSUME NEW S, NEW l \in Seq(S), l # <<>>
  PROVE  NoNewQuits(l, Tail(l))
<1>1. \A i \in DOMAIN Tail(l) : i \in Nat /\ i + 1 \in DOMAIN l /\ Tail(l)[i] = l[i + 1]
  OBVIOUS
<1>2. OldQuits(l, Tail(l), [i \in DOMAIN Tail(l) |-> i + 1])
  BY <1>1 DEF OldQuits
<1> QED
  BY <1>2 DEF NoNewQuits

LEMMA AppendQuits ==
  ASSUME NEW S, NEW l \in Seq(S), NEW t, t.kind # "quit"
  PROVE  NoNewQuits(l, Append(l, t))
<1> DEFINE m == Append(l, t)
<1>1. \A i \in DOMAIN m : (i \in DOMAIN l /\ m[i] = l[i]) \/ m[i] = t
  OBVIOUS
<1> HIDE DEF m
<1>2. OldQuits(l, m, [i \in DOMAIN m |-> i])
  BY <1>1 DEF OldQuits
<1> QED
  BY <1>2 DEF NoNewQuits, m

LEMMA ConcatQuits ==
  ASSUME NEW S, NEW l \in Seq(S), NEW t \in Seq(S), \A i \in DOMAIN t : t[i].kind # "quit"
  PROVE  NoNewQuits(l, l \o t)
<1> DEFINE m == l \o t
<1>1. ASSUME NEW i \in DOMAIN m PROVE (i \in DOMAIN l /\ m[i] = l[i]) \/ m[i].kind # "quit"
  <2>1. i \in 1..(Len(l) + Len(t)) /\ Len(l) \in Nat /\ Len(t) \in Nat
    BY <1>1
  <2>2. CASE i <= Len(l)
    BY <2>1, <2>2
  <2>3. CASE i > Len(l)
    <3>1. m[i] = t[i - Len(l)] /\ i - Len(l) \in DOMAIN t
      BY <2>1, <2>3
    <3> QED
      BY <3>1
  <2> QED
    BY <2>1, <2>2, <2>3
<1> HIDE DEF m
<1>2. OldQuits(l, m, [i \in DOMAIN m |-> i])
  BY <1>1 DEF OldQuits
<1> QED
  BY <1>2 DEF NoNewQuits, m

LEMMA CancelledQuits ==
  ASSUME NEW l, NEW kind, NEW q
  PROVE  NoNewQuits(l, Cancelled(l, kind, q))
<1> DEFINE m == Cancelled(l, kind, q)
<1>1. DOMAIN m = DOMAIN l /\ \A i \in DOMAIN l : m[i] = l[i] \/ m[i] = Task("nop", q, 0)
  BY DEF Cancelled
<1>2. Task("nop", q, 0).kind # "quit"
  BY DEF Task
<1> HIDE DEF m
<1>3. OldQuits(l, m, [i \in DOMAIN m |-> i])
  BY <1>1, <1>2 DEF OldQuits
<1> QED
  BY <1>3 DEF NoNewQuits, m

LEMMA QuitsInvKept ==
  ASSUME QuitsInv, PumpsKept, QuitsKept, UNCHANGED send_done_watcher
  PROVE  QuitsInv'
<1> SUFFICES ASSUME NEW p \in Proc
             PROVE  QuitsIn(listener_loop'[p], send_done_watcher[p], stack'[p])
  BY DEF QuitsInv
<1>1. QuitsIn(listener_loop'[p], send_done_watcher[p], stack[p])
  BY OldQuitsStay DEF QuitsInv, QuitsKept
<1> QED
  BY <1>1 DEF QuitsIn, PumpsKept

LEMMA UnchangedQuits ==
  /\ UNCHANGED listener_loop => QuitsKept
  /\ UNCHANGED stack => PumpsKept
  BY SameQuits DEF QuitsKept, PumpsKept

\* Only one process has its tasks or its watcher changed.
LEMMA QuitsOfOne ==
  ASSUME TypeOK, QuitsInv, PumpsKept, NEW p \in Proc, NEW l, NEW ws,
         listener_loop' = [listener_loop EXCEPT ![p] = l],
         send_done_watcher' = [send_done_watcher EXCEPT ![p] = ws],
         QuitsIn(l, ws, stack'[p])
  PROVE  QuitsInv'
<1>1. /\ listener_loop'[p] = l /\ send_done_watcher'[p] = ws
      /\ \A r \in Proc : r # p => /\ listener_loop'[r] = listener_loop[r]
                                  /\ send_done_watcher'[r] = send_done_watcher[r]
  BY DEF TypeOK
<1>2. ASSUME NEW r \in Proc, r # p
      PROVE  QuitsIn(listener_loop[r], send_done_watcher[r], stack'[r])
  BY DEF QuitsInv, QuitsIn, PumpsKept
<1> QED
  BY <1>1, <1>2 DEF QuitsInv

LEMMA LoopUpdate ==
  ASSUME TypeOK, NEW p \in Proc, NEW l, NoNewQuits(listener_loop[p], l),
         listener_loop' = [listener_loop EXCEPT ![p] = l]
  PROVE  QuitsKept
<1>1. listener_loop'[p] = l /\ \A r \in Proc : r # p => listener_loop'[r] = listener_loop[r]
  BY LoopType
<1> QED
  BY <1>1, SameQuits DEF QuitsKept

\* The send that is signaled is the one that was watched, and no callback of a
\* watcher was waiting.
LEMMA SignalDoneQuits ==
  ASSUME TypeOK, QuitsInv, UNCHANGED stack, NEW p \in Proc, NEW q \in Proc, NEW ds,
         NEW loop \in Seq(ListenerTask), NoNewQuits(listener_loop[p], loop),
         SignalDone(p, q, ds, loop)
  PROVE  QuitsInv'
<1> DEFINE ws == send_done_watcher[p]
           fired == {w \in ws : w.peer = q /\ \E i \in DOMAIN ds : ds[i].id = w.id /\ ds[i].done}
           c == CHOOSE w \in fired : TRUE
           t == Task("quit", q, c.id)
           l == IF fired = {} THEN loop ELSE Append(loop, t)
<1>1. /\ send_done_watcher' = [send_done_watcher EXCEPT ![p] = ws \ fired]
      /\ listener_loop' = [listener_loop EXCEPT ![p] = l]
  BY DEF SignalDone
<1>2. QuitsIn(loop, ws, stack[p]) /\ stack[p] \in Seq(Frame)
  BY OldQuitsStay DEF QuitsInv, TypeOK
<1>3. \A w \in fired : w \in ws /\ w.peer = q
  OBVIOUS
<1>4. t.kind = "quit" /\ t.peer = q /\ t.id = c.id
  BY DEF Task
<1> HIDE DEF ws, fired, t
<1>5. QuitsIn(l, ws \ fired, stack[p])
  <2>1. CASE fired = {}
    BY <1>2, <2>1
  <2>2. CASE fired # {}
    <3>1. c \in fired /\ c \in ws /\ c.peer = q
      BY <1>3, <2>2
    <3> HIDE DEF c
    <3>2. Innermost(stack[p], c) /\ ~\E i \in DOMAIN loop : loop[i].kind = "quit"
      BY <1>2, <3>1 DEF QuitsIn
    <3>3. Ref(t.peer, t.id) = c
      <4>1. PICK i : Ref(stack[p][i].peer, stack[p][i].id) = c
        BY <3>2 DEF Innermost
      <4>2. c.peer = stack[p][i].peer /\ c.id = stack[p][i].id
        BY <4>1 DEF Ref
      <4> QED
        BY <1>4, <3>1, <4>1, <4>2
    <3>4. ws \ fired = {}
      <4>1. \A w \in ws : w = c
        BY <1>2, <3>2, OnlyInnermost DEF QuitsIn
      <4> QED
        BY <3>1, <4>1
    <3>5. DOMAIN Append(loop, t) = DOMAIN loop \cup {Len(loop) + 1}
      OBVIOUS
    <3>6. /\ \A i \in DOMAIN loop : Append(loop, t)[i] = loop[i]
          /\ Append(loop, t)[Len(loop) + 1] = t
      OBVIOUS
    <3> QED
      BY <2>2, <3>2, <3>3, <3>4, <3>5, <3>6 DEF QuitsIn
  <2> QED
    BY <2>1, <2>2
<1> HIDE DEF l
<1>6. PumpsKept /\ QuitsIn(l, ws \ fired, stack'[p])
  BY <1>5, UnchangedQuits
<1> QED
  BY <1>1, <1>6, QuitsOfOne

LEMMA CancelQuits ==
  ASSUME TypeOK, QuitsInv, UNCHANGED stack, NEW p \in Proc, NEW q \in Proc,
         NEW loop \in Seq(ListenerTask), NoNewQuits(listener_loop[p], loop),
         CancelPendingSends(p, q, loop)
  PROVE  QuitsInv'
  BY SignalDoneQuits DEF CancelPendingSends

\* The innermost loop's Send is watched, and no callback is left.
LEMMA StartWatchingQuits ==
  ASSUME TypeOK, QuitsInv, NEW p \in Proc, NEW w, Innermost(stack'[p], w),
         \A r \in Proc : r # p => stack'[r] = stack[r],
         NEW loop \in Seq(ListenerTask), \A i \in DOMAIN loop : loop[i].kind # "quit",
         StartWatching(p, w, loop)
  PROVE  QuitsInv'
<1> DEFINE done == \E i \in DOMAIN deserializers[p][w.peer] :
                      /\ deserializers[p][w.peer][i].id = w.id
                      /\ deserializers[p][w.peer][i].done
           t == Task("quit", w.peer, w.id)
           ws == IF done THEN {} ELSE {w}
           l == IF done THEN Append(loop, t) ELSE loop
<1>1. /\ listener_loop' = [listener_loop EXCEPT ![p] = l]
      /\ send_done_watcher' = [send_done_watcher EXCEPT ![p] = ws]
  BY DEF StartWatching
<1> HIDE DEF done
<1>2. Ref(t.peer, t.id) = w
  <2>1. PICK i : Ref(stack'[p][i].peer, stack'[p][i].id) = w
    BY DEF Innermost
  <2>2. w = Ref(w.peer, w.id)
    BY <2>1 DEF Ref
  <2> QED
    BY <2>2 DEF Task
<1>3. QuitsIn(l, ws, stack'[p])
  <2>1. CASE ~done
    BY <2>1 DEF QuitsIn
  <2>2. CASE done
    <3> HIDE DEF t
    <3>1. DOMAIN Append(loop, t) = DOMAIN loop \cup {Len(loop) + 1}
      OBVIOUS
    <3>2. /\ \A i \in DOMAIN loop : Append(loop, t)[i] = loop[i]
          /\ Append(loop, t)[Len(loop) + 1] = t
      OBVIOUS
    <3> QED
      BY <1>2, <2>2, <3>1, <3>2 DEF QuitsIn
  <2> QED
    BY <2>1, <2>2
<1>4. /\ listener_loop'[p] = l /\ send_done_watcher'[p] = ws
      /\ \A r \in Proc : r # p => /\ listener_loop'[r] = listener_loop[r]
                                  /\ send_done_watcher'[r] = send_done_watcher[r]
  <2> HIDE DEF l, ws
  <2> QED
    BY <1>1 DEF TypeOK
<1> HIDE DEF l, ws
<1> QED
  BY <1>3, <1>4 DEF QuitsInv

\* What a stack step leaves of the innermost loop.
LEMMA EnterPumps ==
  ASSUME TypeOK, NEW p \in Proc, NEW f, f.at # "pump", Enter(p, f)
  PROVE  PumpsKept
<1> DEFINE st == stack[p]
           tt == Append(st, f)
<1>1. stack \in [Proc -> Seq(Frame)] /\ st \in Seq(Frame)
  BY DEF TypeOK
<1>2. \A r \in Proc : stack'[r] = IF r = p THEN tt ELSE stack[r]
  BY <1>1 DEF Enter
<1>3. /\ \A i \in DOMAIN st : i \in DOMAIN tt /\ tt[i] = st[i]
      /\ \A i \in DOMAIN tt : i \in DOMAIN st \/ tt[i] = f
  BY <1>1
<1> HIDE DEF st, tt
<1>4. \A w : Innermost(st, w) => Innermost(tt, w)
  BY <1>3 DEF Innermost
<1> QED
  BY <1>2, <1>4 DEF PumpsKept, st

LEMMA ReturnPumps ==
  ASSUME TypeOK, NEW p \in Proc, stack[p] # <<>>, TopAt(p) # "pump", Return(p)
  PROVE  PumpsKept
<1> DEFINE st == stack[p]
           n == Len(st)
           tt == SubSeq(st, 1, n - 1)
<1>1. stack \in [Proc -> Seq(Frame)] /\ st \in Seq(Frame)
  BY DEF TypeOK
<1>2. n \in DOMAIN st /\ n \in Nat \ {0} /\ st[n].at # "pump"
  BY <1>1, TopType, LastType
<1>3. \A r \in Proc : stack'[r] = IF r = p THEN tt ELSE stack[r]
  BY <1>1 DEF Return, Front
<1>4. /\ \A i \in DOMAIN st : i # n => i \in DOMAIN tt /\ tt[i] = st[i]
      /\ \A i \in DOMAIN tt : i \in DOMAIN st /\ tt[i] = st[i]
  BY <1>1, <1>2
<1> HIDE DEF st, tt, n
<1>5. \A w : Innermost(st, w) => Innermost(tt, w)
  BY <1>2, <1>4 DEF Innermost
<1> QED
  BY <1>3, <1>5 DEF PumpsKept, st

\* The frame on top moves to at, all others stay.
LEMMA MoveToFrames ==
  ASSUME TypeOK, NEW p \in Proc, stack[p] # <<>>, NEW at, MoveTo(p, at)
  PROVE  /\ \A r \in Proc : r # p => stack'[r] = stack[r]
         /\ DOMAIN stack'[p] = DOMAIN stack[p]
         /\ Len(stack[p]) \in DOMAIN stack[p] /\ DOMAIN stack[p] = 1..Len(stack[p])
         /\ Len(stack[p]) \in Nat /\ Top(p) = stack[p][Len(stack[p])]
         /\ \A i \in DOMAIN stack[p] : i # Len(stack[p]) => stack'[p][i] = stack[p][i]
         /\ stack'[p][Len(stack[p])].at = at
         /\ stack'[p][Len(stack[p])].peer = Top(p).peer
         /\ stack'[p][Len(stack[p])].id = Top(p).id
<1> DEFINE st == stack[p]
           n == Len(st)
           g == [st[n] EXCEPT !.at = at]
<1>1. stack \in [Proc -> Seq(Frame)] /\ st \in Seq(Frame)
  BY DEF TypeOK
<1>2. n \in DOMAIN st /\ Top(p) = st[n] /\ n \in Nat /\ DOMAIN st = 1..n
  BY <1>1, TopType, LastType
<1>3. st[n] \in Frame
  BY <1>1, <1>2
<1>4. g.at = at /\ g.peer = st[n].peer /\ g.id = st[n].id
  BY <1>3 DEF Frame
<1>5. stack' = [stack EXCEPT ![p] = [st EXCEPT ![n] = g]]
  BY DEF MoveTo
<1> HIDE DEF g
<1>6. \A r \in Proc : stack'[r] = IF r = p THEN [st EXCEPT ![n] = g] ELSE stack[r]
  BY <1>1, <1>5
<1>7. /\ DOMAIN [st EXCEPT ![n] = g] = DOMAIN st
      /\ [st EXCEPT ![n] = g][n] = g
      /\ \A i \in DOMAIN st : i # n => [st EXCEPT ![n] = g][i] = st[i]
  BY <1>2
<1> QED
  BY <1>2, <1>4, <1>6, <1>7

LEMMA MoveToPumps ==
  ASSUME TypeOK, NEW p \in Proc, stack[p] # <<>>, TopAt(p) # "pump",
         NEW at, at # "pump", MoveTo(p, at)
  PROVE  PumpsKept
<1> DEFINE n == Len(stack[p])
<1>1. stack[p][n].at # "pump"
  <2>1. stack[p] \in Seq(Frame)
    BY DEF TypeOK
  <2> QED
    BY <2>1, TopType, LastType
<1>2. /\ \A r \in Proc : r # p => stack'[r] = stack[r]
      /\ DOMAIN stack'[p] = DOMAIN stack[p]
      /\ \A i \in DOMAIN stack[p] : i # n => stack'[p][i] = stack[p][i]
      /\ stack'[p][n].at # "pump"
  BY MoveToFrames
<1> HIDE DEF n
<1>3. \A w : Innermost(stack[p], w) => Innermost(stack'[p], w)
  BY <1>1, <1>2 DEF Innermost
<1> QED
  BY <1>2, <1>3 DEF PumpsKept

\* A Send that starts to pump becomes the innermost, and what was watched or
\* had posted its callback is stopped.
LEMMA WaitReturnsPumpQuits ==
  ASSUME TypeOK, SendOwnsLastEntry, QuitsInv, NEW p \in Proc, WaitReturnsPump(p)
  PROVE  QuitsInv'
<1> DEFINE l == listener_loop[p]
           stopped == {i \in DOMAIN stack[p] : stack[p][i].at = "pump"}
           m == [i \in DOMAIN l |-> IF l[i].kind = "quit" THEN Task("nop", l[i].peer, 0) ELSE l[i]]
           w == Ref(Top(p).peer, Top(p).id)
           loop == IF stopped = {} THEN l ELSE m
<1>1. TopAt(p) = "wait" /\ stack[p] # <<>> /\ MoveTo(p, "pump")
  BY TopAtType DEF WaitReturnsPump
<1>2. SendDoneEntry(p).id = Top(p).id
  BY <1>1 DEF SendOwnsLastEntry, SendPoints
<1>3. StartWatching(p, w, loop)
  BY <1>2 DEF WaitReturnsPump
<1>4. l \in Seq(ListenerTask)
  BY LoopType
<1>5. /\ \A r \in Proc : r # p => stack'[r] = stack[r]
      /\ Innermost(stack'[p], w)
  <2>1. /\ \A r \in Proc : r # p => stack'[r] = stack[r]
        /\ DOMAIN stack'[p] = 1..Len(stack[p]) /\ Len(stack[p]) \in DOMAIN stack'[p]
        /\ Len(stack[p]) \in Nat
        /\ stack'[p][Len(stack[p])].at = "pump"
        /\ Ref(stack'[p][Len(stack[p])].peer, stack'[p][Len(stack[p])].id) = w
    BY <1>1, MoveToFrames
  <2> HIDE DEF w
  <2> QED
    BY <2>1 DEF Innermost
<1>6. loop \in Seq(ListenerTask)
  <2>1. \A i \in DOMAIN l : m[i] \in ListenerTask
    BY <1>4, NopType
  <2>2. m = [i \in DOMAIN l |-> m[i]]
    OBVIOUS
  <2> HIDE DEF l, m, stopped
  <2> QED
    BY <1>4, <2>1, <2>2, MapType
<1>7. \A i \in DOMAIN loop : loop[i].kind # "quit"
  <2>1. CASE stopped = {}
    BY <2>1 DEF QuitsInv, QuitsIn, Innermost
  <2>2. CASE stopped # {}
    BY <2>2 DEF Task
  <2> QED
    BY <2>1, <2>2
<1> HIDE DEF w, loop
<1> QED
  BY <1>3, <1>5, <1>6, <1>7, StartWatchingQuits

\* The innermost loop is quit; the pumping Send below it, if there is one,
\* becomes the innermost and is watched again.
LEMMA RunQuitTaskQuits ==
  ASSUME TypeOK, QuitsInv, NEW p \in Proc, listener_loop[p] # <<>>, RunQuitTask(p)
  PROVE  QuitsInv'
<1> DEFINE l == listener_loop[p]
           below == {i \in DOMAIN Front(stack[p]) : stack[p][i].at = "pump"}
           n == Len(stack[p])
<1>1. NextTask(p).kind = "quit" /\ TopAt(p) = "pump" /\ stack[p] # <<>> /\ MoveTo(p, "pop")
  BY TopAtType DEF RunQuitTask
<1>2. l \in Seq(ListenerTask) /\ Tail(l) \in Seq(ListenerTask)
  BY LoopType, TakeTaskType
<1>3. \A i \in DOMAIN Tail(l) : Tail(l)[i].kind # "quit"
  <2>1. 1 \in DOMAIN l /\ l[1].kind = "quit"
    BY <1>1, <1>2 DEF NextTask
  <2>2. \A i \in DOMAIN Tail(l) : i + 1 \in DOMAIN l /\ i + 1 # 1 /\ Tail(l)[i] = l[i + 1]
    BY <1>2
  <2> QED
    BY <2>1, <2>2 DEF QuitsInv, QuitsIn
<1>4. /\ \A r \in Proc : r # p => stack'[r] = stack[r]
      /\ DOMAIN stack'[p] = 1..n /\ n \in Nat /\ n # 0
      /\ \A i \in 1..n : i # n => stack'[p][i] = stack[p][i]
      /\ stack'[p][n].at = "pop"
  BY <1>1, MoveToFrames
<1>5. CASE below = {}
  <2>1. /\ listener_loop' = [listener_loop EXCEPT ![p] = Tail(l)]
        /\ send_done_watcher' = [send_done_watcher EXCEPT ![p] = {}]
    BY <1>5 DEF RunQuitTask, TakeTask
  <2>2. QuitsIn(Tail(l), {}, stack'[p])
    BY <1>3 DEF QuitsIn
  <2> HIDE DEF l, below
  <2>3. /\ listener_loop'[p] = Tail(l) /\ send_done_watcher'[p] = {}
        /\ \A r \in Proc : r # p => /\ listener_loop'[r] = listener_loop[r]
                                    /\ send_done_watcher'[r] = send_done_watcher[r]
    BY <2>1 DEF TypeOK
  <2> QED
    BY <1>4, <2>2, <2>3 DEF QuitsInv
<1>6. CASE below # {}
  <2>1. PICK i \in below :
          /\ \A j \in below : j <= i
          /\ StartWatching(p, Ref(stack[p][i].peer, stack[p][i].id), Tail(l))
    BY <1>6 DEF RunQuitTask
  <2>2. DOMAIN Front(stack[p]) = 1..(n - 1)
    <3>1. stack[p] \in Seq(Frame)
      BY DEF TypeOK
    <3> QED
      BY <1>4, <3>1 DEF Front
  <2>3. i \in 1..n /\ i # n /\ stack'[p][i] = stack[p][i] /\ stack[p][i].at = "pump"
    BY <1>4, <2>1, <2>2
  <2>4. ASSUME NEW j \in DOMAIN stack'[p], j > i PROVE stack'[p][j].at # "pump"
    <3>1. CASE j = n
      BY <1>4, <3>1
    <3>2. CASE j # n
      <4>1. j \in 1..(n - 1) /\ stack'[p][j] = stack[p][j]
        BY <1>4, <2>4, <3>2
      <4>2. j \notin below
        BY <2>1, <2>2, <2>3, <2>4, <4>1
      <4> QED
        BY <2>2, <4>1, <4>2
    <3> QED
      BY <3>1, <3>2
  <2>5. Innermost(stack'[p], Ref(stack[p][i].peer, stack[p][i].id))
    BY <1>4, <2>3, <2>4 DEF Innermost
  <2> HIDE DEF below, l
  <2> QED
    BY <1>2, <1>3, <1>4, <2>1, <2>5, StartWatchingQuits
<1> QED
  BY <1>5, <1>6

LEMMA SendStepQuits ==
  ASSUME TypeOK, SendOwnsLastEntry, QuitsInv, NEW p \in Proc, SendStep(p)
  PROVE  QuitsInv'
<1>1. stack[p] # <<>>
  BY TopAtType
  DEF SendStep, PushSend, PostSend, WaitReturnsDone, WaitReturnsDispatch, WaitReturnsPump, PopSend
<1>2. CASE PushSend(p) \/ PostSend(p) \/ WaitReturnsDone(p)
  <2>1. PumpsKept
    BY <1>1, <1>2, MoveToPumps DEF PushSend, PostSend, WaitReturnsDone
  <2>2. UNCHANGED <<listener_loop, send_done_watcher>>
    BY <1>2 DEF PushSend, PostSend, WaitReturnsDone, loopVars
  <2> QED
    BY <2>1, <2>2, UnchangedQuits, QuitsInvKept
<1>3. CASE WaitReturnsDispatch(p)
  <2>1. PumpsKept
    BY <1>3, EnterPumps DEF WaitReturnsDispatch, Call
  <2>2. UNCHANGED <<listener_loop, send_done_watcher>>
    BY <1>3 DEF WaitReturnsDispatch, loopVars
  <2> QED
    BY <2>1, <2>2, UnchangedQuits, QuitsInvKept
<1>4. CASE PopSend(p)
  <2>1. PumpsKept
    BY <1>1, <1>4, ReturnPumps DEF PopSend
  <2>2. UNCHANGED <<listener_loop, send_done_watcher>>
    BY <1>4 DEF PopSend
  <2> QED
    BY <2>1, <2>2, UnchangedQuits, QuitsInvKept
<1> QED
  BY <1>2, <1>3, <1>4, WaitReturnsPumpQuits DEF SendStep

LEMMA RunTaskQuits ==
  ASSUME TypeOK, QuitsInv, NEW p \in Proc, RunTask(p)
  PROVE  QuitsInv'
<1>1. listener_loop[p] # <<>> /\ listener_loop[p] \in Seq(ListenerTask)
  BY LoopType DEF RunTask
<1>2. CASE RunQuitTask(p)
  BY <1>1, <1>2, RunQuitTaskQuits
<1>3. CASE RunDispatchTask(p) \/ RunWatchTask(p) \/ RunOtherTask(p)
  <2>1. /\ listener_loop' = [listener_loop EXCEPT ![p] = Tail(listener_loop[p])]
        /\ UNCHANGED send_done_watcher
    BY <1>3 DEF RunDispatchTask, RunWatchTask, RunOtherTask, TakeTask
  <2>2. QuitsKept
    <3>1. NoNewQuits(listener_loop[p], Tail(listener_loop[p]))
      BY <1>1, TailQuits
    <3> QED
      BY <2>1, <3>1, LoopUpdate
  <2>3. UNCHANGED stack \/ \E f : f.at # "pump" /\ Enter(p, f)
    BY <1>3 DEF RunDispatchTask, RunWatchTask, RunOtherTask, Call
  <2>4. PumpsKept
    BY <2>3, EnterPumps, UnchangedQuits
  <2> QED
    BY <2>1, <2>2, <2>4, QuitsInvKept
<1> QED
  BY <1>2, <1>3 DEF RunTask

LEMMA CloseChannelQuits ==
  ASSUME TypeOK, QuitsInv, NEW p \in Proc, NEW q \in Proc, CloseChannel(p, q)
  PROVE  QuitsInv'
<1> DEFINE l == Cancelled(listener_loop[p], "watch", q)
<1>1. CancelPendingSends(p, q, l) /\ UNCHANGED stack
  BY DEF CloseChannel
<1>2. NoNewQuits(listener_loop[p], l)
  BY CancelledQuits
<1>3. l \in Seq(ListenerTask)
  BY LoopType, CancelledType
<1> HIDE DEF l
<1> QED
  BY <1>1, <1>2, <1>3, CancelQuits

\* The tasks of the IPC thread signal sends, or leave the listener alone.
LEMMA IpcTasksQuits ==
  ASSUME TypeOK, QuitsInv, UNCHANGED stack, NEW p \in Proc
  PROVE  /\ RunIpcTask(p) => QuitsInv'
         /\ \A q \in Proc : ReadError(p, q) => QuitsInv'
         /\ \A w \in timers[p] : RunTimeout(p, w) => QuitsInv'
<1>1. NoNewQuits(listener_loop[p], listener_loop[p]) /\ listener_loop[p] \in Seq(ListenerTask)
  BY SameQuits, LoopType
<1>2. ASSUME UNCHANGED <<listener_loop, send_done_watcher>> PROVE QuitsInv'
  BY <1>2, UnchangedQuits, QuitsInvKept
<1>3. ASSUME NEW q \in Proc, NEW ds, SignalDone(p, q, ds, listener_loop[p]) PROVE QuitsInv'
  BY <1>1, <1>3, SignalDoneQuits
<1>4. ASSUME NEW q \in Proc, CancelPendingSends(p, q, listener_loop[p]) PROVE QuitsInv'
  BY <1>3, <1>4 DEF CancelPendingSends
<1>5. ASSUME NEW q \in Proc, Disconnect(p, q) PROVE QuitsInv'
  BY <1>4, <1>5 DEF Disconnect
<1>6. ASSUME NEW q \in Proc, ReadError(p, q) PROVE QuitsInv'
  BY <1>5, <1>6 DEF ReadError
<1>7. ASSUME RunIpcTask(p) PROVE QuitsInv'
  <2> DEFINE t == NextIpcTask(p)
  <2>1. t.peer \in Proc
    BY <1>7, TakeIpcTaskType DEF RunIpcTask
  <2>2. CASE RunSendTask(p)
    <3>1. Disconnect(p, t.peer) \/ UNCHANGED <<listener_loop, send_done_watcher>>
      BY <2>2 DEF RunSendTask
    <3> HIDE DEF t
    <3> QED
      BY <1>2, <1>5, <2>1, <3>1
  <2>3. CASE RunDispatchReplies(p)
    <3>1. CASE Deliverable(p) = {}
      BY <1>2, <2>3, <3>1 DEF RunDispatchReplies
    <3>2. CASE Deliverable(p) # {}
      <4>1. PICK i \in Deliverable(p) :
              UnblockListener(p, received_replies[p][i].peer, received_replies[p][i].msg)
        BY <2>3, <3>2 DEF RunDispatchReplies
      <4>2. received_replies[p] \in Seq(QueuedReply) /\ i \in DOMAIN received_replies[p]
        BY DEF TypeOK, Deliverable
      <4>3. received_replies[p][i] \in QueuedReply
        BY <4>2
      <4>4. received_replies[p][i].peer \in Proc
        BY <4>3 DEF QueuedReply
      <4> QED
        BY <1>3, <4>1, <4>4 DEF UnblockListener
    <3> QED
      BY <3>1, <3>2
  <2>4. CASE RunCloseTask(p)
    BY <1>5, <2>1, <2>4 DEF RunCloseTask
  <2>5. CASE RunShutdownTask(p)
    BY <1>2, <1>4, <2>1, <2>5 DEF RunShutdownTask
  <2> QED
    BY <1>7, <2>2, <2>3, <2>4, <2>5 DEF RunIpcTask
<1>8. ASSUME NEW w \in timers[p], RunTimeout(p, w) PROVE QuitsInv'
  <2>1. w \in SendRef
    BY DEF TypeOK
  <2>2. w.peer \in Proc
    BY <2>1 DEF SendRef
  <2> QED
    BY <1>3, <1>8, <2>2 DEF RunTimeout
<1> QED
  BY <1>6, <1>7, <1>8

LEMMA ReceiveQuits ==
  ASSUME TypeOK, QuitsInv, NEW p \in Proc, NEW q \in Proc, Receive(p, q)
  PROVE  QuitsInv'
<1> DEFINE m == Head(pipe[q][p])
           l == listener_loop[p]
           t == Task("message", q, m.id)
<1>1. UNCHANGED stack
  BY DEF Receive
<1>2. l \in Seq(ListenerTask) /\ t.kind # "quit"
  BY LoopType DEF Task
<1>3. NoNewQuits(l, l)
  BY SameQuits
<1> HIDE DEF t
<1>4. NoNewQuits(l, Append(l, t))
  BY <1>2, AppendQuits
<1>5. \/ UnblockListener(p, q, m)
      \/ UNCHANGED <<listener_loop, send_done_watcher>>
      \/ listener_loop' = [listener_loop EXCEPT ![p] = Append(l, t)] /\ UNCHANGED send_done_watcher
  BY DEF Receive, t
<1> HIDE DEF m
<1>6. CASE UnblockListener(p, q, m)
  BY <1>1, <1>2, <1>3, <1>6, SignalDoneQuits DEF UnblockListener
<1>7. CASE UNCHANGED <<listener_loop, send_done_watcher>>
  BY <1>1, <1>7, UnchangedQuits, QuitsInvKept
<1>8. CASE listener_loop' = [listener_loop EXCEPT ![p] = Append(l, t)] /\ UNCHANGED send_done_watcher
  <2>1. QuitsKept
    BY <1>4, <1>8, LoopUpdate
  <2> QED
    BY <1>1, <1>8, <2>1, UnchangedQuits, QuitsInvKept
<1> QED
  BY <1>5, <1>6, <1>7, <1>8

LEMMA SignalDispatchEventQuits ==
  ASSUME TypeOK, QuitsInv, NEW p \in Proc, SignalDispatchEvent(p)
  PROVE  QuitsInv'
<1> DEFINE armed == {q \in Proc : dispatch_watcher[p][q] = "armed"}
<1>1. PICK order \in SetToSeqs(armed) :
             listener_loop' = [listener_loop EXCEPT ![p] =
               listener_loop[p] \o [i \in DOMAIN order |-> Task("watch", order[i], 0)]]
  BY DEF SignalDispatchEvent
<1> DEFINE t == [i \in DOMAIN order |-> Task("watch", order[i], 0)]
<1>2. order \in Seq(armed)
  BY OrderType
<1>3. t \in Seq(ListenerTask)
  <2>1. \A i \in DOMAIN order : t[i] \in ListenerTask
    BY <1>2 DEF Task, ListenerTask
  <2>2. t = [i \in DOMAIN order |-> t[i]]
    OBVIOUS
  <2> HIDE DEF t, armed
  <2> QED
    BY <1>2, <2>1, <2>2, MapType
<1>4. \A i \in DOMAIN t : t[i].kind # "quit"
  BY DEF Task
<1> HIDE DEF t
<1>5. NoNewQuits(listener_loop[p], listener_loop[p] \o t)
  BY <1>3, <1>4, LoopType, ConcatQuits
<1>6. QuitsKept
  BY <1>1, <1>5, LoopUpdate DEF t
<1>7. UNCHANGED <<stack, send_done_watcher>>
  BY DEF SignalDispatchEvent
<1> QED
  BY <1>6, <1>7, UnchangedQuits, QuitsInvKept

LEMMA PostDispatchTaskQuits ==
  ASSUME TypeOK, QuitsInv, NEW p \in Proc, PostDispatchTask(p)
  PROVE  QuitsInv'
<1> DEFINE t == Task("dispatch", p, 0)
<1>1. t.kind # "quit"
  BY DEF Task
<1>2. listener_loop' = [listener_loop EXCEPT ![p] = Append(listener_loop[p], t)]
  BY DEF PostDispatchTask
<1> HIDE DEF t
<1>3. NoNewQuits(listener_loop[p], Append(listener_loop[p], t))
  BY <1>1, LoopType, AppendQuits
<1>4. QuitsKept
  BY <1>2, <1>3, LoopUpdate
<1>5. UNCHANGED <<stack, send_done_watcher>>
  BY DEF PostDispatchTask, listenerVars
<1> QED
  BY <1>4, <1>5, UnchangedQuits, QuitsInvKept

LEMMA NextQuits ==
  ASSUME TypeOK, SendOwnsLastEntry, QuitsInv, [Next]_vars
  PROVE  QuitsInv'
<1>1. ASSUME PumpsKept, UNCHANGED <<listener_loop, send_done_watcher>> PROVE QuitsInv'
  BY <1>1, UnchangedQuits, QuitsInvKept
<1>2. CASE UNCHANGED vars
  BY <1>1, <1>2, UnchangedQuits DEF vars, listenerVars, loopVars
<1>3. ASSUME NEW p \in Proc, IpcStep(p) PROVE QuitsInv'
  <2>1. CASE RunIpcTask(p)
    BY <2>1, IpcTasksQuits DEF RunIpcTask
  <2>2. ASSUME NEW q \in Proc, ReadError(p, q) PROVE QuitsInv'
    BY <2>2, IpcTasksQuits DEF ReadError
  <2> QED
    BY <1>3, <2>1, <2>2, SignalDispatchEventQuits, PostDispatchTaskQuits, ReceiveQuits DEF IpcStep
<1>4. ASSUME NEW p \in Proc, NEW w \in timers[p], RunTimeout(p, w) PROVE QuitsInv'
  BY <1>4, IpcTasksQuits DEF RunTimeout
<1>5. ASSUME NEW p \in Proc, Shutdown(p) \/ Crash(p) PROVE QuitsInv'
  BY <1>1, <1>5, UnchangedQuits DEF Shutdown, Crash, listenerVars, loopVars
<1>6. ASSUME NEW p \in Proc, NEW ok, FinishHandler(p, ok) PROVE QuitsInv'
  <2>1. PumpsKept
    BY <1>6, TopAtType, ReturnPumps DEF FinishHandler, HandlerPoints
  <2> QED
    BY <1>1, <1>6, <2>1 DEF FinishHandler
<1>7. ASSUME NEW p \in Proc, NEW q \in Proc, NEW kind, NEW timed, NEW pumped,
             BeginSend(p, q, kind, timed, pumped)
      PROVE  QuitsInv'
  <2>1. UNCHANGED stack \/ \E f : f.at # "pump" /\ Enter(p, f)
    BY <1>7 DEF BeginSend
  <2>2. PumpsKept
    BY <2>1, EnterPumps, UnchangedQuits
  <2> QED
    BY <1>1, <1>7, <2>2 DEF BeginSend
<1>8. ASSUME NEW p \in Proc, DispatchMessage(p) PROVE QuitsInv'
  <2>1. UNCHANGED stack \/ (Return(p) /\ TopAt(p) = "dispatch") \/ \E f : f.at # "pump" /\ Enter(p, f)
    BY <1>8 DEF DispatchMessage, Call
  <2>2. PumpsKept
    BY <2>1, TopAtType, EnterPumps, ReturnPumps, UnchangedQuits
  <2> QED
    BY <1>1, <1>8, <2>2 DEF DispatchMessage, loopVars
<1> QED
  BY <1>2, <1>3, <1>4, <1>5, <1>6, <1>7, <1>8, SendStepQuits, RunTaskQuits, CloseChannelQuits
  DEF Next

\* DCHECK(event == GetSendDoneEvent()): when the callback of a send_done_watcher
\* runs, nested loops and handlers in between notwithstanding, the Send it
\* watched is the one whose loop is innermost and owns its context's last entry.
THEOREM QuitsInnermostSend == Spec => []QuitIsForInnermostSend
<1> DEFINE Inv == TypeOK /\ StackInv /\ QuitsInv
<1>1. Init => Inv
  <2>1. DOMAIN (<<>>) = {}
    BY EmptySeq
  <2>2. Init => QuitsInv
    BY <2>1 DEF Init, QuitsInv, QuitsIn
  <2> QED
    BY <2>2, InitType, InitStackInv
<1>2. Inv /\ [Next]_vars => Inv'
  BY NextType, NextStackInv, StackInvOwns, NextQuits
<1>3. Inv => QuitIsForInnermostSend
  <2> SUFFICES ASSUME TypeOK, StackInv, QuitsInv, NEW p \in Proc, Looping(p),
                      listener_loop[p] # <<>>, NextTask(p).kind = "quit"
               PROVE  /\ TopAt(p) = "pump"
                      /\ Ref(Top(p).peer, Top(p).id) = Ref(NextTask(p).peer, NextTask(p).id)
                      /\ SendDoneEntry(p).id = NextTask(p).id
    BY DEF QuitIsForInnermostSend
  <2> DEFINE w == Ref(NextTask(p).peer, NextTask(p).id)
             n == Len(stack[p])
  <2>1. Innermost(stack[p], w)
    <3>1. listener_loop[p] \in Seq(ListenerTask)
      BY LoopType
    <3>2. 1 \in DOMAIN listener_loop[p] /\ NextTask(p) = listener_loop[p][1]
      BY <3>1 DEF NextTask
    <3> QED
      BY <3>2 DEF QuitsInv, QuitsIn
  <2>2. PICK i \in DOMAIN stack[p] :
          /\ stack[p][i].at = "pump" /\ Ref(stack[p][i].peer, stack[p][i].id) = w
          /\ \A j \in DOMAIN stack[p] : j > i => stack[p][j].at # "pump"
    BY <2>1 DEF Innermost
  <2>3. stack[p] \in Seq(Frame) /\ stack[p] # <<>>
    <3>1. stack[p] \in Seq(Frame)
      BY DEF TypeOK
    <3> QED
      BY <2>2, <3>1, EmptySeq
  <2>4. TopAt(p) = "pump" /\ n \in DOMAIN stack[p] /\ Top(p) = stack[p][n]
    <3>1. Top(p) = stack[p][n] /\ TopAt(p) = Top(p).at /\ Top(p) \in Frame
      BY <2>3, TopType
    <3>2. n \in DOMAIN stack[p]
      BY <2>3, LastType
    <3>3. TopAt(p) # "loop"
      BY <3>1 DEF Frame, SendPoints, HandlerPoints
    <3>4. TopAt(p) \in {"loop", "pump"}
      BY DEF Looping
    <3> QED
      BY <3>1, <3>2, <3>3, <3>4
  <2>5. stack[p][n].at = "pump" /\ DOMAIN stack[p] = 1..n
    BY <2>3, <2>4, TopType
  <2>6. i = n
    BY <2>2, <2>3, <2>4, <2>5
  <2>7. Ref(Top(p).peer, Top(p).id) = w
    BY <2>2, <2>4, <2>6
  <2>8. SendDoneEntry(p).id = Top(p).id
    BY <2>4, StackInvOwns DEF SendOwnsLastEntry, SendPoints
  <2> QED
    BY <2>4, <2>7, <2>8 DEF Ref
<1> QED
  BY <1>1, <1>2, <1>3, PTL DEF Spec

----------------------------------------------------------------------------
(* A queued reply is carried.  A synchronous message, or its reply, is in   *)
(* one place at a time, so that every DispatchReplies that finds a reply    *)
(* leaves one Send less with a reply in received_replies_.                  *)

\* The places of a sequence s that hold an element of M, and their number.
At(s, M) == {i \in DOMAIN s : s[i] \in M}
Count(s, M) == Cardinality(At(s, M))

LEMMA CountType ==
  ASSUME NEW S, NEW s \in Seq(S), NEW M
  PROVE  IsFiniteSet(At(s, M)) /\ Count(s, M) \in Nat /\ (Count(s, M) = 0 <=> At(s, M) = {})
<1>1. DOMAIN s = 1..Len(s) /\ Len(s) \in Nat
  OBVIOUS
<1>2. IsFiniteSet(DOMAIN s)
  BY <1>1, FS_Interval
<1>3. IsFiniteSet(At(s, M))
  BY <1>2, FS_Subset DEF At
<1> QED
  BY <1>3, FS_CardinalityType, FS_EmptySet DEF Count

LEMMA CountEmpty ==
  ASSUME NEW M
  PROVE  Count(<<>>, M) = 0
<1>1. At(<<>>, M) = {}
  BY EmptySeq DEF At
<1> QED
  BY <1>1, FS_EmptySet DEF Count

\* Elements that stay where they are.
LEMMA CountSame ==
  ASSUME NEW s, NEW t, NEW M, DOMAIN s = DOMAIN t,
         \A i \in DOMAIN s : s[i] \in M <=> t[i] \in M
  PROVE  Count(s, M) = Count(t, M)
<1>1. At(s, M) = At(t, M)
  BY DEF At
<1> QED
  BY <1>1 DEF Count

LEMMA CountAppend ==
  ASSUME NEW S, NEW s \in Seq(S), NEW e, NEW M
  PROVE  Count(Append(s, e), M) = IF e \in M THEN Count(s, M) + 1 ELSE Count(s, M)
<1> DEFINE t == Append(s, e)
           n == Len(s) + 1
<1>1. DOMAIN t = DOMAIN s \cup {n} /\ n \notin DOMAIN s /\ t[n] = e
  OBVIOUS
<1>2. \A i \in DOMAIN s : t[i] = s[i]
  OBVIOUS
<1> HIDE DEF t, n
<1>3. At(t, M) = IF e \in M THEN At(s, M) \cup {n} ELSE At(s, M)
  BY <1>1, <1>2 DEF At
<1>4. n \notin At(s, M) /\ IsFiniteSet(At(s, M))
  BY <1>1, CountType DEF At
<1> QED
  BY <1>3, <1>4, FS_AddElement DEF Count, t

\* The elements of t that count are those of s at other places, not at n.
LEMMA CountMoved ==
  ASSUME NEW S, NEW s \in Seq(S), NEW T, NEW t \in Seq(T), NEW M, NEW n \in DOMAIN s, NEW o,
         \A i \in At(t, M) : o[i] \in At(s, M) /\ o[i] # n,
         \A i, j \in At(t, M) : o[i] = o[j] => i = j
  PROVE  Count(t, M) <= IF s[n] \in M THEN Count(s, M) - 1 ELSE Count(s, M)
<1> DEFINE A == At(s, M) \ {n}
           f == [i \in At(t, M) |-> o[i]]
<1>1. IsFiniteSet(At(s, M)) /\ IsFiniteSet(At(t, M))
  BY CountType
<1>2. /\ IsFiniteSet(A)
      /\ Cardinality(A) = IF s[n] \in M THEN Count(s, M) - 1 ELSE Count(s, M)
  <2>1. n \in At(s, M) <=> s[n] \in M
    BY DEF At
  <2> QED
    BY <1>1, <2>1, FS_RemoveElement DEF Count
<1>3. f \in Injection(At(t, M), A)
  BY DEF Injection, IsInjective
<1> HIDE DEF A, f
<1>4. Cardinality(At(t, M)) <= Cardinality(A)
  BY <1>2, <1>3, FS_Injection
<1> QED
  BY <1>2, <1>4 DEF Count

LEMMA CountTail ==
  ASSUME NEW S, NEW s \in Seq(S), s # <<>>, NEW M
  PROVE  Count(Tail(s), M) = IF Head(s) \in M THEN Count(s, M) - 1 ELSE Count(s, M)
<1> DEFINE t == Tail(s)
           A == At(s, M) \ {1}
           f == [i \in At(t, M) |-> i + 1]
<1>1. /\ t \in Seq(S) /\ 1 \in DOMAIN s /\ Head(s) = s[1]
      /\ \A i \in DOMAIN t : i \in Nat /\ i + 1 \in DOMAIN s /\ i + 1 # 1 /\ t[i] = s[i + 1]
      /\ \A i \in DOMAIN s : i # 1 => i - 1 \in DOMAIN t /\ t[i - 1] = s[i] /\ i \in Nat
  OBVIOUS
<1>2. /\ IsFiniteSet(A)
      /\ Cardinality(A) = IF s[1] \in M THEN Count(s, M) - 1 ELSE Count(s, M)
  <2>1. 1 \in At(s, M) <=> s[1] \in M
    BY <1>1 DEF At
  <2>2. IsFiniteSet(At(s, M))
    BY CountType
  <2> QED
    BY <2>1, <2>2, FS_RemoveElement DEF Count
<1> HIDE DEF t
<1>3. f \in Injection(At(t, M), A)
  BY <1>1 DEF Injection, IsInjective, At
<1>4. f \in Surjection(At(t, M), A)
  <2>1. \A i \in A : \E j \in At(t, M) : f[j] = i
    <3> SUFFICES ASSUME NEW i \in A PROVE \E j \in At(t, M) : f[j] = i
      OBVIOUS
    <3>1. i - 1 \in At(t, M) /\ i \in Nat
      BY <1>1 DEF At
    <3>2. f[i - 1] = i
      BY <3>1
    <3> QED
      BY <3>1, <3>2
  <2>2. f \in [At(t, M) -> A]
    BY <1>3 DEF Injection
  <2> HIDE DEF f, A
  <2> QED
    BY <2>1, <2>2 DEF Surjection
<1> HIDE DEF A, f
<1>5. Cardinality(At(t, M)) = Cardinality(A)
  BY <1>2, <1>3, <1>4, FS_Injection
<1> QED
  BY <1>1, <1>2, <1>5 DEF Count, t

LEMMA CountFront ==
  ASSUME NEW S, NEW s \in Seq(S), s # <<>>, NEW M
  PROVE  Count(Front(s), M) = IF Last(s) \in M THEN Count(s, M) - 1 ELSE Count(s, M)
<1> DEFINE n == Len(s)
           t == SubSeq(s, 1, n - 1)
<1>1. n \in DOMAIN s /\ Last(s) = s[n] /\ n \in Nat \ {0}
  BY LastType
<1>2. /\ DOMAIN t = DOMAIN s \ {n}
      /\ \A i \in DOMAIN t : t[i] = s[i]
  BY <1>1
<1> HIDE DEF t, n
<1>3. At(t, M) = At(s, M) \ {n}
  BY <1>2 DEF At
<1>4. IsFiniteSet(At(s, M)) /\ (n \in At(s, M) <=> Last(s) \in M)
  BY <1>1, CountType DEF At
<1>5. Front(s) = t
  BY DEF Front, t, n
<1> QED
  BY <1>3, <1>4, <1>5, FS_RemoveElement DEF Count

LEMMA CountRemove ==
  ASSUME NEW S, NEW s \in Seq(S), NEW n \in DOMAIN s, NEW M
  PROVE  Count(RemoveAt(s, n), M) <= IF s[n] \in M THEN Count(s, M) - 1 ELSE Count(s, M)
<1> DEFINE a == SubSeq(s, 1, n - 1)
           b == SubSeq(s, n + 1, Len(s))
           t == a \o b
<1>1. n \in 1..Len(s) /\ Len(s) \in Nat /\ DOMAIN s = 1..Len(s)
  OBVIOUS
<1>2. /\ a \in Seq(S) /\ Len(a) = n - 1
      /\ \A k \in 1..Len(a) : a[k] = s[k]
  BY <1>1
<1>3. /\ b \in Seq(S) /\ Len(b) = Len(s) - n
      /\ \A k \in 1..Len(b) : b[k] = s[n + k]
  BY <1>1
<1> HIDE DEF a, b
<1>4. t \in Seq(S) /\ DOMAIN t = 1..(Len(s) - 1)
  <2>1. t \in Seq(S) /\ Len(t) = Len(a) + Len(b)
    BY <1>2, <1>3, ConcatProperties
  <2>2. Len(a) + Len(b) = Len(s) - 1
    BY <1>1, <1>2, <1>3
  <2> HIDE DEF t
  <2> QED
    BY <2>1, <2>2
<1>5. ASSUME NEW k \in DOMAIN t
      PROVE  t[k] = IF k < n THEN s[k] ELSE s[k + 1]
  <2>1. k \in 1..(Len(a) + Len(b)) /\ Len(a) + Len(b) = Len(s) - 1
    <3> HIDE DEF t
    <3> QED
      BY <1>1, <1>2, <1>3, <1>4
  <2>2. t[k] = IF k <= Len(a) THEN a[k] ELSE b[k - Len(a)]
    <3>1. k \in 1..(Len(a) + Len(b)) /\ a \in Seq(S) /\ b \in Seq(S)
      BY <1>2, <1>3, <2>1
    <3> QED
      BY ONLY <3>1, ConcatProperties
  <2> HIDE DEF t
  <2>3. CASE k < n
    BY <1>1, <1>2, <2>1, <2>2, <2>3
  <2>4. CASE ~(k < n)
    <3>1. k - Len(a) \in 1..Len(b) /\ n + (k - Len(a)) = k + 1 /\ ~(k <= Len(a))
      BY <1>1, <1>2, <1>3, <2>1, <2>4
    <3> QED
      BY <1>3, <2>2, <2>4, <3>1
  <2> QED
    BY <2>3, <2>4
<1> DEFINE o == [k \in DOMAIN t |-> IF k < n THEN k ELSE k + 1]
<1> HIDE DEF t
<1>6. \A k \in DOMAIN t : o[k] \in DOMAIN s /\ o[k] # n /\ t[k] = s[o[k]]
  BY <1>1, <1>4, <1>5
<1>7. \A i, j \in DOMAIN t : o[i] = o[j] => i = j
  BY <1>1, <1>4
<1> HIDE DEF o
<1>8. Count(t, M) <= IF s[n] \in M THEN Count(s, M) - 1 ELSE Count(s, M)
  <2>1. \A i \in At(t, M) : o[i] \in At(s, M) /\ o[i] # n
    BY <1>6 DEF At
  <2>2. \A i, j \in At(t, M) : o[i] = o[j] => i = j
    BY <1>7 DEF At
  <2> QED
    BY <1>4, <2>1, <2>2, CountMoved
<1> QED
  BY <1>8 DEF RemoveAt, t, a, b

\* Elements that do not count, added at the end.
LEMMA CountConcat ==
  ASSUME NEW S, NEW s \in Seq(S), NEW t \in Seq(S), NEW M, \A i \in DOMAIN t : t[i] \notin M
  PROVE  Count(s \o t, M) = Count(s, M)
<1> DEFINE u == s \o t
<1>1. /\ DOMAIN s \subseteq DOMAIN u
      /\ \A i \in DOMAIN s : u[i] = s[i]
  OBVIOUS
<1>2. ASSUME NEW i \in DOMAIN u, i \notin DOMAIN s PROVE u[i] \notin M
  <2>1. i \in 1..(Len(s) + Len(t)) /\ i > Len(s) /\ Len(s) \in Nat /\ Len(t) \in Nat
    BY <1>2
  <2>2. u[i] = t[i - Len(s)] /\ i - Len(s) \in DOMAIN t
    BY <2>1
  <2> QED
    BY <2>2
<1> HIDE DEF u
<1>3. At(u, M) = At(s, M)
  BY <1>1, <1>2 DEF At
<1> QED
  BY <1>3 DEF Count, u

\* What the operations of a thread change in these numbers.
LEMMA EnterCount ==
  ASSUME TypeOK, NEW p \in Proc, NEW f, Enter(p, f), NEW r \in Proc, NEW M
  PROVE  Count(stack'[r], M) = IF r = p /\ f \in M THEN Count(stack[r], M) + 1
                                                    ELSE Count(stack[r], M)
<1>1. stack \in [Proc -> Seq(Frame)] /\ stack[p] \in Seq(Frame)
  BY DEF TypeOK
<1>2. stack'[r] = IF r = p THEN Append(stack[p], f) ELSE stack[r]
  BY <1>1 DEF Enter
<1> QED
  BY <1>1, <1>2, CountAppend

LEMMA ReturnCount ==
  ASSUME TypeOK, NEW p \in Proc, stack[p] # <<>>, Return(p), NEW r \in Proc, NEW M
  PROVE  Count(stack'[r], M) = IF r = p /\ Top(p) \in M THEN Count(stack[r], M) - 1
                                                         ELSE Count(stack[r], M)
<1>1. stack \in [Proc -> Seq(Frame)] /\ stack[p] \in Seq(Frame)
  BY DEF TypeOK
<1>2. stack'[r] = IF r = p THEN Front(stack[p]) ELSE stack[r]
  BY <1>1 DEF Return
<1> QED
  BY <1>1, <1>2, CountFront DEF Top

\* The frame on top moves to at, which is g.
LEMMA MoveToCount ==
  ASSUME TypeOK, NEW p \in Proc, stack[p] # <<>>, NEW at, MoveTo(p, at), NEW r \in Proc, NEW M
  PROVE  LET g == [Top(p) EXCEPT !.at = at]
         IN  Count(stack'[r], M) =
               IF r = p /\ Top(p) \in M /\ g \notin M THEN Count(stack[r], M) - 1
               ELSE IF r = p /\ Top(p) \notin M /\ g \in M THEN Count(stack[r], M) + 1
               ELSE Count(stack[r], M)
<1> DEFINE st == stack[p]
           n == Len(st)
           g == [Top(p) EXCEPT !.at = at]
           tt == [st EXCEPT ![n] = g]
<1>1. stack \in [Proc -> Seq(Frame)] /\ st \in Seq(Frame)
  BY DEF TypeOK
<1>2. n \in DOMAIN st /\ Top(p) = st[n]
  BY <1>1, TopType, LastType
<1>3. stack' = [stack EXCEPT ![p] = tt]
  BY <1>2 DEF MoveTo
<1> HIDE DEF g, n
<1>4. stack'[r] = IF r = p THEN tt ELSE stack[r]
  BY <1>1, <1>3
<1>5. DOMAIN tt = DOMAIN st /\ tt[n] = g /\ \A i \in DOMAIN st : i # n => tt[i] = st[i]
  BY <1>2
<1> HIDE DEF tt
<1>6. IsFiniteSet(At(st, M)) /\ (n \in At(st, M) <=> Top(p) \in M)
  <2>1. IsFiniteSet(At(st, M))
    BY <1>1, CountType
  <2> QED
    BY <1>2, <2>1 DEF At
<1>7. CASE g \in M
  <2>1. At(tt, M) = At(st, M) \cup {n}
    BY <1>2, <1>5, <1>7 DEF At
  <2>2. Count(tt, M) = IF Top(p) \in M THEN Count(st, M) ELSE Count(st, M) + 1
    BY <1>6, <2>1, FS_AddElement DEF Count
  <2> QED
    BY <1>4, <1>7, <2>2 DEF g
<1>8. CASE g \notin M
  <2>1. At(tt, M) = At(st, M) \ {n}
    BY <1>2, <1>5, <1>8 DEF At
  <2>2. Count(tt, M) = IF Top(p) \in M THEN Count(st, M) - 1 ELSE Count(st, M)
    BY <1>6, <2>1, FS_RemoveElement DEF Count
  <2> QED
    BY <1>4, <1>8, <2>2 DEF g
<1> QED
  BY <1>7, <1>8

LEMMA PostIpcCount ==
  ASSUME TypeOK, NEW p \in Proc, NEW t, PostIpc(p, t), NEW r \in Proc, NEW M
  PROVE  Count(ipc_loop'[r], M) = IF r = p /\ t \in M THEN Count(ipc_loop[r], M) + 1
                                                       ELSE Count(ipc_loop[r], M)
<1>1. ipc_loop \in [Proc -> Seq(IpcTask)] /\ ipc_loop[p] \in Seq(IpcTask)
  BY DEF TypeOK
<1>2. ipc_loop'[r] = IF r = p THEN Append(ipc_loop[p], t) ELSE ipc_loop[r]
  BY <1>1 DEF PostIpc
<1> QED
  BY <1>1, <1>2, CountAppend

LEMMA TakeIpcCount ==
  ASSUME TypeOK, NEW p \in Proc, ipc_loop[p] # <<>>, TakeIpcTask(p), NEW r \in Proc, NEW M
  PROVE  Count(ipc_loop'[r], M) =
           IF r = p /\ NextIpcTask(p) \in M THEN Count(ipc_loop[r], M) - 1
                                            ELSE Count(ipc_loop[r], M)
<1>1. ipc_loop \in [Proc -> Seq(IpcTask)] /\ ipc_loop[p] \in Seq(IpcTask)
  BY DEF TypeOK
<1>2. ipc_loop'[r] = IF r = p THEN Tail(ipc_loop[p]) ELSE ipc_loop[r]
  BY <1>1 DEF TakeIpcTask
<1> QED
  BY <1>1, <1>2, CountTail DEF NextIpcTask

\* A synchronous message of p to q, and its reply, in the places they pass
\* through: the Send that has not posted it, the SendTask, the pipe, the queue,
\* the handler, and back by the SendTask of the reply, the pipe and the queue
\* of replies.
Asking(q, id) == {f \in Frame : f.at \in {"push", "post"} /\ f.peer = q /\ f.id = id}
Handling(p, id) == {f \in Frame : f.at = "sync" /\ f.peer = p /\ f.id = id}
Requests(id) == {m \in Message : m.kind = "sync" /\ m.id = id}
Replies(id) == {m \in Message : m.kind = "reply" /\ m.id = id}
Sends(q, M) == {t \in IpcTask : t.kind = "send" /\ t.peer = q /\ t.msg \in M}
Kept(q, id) == {r \in QueuedReply : r.peer = q /\ r.msg \in Replies(id)}

AskBegun(p, q, id) == Count(stack[p], Asking(q, id))
AskPosted(p, q, id) == Count(ipc_loop[p], Sends(q, Requests(id)))
AskSent(p, q, id) == Count(pipe[p][q], Requests(id))
AskQueued(p, q, id) == Count(message_queue[q], {Ref(p, id)})
AskHandled(p, q, id) == Count(stack[q], Handling(p, id))
ReplyPosted(p, q, id) == Count(ipc_loop[q], Sends(p, Replies(id)))
ReplySent(p, q, id) == Count(pipe[q][p], Replies(id))
ReplyKept(p, q, id) == Count(received_replies[p], Kept(q, id))

Copies(p, q, id) ==
  AskBegun(p, q, id) + AskPosted(p, q, id) + AskSent(p, q, id) + AskQueued(p, q, id)
    + AskHandled(p, q, id) + ReplyPosted(p, q, id) + ReplySent(p, q, id) + ReplyKept(p, q, id)

CopyInv ==
  \A p, q \in Proc : \A id \in Nat :
    Copies(p, q, id) <= 1 /\ (id >= next_id[p] => Copies(p, q, id) = 0)

LEMMA CopyTypes ==
  ASSUME TypeOK, NEW p \in Proc, NEW q \in Proc, NEW id
  PROVE  /\ AskBegun(p, q, id) \in Nat /\ AskPosted(p, q, id) \in Nat
         /\ AskSent(p, q, id) \in Nat /\ AskQueued(p, q, id) \in Nat
         /\ AskHandled(p, q, id) \in Nat /\ ReplyPosted(p, q, id) \in Nat
         /\ ReplySent(p, q, id) \in Nat /\ ReplyKept(p, q, id) \in Nat
<1>1. /\ stack[p] \in Seq(Frame) /\ stack[q] \in Seq(Frame)
      /\ ipc_loop[p] \in Seq(IpcTask) /\ ipc_loop[q] \in Seq(IpcTask)
  BY DEF TypeOK
<1>2. pipe[p][q] \in Seq(Message) /\ pipe[q][p] \in Seq(Message)
  BY DEF TypeOK
<1>3. message_queue[q] \in Seq(SendRef) /\ received_replies[p] \in Seq(QueuedReply)
  BY DEF TypeOK
<1>4. AskBegun(p, q, id) \in Nat /\ AskHandled(p, q, id) \in Nat
  BY <1>1, CountType DEF AskBegun, AskHandled
<1>5. AskPosted(p, q, id) \in Nat /\ ReplyPosted(p, q, id) \in Nat
  BY <1>1, CountType DEF AskPosted, ReplyPosted
<1>6. AskSent(p, q, id) \in Nat /\ ReplySent(p, q, id) \in Nat
  BY <1>2, CountType DEF AskSent, ReplySent
<1>7. AskQueued(p, q, id) \in Nat /\ ReplyKept(p, q, id) \in Nat
  BY <1>3, CountType DEF AskQueued, ReplyKept
<1> QED
  BY <1>4, <1>5, <1>6, <1>7

\* No place gets another copy.
StackLess ==
  \A p, q \in Proc : \A id \in Nat :
    AskBegun(p, q, id)' <= AskBegun(p, q, id) /\ AskHandled(p, q, id)' <= AskHandled(p, q, id)
LoopLess ==
  \A p, q \in Proc : \A id \in Nat :
    AskPosted(p, q, id)' <= AskPosted(p, q, id) /\ ReplyPosted(p, q, id)' <= ReplyPosted(p, q, id)
PipeLess ==
  \A p, q \in Proc : \A id \in Nat :
    AskSent(p, q, id)' <= AskSent(p, q, id) /\ ReplySent(p, q, id)' <= ReplySent(p, q, id)
QueueLess == \A p, q \in Proc : \A id \in Nat : AskQueued(p, q, id)' <= AskQueued(p, q, id)
RepliesLess == \A p, q \in Proc : \A id \in Nat : ReplyKept(p, q, id)' <= ReplyKept(p, q, id)

CopiesLess == \A p, q \in Proc : \A id \in Nat : Copies(p, q, id)' <= Copies(p, q, id)

LEMMA NextCopyTypes ==
  ASSUME TypeOK', NEW p \in Proc, NEW q \in Proc, NEW id
  PROVE  /\ AskBegun(p, q, id)' \in Nat /\ AskPosted(p, q, id)' \in Nat
         /\ AskSent(p, q, id)' \in Nat /\ AskQueued(p, q, id)' \in Nat
         /\ AskHandled(p, q, id)' \in Nat /\ ReplyPosted(p, q, id)' \in Nat
         /\ ReplySent(p, q, id)' \in Nat /\ ReplyKept(p, q, id)' \in Nat
<1>1. /\ stack'[p] \in Seq(Frame) /\ stack'[q] \in Seq(Frame)
      /\ ipc_loop'[p] \in Seq(IpcTask) /\ ipc_loop'[q] \in Seq(IpcTask)
  BY DEF TypeOK
<1>2. pipe'[p][q] \in Seq(Message) /\ pipe'[q][p] \in Seq(Message)
  BY DEF TypeOK
<1>3. message_queue'[q] \in Seq(SendRef) /\ received_replies'[p] \in Seq(QueuedReply)
  BY DEF TypeOK
<1>4. AskBegun(p, q, id)' \in Nat /\ AskHandled(p, q, id)' \in Nat
  BY <1>1, CountType DEF AskBegun, AskHandled
<1>5. AskPosted(p, q, id)' \in Nat /\ ReplyPosted(p, q, id)' \in Nat
  BY <1>1, CountType DEF AskPosted, ReplyPosted
<1>6. AskSent(p, q, id)' \in Nat /\ ReplySent(p, q, id)' \in Nat
  BY <1>2, CountType DEF AskSent, ReplySent
<1>7. AskQueued(p, q, id)' \in Nat /\ ReplyKept(p, q, id)' \in Nat
  BY <1>3, CountType DEF AskQueued, ReplyKept
<1> QED
  BY <1>4, <1>5, <1>6, <1>7

LEMMA CopiesTypes ==
  ASSUME TypeOK, TypeOK', NEW p \in Proc, NEW q \in Proc, NEW id
  PROVE  Copies(p, q, id) \in Nat /\ Copies(p, q, id)' \in Nat
<1>1. /\ AskBegun(p, q, id) \in Nat /\ AskPosted(p, q, id) \in Nat
      /\ AskSent(p, q, id) \in Nat /\ AskQueued(p, q, id) \in Nat
      /\ AskHandled(p, q, id) \in Nat /\ ReplyPosted(p, q, id) \in Nat
      /\ ReplySent(p, q, id) \in Nat /\ ReplyKept(p, q, id) \in Nat
  BY CopyTypes
<1>2. /\ AskBegun(p, q, id)' \in Nat /\ AskPosted(p, q, id)' \in Nat
      /\ AskSent(p, q, id)' \in Nat /\ AskQueued(p, q, id)' \in Nat
      /\ AskHandled(p, q, id)' \in Nat /\ ReplyPosted(p, q, id)' \in Nat
      /\ ReplySent(p, q, id)' \in Nat /\ ReplyKept(p, q, id)' \in Nat
  BY NextCopyTypes
<1>3. Copies(p, q, id) \in Nat
  BY <1>1 DEF Copies
<1>4. Copies(p, q, id)' \in Nat
  BY <1>2 DEF Copies
<1> QED
  BY <1>3, <1>4

LEMMA CopyInvFewer ==
  ASSUME TypeOK, TypeOK', CopyInv, \A p \in Proc : next_id[p] <= next_id'[p], CopiesLess
  PROVE  CopyInv'
<1> SUFFICES ASSUME NEW p \in Proc, NEW q \in Proc, NEW id \in Nat
             PROVE  Copies(p, q, id)' <= 1 /\ (id >= next_id'[p] => Copies(p, q, id)' = 0)
  BY DEF CopyInv
<1>1. Copies(p, q, id) <= 1 /\ (id >= next_id[p] => Copies(p, q, id) = 0)
  BY DEF CopyInv
<1>2. Copies(p, q, id) \in Nat /\ Copies(p, q, id)' \in Nat
  BY CopiesTypes
<1>3. Copies(p, q, id)' <= Copies(p, q, id)
  BY DEF CopiesLess
<1>4. next_id[p] \in Nat /\ next_id'[p] \in Nat /\ next_id[p] <= next_id'[p]
  BY DEF TypeOK
<1> QED
  BY <1>1, <1>2, <1>3, <1>4

LEMMA EachLess ==
  ASSUME TypeOK, TypeOK', StackLess, LoopLess, PipeLess, QueueLess, RepliesLess
  PROVE  CopiesLess
<1> SUFFICES ASSUME NEW p \in Proc, NEW q \in Proc, NEW id \in Nat
             PROVE  Copies(p, q, id)' <= Copies(p, q, id)
  BY DEF CopiesLess
<1>1. /\ AskBegun(p, q, id) \in Nat /\ AskPosted(p, q, id) \in Nat
      /\ AskSent(p, q, id) \in Nat /\ AskQueued(p, q, id) \in Nat
      /\ AskHandled(p, q, id) \in Nat /\ ReplyPosted(p, q, id) \in Nat
      /\ ReplySent(p, q, id) \in Nat /\ ReplyKept(p, q, id) \in Nat
  BY CopyTypes
<1>2. /\ AskBegun(p, q, id)' \in Nat /\ AskPosted(p, q, id)' \in Nat
      /\ AskSent(p, q, id)' \in Nat /\ AskQueued(p, q, id)' \in Nat
      /\ AskHandled(p, q, id)' \in Nat /\ ReplyPosted(p, q, id)' \in Nat
      /\ ReplySent(p, q, id)' \in Nat /\ ReplyKept(p, q, id)' \in Nat
  BY NextCopyTypes
<1>3. /\ AskBegun(p, q, id)' <= AskBegun(p, q, id)
      /\ AskHandled(p, q, id)' <= AskHandled(p, q, id)
  BY DEF StackLess
<1>4. /\ AskPosted(p, q, id)' <= AskPosted(p, q, id)
      /\ ReplyPosted(p, q, id)' <= ReplyPosted(p, q, id)
  BY DEF LoopLess
<1>5. /\ AskSent(p, q, id)' <= AskSent(p, q, id)
      /\ ReplySent(p, q, id)' <= ReplySent(p, q, id)
  BY DEF PipeLess
<1>6. AskQueued(p, q, id)' <= AskQueued(p, q, id) /\ ReplyKept(p, q, id)' <= ReplyKept(p, q, id)
  BY DEF QueueLess, RepliesLess
<1> QED
  BY <1>1, <1>2, <1>3, <1>4, <1>5, <1>6 DEF Copies

LEMMA UnchangedLess ==
  ASSUME TypeOK
  PROVE  /\ UNCHANGED stack => StackLess
         /\ UNCHANGED ipc_loop => LoopLess
         /\ UNCHANGED pipe => PipeLess
         /\ UNCHANGED message_queue => QueueLess
         /\ UNCHANGED received_replies => RepliesLess
<1>1. ASSUME UNCHANGED stack PROVE StackLess
  BY <1>1, CopyTypes DEF StackLess, AskBegun, AskHandled
<1>2. ASSUME UNCHANGED ipc_loop PROVE LoopLess
  BY <1>2, CopyTypes DEF LoopLess, AskPosted, ReplyPosted
<1>3. ASSUME UNCHANGED pipe PROVE PipeLess
  BY <1>3, CopyTypes DEF PipeLess, AskSent, ReplySent
<1>4. ASSUME UNCHANGED message_queue PROVE QueueLess
  BY <1>4, CopyTypes DEF QueueLess, AskQueued
<1>5. ASSUME UNCHANGED received_replies PROVE RepliesLess
  BY <1>5, CopyTypes DEF RepliesLess, ReplyKept
<1> QED
  BY <1>1, <1>2, <1>3, <1>4, <1>5

LEMMA EnterLess ==
  ASSUME TypeOK, NEW p \in Proc, NEW f, f.at \notin {"push", "post", "sync"}, Enter(p, f)
  PROVE  StackLess
<1> SUFFICES ASSUME NEW a \in Proc, NEW b \in Proc, NEW id \in Nat
             PROVE  /\ AskBegun(a, b, id)' <= AskBegun(a, b, id)
                    /\ AskHandled(a, b, id)' <= AskHandled(a, b, id)
  BY DEF StackLess
<1>1. f \notin Asking(b, id) /\ f \notin Handling(a, id)
  BY DEF Asking, Handling
<1>2. Count(stack'[a], Asking(b, id)) = Count(stack[a], Asking(b, id))
  BY <1>1, EnterCount
<1>3. Count(stack'[b], Handling(a, id)) = Count(stack[b], Handling(a, id))
  BY <1>1, EnterCount
<1> QED
  BY <1>2, <1>3, CopyTypes DEF AskBegun, AskHandled

LEMMA ReturnLess ==
  ASSUME TypeOK, NEW p \in Proc, stack[p] # <<>>, Return(p)
  PROVE  StackLess
<1> SUFFICES ASSUME NEW a \in Proc, NEW b \in Proc, NEW id \in Nat
             PROVE  /\ AskBegun(a, b, id)' <= AskBegun(a, b, id)
                    /\ AskHandled(a, b, id)' <= AskHandled(a, b, id)
  BY DEF StackLess
<1>1. AskBegun(a, b, id) \in Nat /\ AskHandled(a, b, id) \in Nat
  BY CopyTypes
<1>2. AskBegun(a, b, id)' \in {AskBegun(a, b, id), AskBegun(a, b, id) - 1}
  BY ReturnCount DEF AskBegun
<1>3. AskHandled(a, b, id)' \in {AskHandled(a, b, id), AskHandled(a, b, id) - 1}
  BY ReturnCount DEF AskHandled
<1> QED
  BY <1>1, <1>2, <1>3

LEMMA MoveToLess ==
  ASSUME TypeOK, NEW p \in Proc, stack[p] # <<>>, NEW at, MoveTo(p, at), at # "sync",
         at \in {"push", "post"} => TopAt(p) \in {"push", "post"}
  PROVE  StackLess
<1> SUFFICES ASSUME NEW a \in Proc, NEW b \in Proc, NEW id \in Nat
             PROVE  /\ AskBegun(a, b, id)' <= AskBegun(a, b, id)
                    /\ AskHandled(a, b, id)' <= AskHandled(a, b, id)
  BY DEF StackLess
<1> DEFINE g == [Top(p) EXCEPT !.at = at]
<1>1. Top(p) \in Frame /\ Top(p).at = TopAt(p)
  BY TopType
<1>2. g.at = at /\ g.peer = Top(p).peer /\ g.id = Top(p).id
  BY <1>1 DEF Frame
<1> HIDE DEF g
<1>3. g \in Asking(b, id) => Top(p) \in Asking(b, id)
  BY <1>1, <1>2 DEF Asking
<1>4. g \notin Handling(a, id)
  BY <1>2 DEF Handling
<1>5. AskBegun(a, b, id) \in Nat /\ AskHandled(a, b, id) \in Nat
  BY CopyTypes
<1>6. AskBegun(a, b, id)' \in {AskBegun(a, b, id), AskBegun(a, b, id) - 1}
  BY <1>3, MoveToCount DEF AskBegun, g
<1>7. AskHandled(a, b, id)' \in {AskHandled(a, b, id), AskHandled(a, b, id) - 1}
  BY <1>4, MoveToCount DEF AskHandled, g
<1> QED
  BY <1>5, <1>6, <1>7

LEMMA PostIpcLess ==
  ASSUME TypeOK, NEW p \in Proc, NEW t,
         t.kind # "send" \/ t.msg.kind \notin {"sync", "reply"}, PostIpc(p, t)
  PROVE  LoopLess
<1> SUFFICES ASSUME NEW a \in Proc, NEW b \in Proc, NEW id \in Nat
             PROVE  /\ AskPosted(a, b, id)' <= AskPosted(a, b, id)
                    /\ ReplyPosted(a, b, id)' <= ReplyPosted(a, b, id)
  BY DEF LoopLess
<1>1. t \notin Sends(b, Requests(id)) /\ t \notin Sends(a, Replies(id))
  BY DEF Sends, Requests, Replies
<1>2. Count(ipc_loop'[a], Sends(b, Requests(id))) = Count(ipc_loop[a], Sends(b, Requests(id)))
  BY <1>1, PostIpcCount
<1>3. Count(ipc_loop'[b], Sends(a, Replies(id))) = Count(ipc_loop[b], Sends(a, Replies(id)))
  BY <1>1, PostIpcCount
<1> QED
  BY <1>2, <1>3, CopyTypes DEF AskPosted, ReplyPosted

LEMMA TakeIpcLess ==
  ASSUME TypeOK, NEW p \in Proc, ipc_loop[p] # <<>>, TakeIpcTask(p)
  PROVE  LoopLess
<1> SUFFICES ASSUME NEW a \in Proc, NEW b \in Proc, NEW id \in Nat
             PROVE  /\ AskPosted(a, b, id)' <= AskPosted(a, b, id)
                    /\ ReplyPosted(a, b, id)' <= ReplyPosted(a, b, id)
  BY DEF LoopLess
<1>1. AskPosted(a, b, id) \in Nat /\ ReplyPosted(a, b, id) \in Nat
  BY CopyTypes
<1>2. AskPosted(a, b, id)' \in {AskPosted(a, b, id), AskPosted(a, b, id) - 1}
  BY TakeIpcCount DEF AskPosted
<1>3. ReplyPosted(a, b, id)' \in {ReplyPosted(a, b, id), ReplyPosted(a, b, id) - 1}
  BY TakeIpcCount DEF ReplyPosted
<1> QED
  BY <1>1, <1>2, <1>3

\* p writes m into the pipe to q, or takes the first message out of the pipe of q.
Written(p, q, m) == pipe' = [pipe EXCEPT ![p][q] = Append(@, m)]
Taken(p, q) == pipe' = [pipe EXCEPT ![q][p] = Tail(@)]

LEMMA WrittenCount ==
  ASSUME TypeOK, NEW p \in Proc, NEW q \in Proc, NEW m, Written(p, q, m), NEW a \in Proc, NEW b \in Proc, NEW M
  PROVE  Count(pipe'[a][b], M) = IF a = p /\ b = q /\ m \in M THEN Count(pipe[a][b], M) + 1
                                                               ELSE Count(pipe[a][b], M)
<1>1. pipe \in [Proc -> [Proc -> Seq(Message)]] /\ pipe[p][q] \in Seq(Message)
  BY DEF TypeOK
<1>2. pipe'[a][b] = IF a = p /\ b = q THEN Append(pipe[p][q], m) ELSE pipe[a][b]
  BY <1>1 DEF Written
<1> QED
  BY <1>1, <1>2, CountAppend

LEMMA TakenCount ==
  ASSUME TypeOK, NEW p \in Proc, NEW q \in Proc, pipe[q][p] # <<>>, Taken(p, q), NEW a \in Proc, NEW b \in Proc, NEW M
  PROVE  Count(pipe'[a][b], M) =
           IF a = q /\ b = p /\ Head(pipe[q][p]) \in M THEN Count(pipe[a][b], M) - 1
                                                       ELSE Count(pipe[a][b], M)
<1>1. pipe \in [Proc -> [Proc -> Seq(Message)]] /\ pipe[q][p] \in Seq(Message)
  BY DEF TypeOK
<1>2. pipe'[a][b] = IF a = q /\ b = p THEN Tail(pipe[q][p]) ELSE pipe[a][b]
  BY <1>1 DEF Taken
<1> QED
  BY <1>1, <1>2, CountTail

LEMMA DisconnectLess ==
  ASSUME TypeOK, NEW p \in Proc, NEW q \in Proc, Disconnect(p, q)
  PROVE  PipeLess
<1>1. pipe \in [Proc -> [Proc -> Seq(Message)]] /\ pipe' = [pipe EXCEPT ![q][p] = <<>>]
  BY DEF TypeOK, Disconnect
<1>2. ASSUME NEW a \in Proc, NEW b \in Proc, NEW M
      PROVE  Count(pipe'[a][b], M) \in {0, Count(pipe[a][b], M)} /\ Count(pipe[a][b], M) \in Nat
  <2>1. pipe'[a][b] = <<>> \/ pipe'[a][b] = pipe[a][b]
    BY <1>1
  <2>2. Count(pipe[a][b], M) \in Nat
    BY <1>1, CountType
  <2> QED
    BY <2>1, <2>2, CountEmpty
<1> SUFFICES ASSUME NEW a \in Proc, NEW b \in Proc, NEW id \in Nat
             PROVE  AskSent(a, b, id)' <= AskSent(a, b, id) /\ ReplySent(a, b, id)' <= ReplySent(a, b, id)
  BY DEF PipeLess
<1>3. /\ Count(pipe'[a][b], Requests(id)) \in {0, Count(pipe[a][b], Requests(id))}
      /\ Count(pipe[a][b], Requests(id)) \in Nat
      /\ Count(pipe'[b][a], Replies(id)) \in {0, Count(pipe[b][a], Replies(id))}
      /\ Count(pipe[b][a], Replies(id)) \in Nat
  BY <1>2
<1> QED
  BY <1>3 DEF AskSent, ReplySent

\* The elements of t that count are those of s at other places.
LEMMA CountFewer ==
  ASSUME NEW S, NEW s \in Seq(S), NEW T, NEW t \in Seq(T), NEW M, NEW o,
         \A i \in At(t, M) : o[i] \in At(s, M),
         \A i, j \in At(t, M) : o[i] = o[j] => i = j
  PROVE  Count(t, M) <= Count(s, M)
<1> DEFINE f == [i \in At(t, M) |-> o[i]]
<1>1. IsFiniteSet(At(s, M)) /\ IsFiniteSet(At(t, M))
  BY CountType
<1>2. f \in Injection(At(t, M), At(s, M))
  BY DEF Injection, IsInjective
<1> HIDE DEF f
<1> QED
  BY <1>1, <1>2, FS_Injection DEF Count

LEMMA CloseChannelLess ==
  ASSUME TypeOK, TypeOK', NEW p \in Proc, NEW q \in Proc, CloseChannel(p, q)
  PROVE  QueueLess
<1> DEFINE s == message_queue[p]
           t == message_queue'[p]
<1>1. message_queue \in [Proc -> Seq(SendRef)] /\ s \in Seq(SendRef) /\ t \in Seq(SendRef)
  BY DEF TypeOK
<1>2. PICK kept \in SetToSeqs({i \in DOMAIN s : s[i].peer # q}) :
             message_queue' = [message_queue EXCEPT ![p] = [i \in DOMAIN kept |-> s[kept[i]]]]
  BY DEF CloseChannel
<1>3. kept \in Seq(DOMAIN s) /\ \A i, j \in DOMAIN kept : i # j => kept[i] # kept[j]
  <2>1. s \in Seq(SendRef) /\ kept \in SetToSeqs({i \in DOMAIN s : s[i].peer # q})
    BY <1>1, <1>2
  <2> HIDE DEF s
  <2>2. kept \in Seq(DOMAIN s)
    BY <2>1, KeptPlaces
  <2>3. \A i, j \in DOMAIN kept : i # j => kept[i] # kept[j]
    <3> DEFINE n == Cardinality({i \in DOMAIN s : s[i].peer # q})
    <3>1. DOMAIN kept = 1..n /\ \A i, j \in 1..n : i # j => kept[i] # kept[j]
      BY ONLY <2>1 DEF SetToSeqs
    <3> HIDE DEF n
    <3> QED
      BY ONLY <3>1
  <2> QED
    BY <2>2, <2>3
<1>4. t = [i \in DOMAIN kept |-> s[kept[i]]] /\ \A r \in Proc : r # p => message_queue'[r] = message_queue[r]
  BY <1>1, <1>2
<1> SUFFICES ASSUME NEW a \in Proc, NEW b \in Proc, NEW id \in Nat
             PROVE  AskQueued(a, b, id)' <= AskQueued(a, b, id)
  BY DEF QueueLess
<1> DEFINE M == {Ref(a, id)}
<1>5. \A i \in DOMAIN t : kept[i] \in DOMAIN s /\ t[i] = s[kept[i]]
  BY <1>3, <1>4
<1>6. \A i, j \in DOMAIN t : kept[i] = kept[j] => i = j
  BY <1>3, <1>4
<1>7. Count(t, M) <= Count(s, M)
  <2> HIDE DEF s, t, M
  <2>1. \A i \in At(t, M) : kept[i] \in At(s, M)
    BY <1>5 DEF At
  <2>2. \A i, j \in At(t, M) : kept[i] = kept[j] => i = j
    BY <1>6 DEF At
  <2> QED
    BY <1>1, <2>1, <2>2, CountFewer
<1>8. Count(message_queue'[b], M) <= Count(message_queue[b], M)
  <2>1. CASE b = p
    BY <1>7, <2>1
  <2>2. CASE b # p
    <3>1. Count(message_queue[b], M) \in Nat
      BY <1>1, CountType
    <3> QED
      BY <1>4, <2>2, <3>1
  <2> QED
    BY <2>1, <2>2
<1> QED
  BY <1>8 DEF AskQueued

LEMMA ShutdownLess ==
  ASSUME TypeOK, NEW p \in Proc, Shutdown(p)
  PROVE  /\ LoopLess
         /\ \A r \in Proc : \A M :
              (\A q \in Proc : IpcCall("shutdown", q) \notin M) =>
                 Count(ipc_loop'[r], M) = Count(ipc_loop[r], M)
<1> DEFINE open == {q \in Proc : connected[p][q]}
<1>1. PICK order \in SetToSeqs(open) :
             ipc_loop' = [ipc_loop EXCEPT ![p] =
               @ \o [i \in DOMAIN order |-> IpcCall("shutdown", order[i])]]
  BY DEF Shutdown
<1> DEFINE t == [i \in DOMAIN order |-> IpcCall("shutdown", order[i])]
<1>2. order \in Seq(Proc)
  <2>1. order \in Seq(open)
    BY OrderType
  <2> QED
    BY <2>1
<1>3. \A q \in Proc : IpcCall("shutdown", q) \in IpcTask
  BY DEF IpcCall, IpcTask, NoMessage, Reply, Message
<1>4. \A i \in DOMAIN order : order[i] \in Proc
  BY <1>2
<1>5. t \in Seq(IpcTask)
  <2>1. \A i \in DOMAIN order : t[i] \in IpcTask
    BY <1>3, <1>4
  <2>2. t = [i \in DOMAIN order |-> t[i]]
    OBVIOUS
  <2> HIDE DEF t
  <2> QED
    BY <1>2, <2>1, <2>2, MapType
<1>6. \A i \in DOMAIN t : \E q \in Proc : t[i] = IpcCall("shutdown", q)
  BY <1>4
<1>7. ipc_loop \in [Proc -> Seq(IpcTask)] /\ ipc_loop[p] \in Seq(IpcTask)
  BY DEF TypeOK
<1>8. \A r \in Proc : ipc_loop'[r] = IF r = p THEN ipc_loop[p] \o t ELSE ipc_loop[r]
  BY <1>1, <1>7
<1> HIDE DEF t
<1>9. ASSUME NEW r \in Proc, NEW M, \A q \in Proc : IpcCall("shutdown", q) \notin M
      PROVE  Count(ipc_loop'[r], M) = Count(ipc_loop[r], M)
  <2>1. \A i \in DOMAIN t : t[i] \notin M
    BY <1>6, <1>9
  <2>2. Count(ipc_loop[p] \o t, M) = Count(ipc_loop[p], M)
    BY <1>5, <1>7, <2>1, CountConcat
  <2> QED
    BY <1>8, <2>2
<1>10. LoopLess
  <2> SUFFICES ASSUME NEW a \in Proc, NEW b \in Proc, NEW id \in Nat
               PROVE  /\ AskPosted(a, b, id)' <= AskPosted(a, b, id)
                      /\ ReplyPosted(a, b, id)' <= ReplyPosted(a, b, id)
    BY DEF LoopLess
  <2>1. \A q \in Proc : IpcCall("shutdown", q) \notin Sends(b, Requests(id))
    BY DEF IpcCall, Sends
  <2>2. \A q \in Proc : IpcCall("shutdown", q) \notin Sends(a, Replies(id))
    BY DEF IpcCall, Sends
  <2>3. Count(ipc_loop'[a], Sends(b, Requests(id))) = Count(ipc_loop[a], Sends(b, Requests(id)))
    BY <1>9, <2>1
  <2>4. Count(ipc_loop'[b], Sends(a, Replies(id))) = Count(ipc_loop[b], Sends(a, Replies(id)))
    BY <1>9, <2>2
  <2> QED
    BY <2>3, <2>4, CopyTypes DEF AskPosted, ReplyPosted
<1> QED
  BY <1>9, <1>10

\* The numbers are numbers, before and after a step.
Numbers(a, b, id) ==
  /\ AskBegun(a, b, id) \in Nat /\ AskPosted(a, b, id) \in Nat
  /\ AskSent(a, b, id) \in Nat /\ AskQueued(a, b, id) \in Nat
  /\ AskHandled(a, b, id) \in Nat /\ ReplyPosted(a, b, id) \in Nat
  /\ ReplySent(a, b, id) \in Nat /\ ReplyKept(a, b, id) \in Nat

LEMMA AllNumbers ==
  ASSUME TypeOK, TypeOK', NEW a \in Proc, NEW b \in Proc, NEW id
  PROVE  Numbers(a, b, id) /\ Numbers(a, b, id)'
<1>1. Numbers(a, b, id)
  BY CopyTypes DEF Numbers
<1>2. Numbers(a, b, id)'
  BY NextCopyTypes DEF Numbers
<1> QED
  BY <1>1, <1>2

\* A Send begins: the only copy of its message is the one in its frame.
LEMMA BeginSendCopies ==
  ASSUME TypeOK, TypeOK', CopyInv, NEW p \in Proc, NEW q \in Proc, NEW kind, NEW timed,
         NEW pumped, BeginSend(p, q, kind, timed, pumped)
  PROVE  CopyInv'
<1> DEFINE n == next_id[p]
           f == [at |-> "push", peer |-> q, id |-> n, timed |-> timed, pumped |-> pumped]
<1>1. /\ next_id \in [Proc -> Nat] /\ next_id' = [next_id EXCEPT ![p] = n + 1]
      /\ UNCHANGED <<pipe, message_queue, received_replies>>
  BY DEF TypeOK, BeginSend, queueVars, worldVars
<1>2. n \in Nat /\ \A r \in Proc : next_id[r] <= next_id'[r] /\ next_id'[r] \in Nat
  BY <1>1
<1>3. PipeLess /\ QueueLess /\ RepliesLess
  BY <1>1, UnchangedLess
<1>4. CASE UNCHANGED stack /\ LoopLess
  BY <1>2, <1>3, <1>4, UnchangedLess, EachLess, CopyInvFewer
<1>5. ASSUME UNCHANGED stack, PostIpc(p, SendTask(q, Request(kind, n))), kind = "async"
      PROVE  LoopLess
  <2>1. SendTask(q, Request(kind, n)).msg.kind = "async"
    BY <1>5 DEF SendTask, Request
  <2> QED
    BY <1>5, <2>1, PostIpcLess
<1>6. CASE Enter(p, f) /\ UNCHANGED ipc_loop
  <2> SUFFICES ASSUME NEW a \in Proc, NEW b \in Proc, NEW id \in Nat
               PROVE  Copies(a, b, id)' <= 1 /\ (id >= next_id'[a] => Copies(a, b, id)' = 0)
    BY DEF CopyInv
  <2>1. /\ f \in Asking(b, id) => b = q /\ id = n
        /\ f \notin Handling(a, id)
    BY DEF Asking, Handling
  <2> HIDE DEF f
  <2>2. AskBegun(a, b, id)' = AskBegun(a, b, id)
          \/ (AskBegun(a, b, id)' = AskBegun(a, b, id) + 1 /\ a = p /\ b = q /\ id = n)
    BY <1>6, <2>1, EnterCount DEF AskBegun
  <2>3. AskHandled(a, b, id)' = AskHandled(a, b, id)
    BY <1>6, <2>1, EnterCount DEF AskHandled
  <2>4. /\ AskPosted(a, b, id)' = AskPosted(a, b, id)
        /\ ReplyPosted(a, b, id)' = ReplyPosted(a, b, id)
    BY <1>6 DEF AskPosted, ReplyPosted
  <2>5. /\ AskSent(a, b, id)' = AskSent(a, b, id) /\ ReplySent(a, b, id)' = ReplySent(a, b, id)
        /\ AskQueued(a, b, id)' = AskQueued(a, b, id)
        /\ ReplyKept(a, b, id)' = ReplyKept(a, b, id)
    BY <1>1 DEF AskSent, ReplySent, AskQueued, ReplyKept
  <2>6. Numbers(a, b, id) /\ Numbers(a, b, id)'
    BY AllNumbers
  <2>7. Copies(a, b, id) <= 1 /\ (id >= next_id[a] => Copies(a, b, id) = 0)
    BY DEF CopyInv
  <2>8. Copies(a, b, id) \in Nat /\ Copies(a, b, id)' \in Nat
    BY CopiesTypes
  <2>9. Copies(a, b, id)' = Copies(a, b, id)
          \/ (Copies(a, b, id)' = Copies(a, b, id) + 1 /\ a = p /\ id = n)
    BY <2>2, <2>3, <2>4, <2>5, <2>6 DEF Copies, Numbers
  <2>10. CASE Copies(a, b, id)' = Copies(a, b, id)
    <3>1. next_id[a] \in Nat /\ next_id'[a] \in Nat /\ next_id[a] <= next_id'[a]
      BY <1>1, <1>2
    <3> QED
      BY <2>7, <2>8, <2>10, <3>1
  <2>11. CASE Copies(a, b, id)' = Copies(a, b, id) + 1 /\ a = p /\ id = n
    <3>1. id >= next_id[a] /\ next_id'[a] = n + 1
      BY <1>1, <1>2, <2>11
    <3>2. Copies(a, b, id) = 0 /\ ~(id >= next_id'[a])
      BY <1>2, <2>7, <2>11, <3>1
    <3> QED
      BY <2>11, <3>2
  <2> QED
    BY <2>9, <2>10, <2>11
<1>7. \/ UNCHANGED stack /\ PostIpc(p, SendTask(q, Request(kind, n))) /\ kind = "async"
      \/ UNCHANGED stack /\ UNCHANGED ipc_loop
      \/ Enter(p, f) /\ UNCHANGED ipc_loop
  BY DEF BeginSend
<1> QED
  BY <1>4, <1>5, <1>6, <1>7, UnchangedLess

LEMMA PostSendCopies ==
  ASSUME TypeOK, TypeOK', NEW p \in Proc, PostSend(p)
  PROVE  CopiesLess
<1> DEFINE f == Top(p)
           g == [Top(p) EXCEPT !.at = "wait"]
           t == SendTask(f.peer, Request("sync", f.id))
<1>1. stack[p] # <<>> /\ f \in Frame /\ f.at = "post" /\ f.peer \in Proc /\ f.id \in Nat
  <2>1. stack[p] # <<>>
    BY TopAtType DEF PostSend
  <2>2. f \in Frame /\ f.at = "post"
    BY <2>1, TopType DEF PostSend
  <2> QED
    BY <2>1, <2>2 DEF Frame
<1>2. MoveTo(p, "wait") /\ PostIpc(p, t) /\ UNCHANGED <<pipe, message_queue, received_replies>>
  BY DEF PostSend, queueVars, worldVars
<1> SUFFICES ASSUME NEW a \in Proc, NEW b \in Proc, NEW id \in Nat
             PROVE  Copies(a, b, id)' <= Copies(a, b, id)
  BY DEF CopiesLess
<1>3. g.at = "wait"
  BY <1>1 DEF Frame
<1>4. g \notin Asking(b, id) /\ g \notin Handling(a, id) /\ f \notin Handling(a, id)
  BY <1>1, <1>3 DEF Asking, Handling
<1>5. f \in Asking(b, id) <=> b = f.peer /\ id = f.id
  BY <1>1 DEF Asking
<1>6. t \in Sends(b, Requests(id)) <=> b = f.peer /\ id = f.id
  BY <1>1 DEF Sends, Requests, SendTask, Request, IpcTask, Message
<1>7. t \notin Sends(a, Replies(id))
  BY DEF Sends, Replies, SendTask, Request
<1> HIDE DEF g, t
<1>8. AskBegun(a, b, id)' = IF a = p /\ b = f.peer /\ id = f.id THEN AskBegun(a, b, id) - 1
                                                                ELSE AskBegun(a, b, id)
  BY <1>1, <1>2, <1>4, <1>5, MoveToCount DEF AskBegun, g
<1>9. AskHandled(a, b, id)' = AskHandled(a, b, id)
  BY <1>1, <1>2, <1>4, MoveToCount DEF AskHandled, g
<1>10. AskPosted(a, b, id)' = IF a = p /\ b = f.peer /\ id = f.id THEN AskPosted(a, b, id) + 1
                                                                  ELSE AskPosted(a, b, id)
  BY <1>2, <1>6, PostIpcCount DEF AskPosted
<1>11. ReplyPosted(a, b, id)' = ReplyPosted(a, b, id)
  BY <1>2, <1>7, PostIpcCount DEF ReplyPosted
<1>12. /\ AskSent(a, b, id)' = AskSent(a, b, id) /\ ReplySent(a, b, id)' = ReplySent(a, b, id)
       /\ AskQueued(a, b, id)' = AskQueued(a, b, id)
       /\ ReplyKept(a, b, id)' = ReplyKept(a, b, id)
  BY <1>2 DEF AskSent, ReplySent, AskQueued, ReplyKept
<1>13. Numbers(a, b, id)
  BY AllNumbers
<1> HIDE DEF f
<1> QED
  BY <1>8, <1>9, <1>10, <1>11, <1>12, <1>13 DEF Copies, Numbers

LEMMA DispatchMessageCopies ==
  ASSUME TypeOK, TypeOK', NEW p \in Proc, DispatchMessage(p)
  PROVE  CopiesLess
<1> DEFINE s == message_queue[p]
           m == Head(s)
           f == Call("sync", m.peer, m.id)
<1>1. UNCHANGED <<pipe, received_replies, ipc_loop>> /\ stack[p] # <<>>
  BY TopAtType DEF DispatchMessage, loopVars, worldVars
<1>2. message_queue \in [Proc -> Seq(SendRef)] /\ s \in Seq(SendRef)
  BY DEF TypeOK
<1>3. CASE s = <<>>
  <2>1. Return(p) /\ UNCHANGED message_queue
    BY <1>3 DEF DispatchMessage
  <2> QED
    BY <1>1, <2>1, ReturnLess, UnchangedLess, EachLess
<1>4. CASE s # <<>>
  <2> SUFFICES ASSUME NEW a \in Proc, NEW b \in Proc, NEW id \in Nat
               PROVE  Copies(a, b, id)' <= Copies(a, b, id)
    BY DEF CopiesLess
  <2>1. /\ message_queue' = [message_queue EXCEPT ![p] = Tail(s)]
        /\ Enter(p, f) \/ UNCHANGED stack
    BY <1>4 DEF DispatchMessage
  <2>2. m \in SendRef
    BY <1>2, <1>4, HeadTailType
  <2>3. m \in {Ref(a, id)} <=> m.peer = a /\ m.id = id
    BY <2>2 DEF SendRef, Ref
  <2>4. /\ f \in Handling(a, id) => m.peer = a /\ m.id = id
        /\ f \notin Asking(b, id)
    BY DEF Handling, Asking, Call
  <2>5. Numbers(a, b, id)
    BY AllNumbers
  <2> HIDE DEF f
  <2>6. AskBegun(a, b, id)' = AskBegun(a, b, id)
    BY <2>1, <2>4, EnterCount DEF AskBegun
  <2>7. AskHandled(a, b, id)' = AskHandled(a, b, id)
          \/ (AskHandled(a, b, id)' = AskHandled(a, b, id) + 1 /\ b = p /\ m.peer = a /\ m.id = id)
    BY <2>1, <2>4, EnterCount DEF AskHandled
  <2>8. AskQueued(a, b, id)' = IF b = p /\ m.peer = a /\ m.id = id THEN AskQueued(a, b, id) - 1
                                                                   ELSE AskQueued(a, b, id)
    <3>1. message_queue'[b] = IF b = p THEN Tail(s) ELSE message_queue[b]
      BY <1>2, <2>1
    <3>2. Count(Tail(s), {Ref(a, id)}) = IF m \in {Ref(a, id)} THEN Count(s, {Ref(a, id)}) - 1
                                                               ELSE Count(s, {Ref(a, id)})
      BY <1>2, <1>4, CountTail
    <3> HIDE DEF m
    <3> QED
      BY <2>3, <3>1, <3>2 DEF AskQueued
  <2>9. /\ AskPosted(a, b, id)' = AskPosted(a, b, id)
        /\ ReplyPosted(a, b, id)' = ReplyPosted(a, b, id)
        /\ AskSent(a, b, id)' = AskSent(a, b, id) /\ ReplySent(a, b, id)' = ReplySent(a, b, id)
        /\ ReplyKept(a, b, id)' = ReplyKept(a, b, id)
    BY <1>1 DEF AskSent, ReplySent, AskPosted, ReplyPosted, ReplyKept
  <2> HIDE DEF m
  <2> QED
    BY <2>5, <2>6, <2>7, <2>8, <2>9 DEF Copies, Numbers
<1> QED
  BY <1>3, <1>4

LEMMA FinishHandlerCopies ==
  ASSUME TypeOK, TypeOK', NEW p \in Proc, NEW ok, FinishHandler(p, ok)
  PROVE  CopiesLess
<1> DEFINE f == Top(p)
           t == SendTask(f.peer, Reply(f.id, ok))
<1>1. stack[p] # <<>> /\ Return(p) /\ UNCHANGED <<pipe, message_queue, received_replies>>
  BY TopAtType DEF FinishHandler, queueVars, HandlerPoints
<1>2. PipeLess /\ QueueLess /\ RepliesLess /\ StackLess
  BY <1>1, UnchangedLess, ReturnLess
<1>3. CASE UNCHANGED ipc_loop
  BY <1>2, <1>3, UnchangedLess, EachLess
<1>4. CASE PostIpc(p, t) /\ TopAt(p) = "sync"
  <2> SUFFICES ASSUME NEW a \in Proc, NEW b \in Proc, NEW id \in Nat
               PROVE  Copies(a, b, id)' <= Copies(a, b, id)
    BY DEF CopiesLess
  <2>1. f \in Frame /\ f.at = "sync"
    BY <1>1, <1>4, TopType
  <2>2. f \notin Asking(b, id) /\ (f \in Handling(a, id) <=> f.peer = a /\ f.id = id)
    BY <2>1 DEF Asking, Handling
  <2>3. t \in Sends(a, Replies(id)) => f.peer = a /\ f.id = id
    BY DEF Sends, Replies, SendTask, Reply
  <2>4. t \notin Sends(b, Requests(id))
    BY DEF Sends, Requests, SendTask, Reply
  <2> HIDE DEF t
  <2>5. AskBegun(a, b, id)' = AskBegun(a, b, id)
    BY <1>1, <2>2, ReturnCount DEF AskBegun
  <2>6. AskHandled(a, b, id)' = IF b = p /\ f.peer = a /\ f.id = id THEN AskHandled(a, b, id) - 1
                                                                    ELSE AskHandled(a, b, id)
    BY <1>1, <2>2, ReturnCount DEF AskHandled
  <2>7. AskPosted(a, b, id)' = AskPosted(a, b, id)
    BY <1>4, <2>4, PostIpcCount DEF AskPosted
  <2>8. ReplyPosted(a, b, id)' = ReplyPosted(a, b, id)
          \/ (ReplyPosted(a, b, id)' = ReplyPosted(a, b, id) + 1 /\ b = p /\ f.peer = a /\ f.id = id)
    BY <1>4, <2>3, PostIpcCount DEF ReplyPosted
  <2>9. /\ AskSent(a, b, id)' = AskSent(a, b, id) /\ ReplySent(a, b, id)' = ReplySent(a, b, id)
        /\ AskQueued(a, b, id)' = AskQueued(a, b, id)
        /\ ReplyKept(a, b, id)' = ReplyKept(a, b, id)
    BY <1>1 DEF AskSent, ReplySent, AskQueued, ReplyKept
  <2>10. Numbers(a, b, id)
    BY AllNumbers
  <2> HIDE DEF f
  <2> QED
    BY <2>5, <2>6, <2>7, <2>8, <2>9, <2>10 DEF Copies, Numbers
<1> QED
  BY <1>3, <1>4 DEF FinishHandler

\* A message goes from a SendTask into the pipe.
LEMMA SendCopies ==
  ASSUME TypeOK, TypeOK', NEW p \in Proc, ipc_loop[p] # <<>>, TakeIpcTask(p),
         NextIpcTask(p).kind = "send",
         Written(p, NextIpcTask(p).peer, NextIpcTask(p).msg),
         UNCHANGED <<stack, message_queue, received_replies>>
  PROVE  CopiesLess
<1> DEFINE t == NextIpcTask(p)
           q == t.peer
           m == t.msg
<1>1. t \in IpcTask /\ q \in Proc /\ m \in Message /\ t.kind = "send"
  BY TakeIpcTaskType
<1> SUFFICES ASSUME NEW a \in Proc, NEW b \in Proc, NEW id \in Nat
             PROVE  Copies(a, b, id)' <= Copies(a, b, id)
  BY DEF CopiesLess
<1>2. t \in Sends(b, Requests(id)) <=> b = q /\ m \in Requests(id)
  BY <1>1 DEF Sends
<1>3. t \in Sends(a, Replies(id)) <=> a = q /\ m \in Replies(id)
  BY <1>1 DEF Sends
<1>4. AskPosted(a, b, id)' = IF a = p /\ b = q /\ m \in Requests(id) THEN AskPosted(a, b, id) - 1
                                                                     ELSE AskPosted(a, b, id)
  BY <1>2, TakeIpcCount DEF AskPosted
<1>5. ReplyPosted(a, b, id)' = IF b = p /\ a = q /\ m \in Replies(id) THEN ReplyPosted(a, b, id) - 1
                                                                      ELSE ReplyPosted(a, b, id)
  BY <1>3, TakeIpcCount DEF ReplyPosted
<1>6. AskSent(a, b, id)' = IF a = p /\ b = q /\ m \in Requests(id) THEN AskSent(a, b, id) + 1
                                                                   ELSE AskSent(a, b, id)
  BY <1>1, WrittenCount DEF AskSent
<1>7. ReplySent(a, b, id)' = IF b = p /\ a = q /\ m \in Replies(id) THEN ReplySent(a, b, id) + 1
                                                                    ELSE ReplySent(a, b, id)
  BY <1>1, WrittenCount DEF ReplySent
<1>8. /\ AskBegun(a, b, id)' = AskBegun(a, b, id) /\ AskHandled(a, b, id)' = AskHandled(a, b, id)
      /\ AskQueued(a, b, id)' = AskQueued(a, b, id)
      /\ ReplyKept(a, b, id)' = ReplyKept(a, b, id)
  BY DEF AskBegun, AskHandled, AskQueued, ReplyKept
<1>9. Numbers(a, b, id)
  BY AllNumbers
<1> HIDE DEF q, m
<1>10. AskPosted(a, b, id)' + AskSent(a, b, id)' = AskPosted(a, b, id) + AskSent(a, b, id)
  BY <1>4, <1>6, <1>9 DEF Numbers
<1>11. ReplyPosted(a, b, id)' + ReplySent(a, b, id)' = ReplyPosted(a, b, id) + ReplySent(a, b, id)
  BY <1>5, <1>7, <1>9 DEF Numbers
<1>12. Numbers(a, b, id)'
  BY AllNumbers
<1>13. Copies(a, b, id)' =
          AskBegun(a, b, id) + AskPosted(a, b, id)' + AskSent(a, b, id)' + AskQueued(a, b, id)
            + AskHandled(a, b, id) + ReplyPosted(a, b, id)' + ReplySent(a, b, id)'
            + ReplyKept(a, b, id)
  BY <1>8 DEF Copies
<1>14. Copies(a, b, id)' = Copies(a, b, id) /\ Copies(a, b, id) \in Nat
  BY ONLY <1>9, <1>10, <1>11, <1>12, <1>13 DEF Copies, Numbers
<1> QED
  BY <1>14

\* A reply is taken out of received_replies_.
LEMMA RemoveReplyCount ==
  ASSUME TypeOK, NEW p \in Proc, NEW i \in DOMAIN received_replies[p],
         received_replies' = [received_replies EXCEPT ![p] = RemoveAt(@, i)], NEW M
  PROVE  \A r \in Proc :
           Count(received_replies'[r], M) <=
             IF r = p /\ received_replies[p][i] \in M THEN Count(received_replies[r], M) - 1
                                                      ELSE Count(received_replies[r], M)
<1>1. received_replies \in [Proc -> Seq(QueuedReply)] /\ received_replies[p] \in Seq(QueuedReply)
  BY DEF TypeOK
<1> SUFFICES ASSUME NEW r \in Proc
             PROVE  Count(received_replies'[r], M) <=
                      IF r = p /\ received_replies[p][i] \in M THEN Count(received_replies[r], M) - 1
                                                               ELSE Count(received_replies[r], M)
  OBVIOUS
<1>2. received_replies'[r] = IF r = p THEN RemoveAt(received_replies[p], i) ELSE received_replies[r]
  BY <1>1
<1>3. Count(received_replies[r], M) \in Nat
  BY <1>1, CountType
<1> QED
  BY <1>1, <1>2, <1>3, CountRemove

LEMMA RunIpcTaskCopies ==
  ASSUME TypeOK, TypeOK', NEW p \in Proc, RunIpcTask(p)
  PROVE  CopiesLess
<1> DEFINE t == NextIpcTask(p)
<1>1. ipc_loop[p] # <<>> /\ TakeIpcTask(p) /\ UNCHANGED <<stack, message_queue>>
  BY DEF RunIpcTask
<1>2. t.peer \in Proc
  BY <1>1, TakeIpcTaskType
<1>3. StackLess /\ QueueLess /\ LoopLess
  BY <1>1, UnchangedLess, TakeIpcLess
<1>4. CASE RunSendTask(p)
  <2>1. UNCHANGED received_replies /\ t.kind = "send"
    BY <1>4 DEF RunSendTask
  <2>2. CASE Disconnect(p, t.peer)
    BY <1>2, <1>3, <2>1, <2>2, DisconnectLess, UnchangedLess, EachLess
  <2>3. CASE Written(p, t.peer, t.msg)
    BY <1>1, <2>1, <2>3, SendCopies
  <2> QED
    BY <1>4, <2>2, <2>3 DEF RunSendTask, Written
<1>5. CASE RunDispatchReplies(p)
  <2>1. PipeLess
    BY <1>5, UnchangedLess DEF RunDispatchReplies
  <2>2. CASE UNCHANGED received_replies
    BY <1>3, <2>1, <2>2, UnchangedLess, EachLess
  <2>3. CASE \E i \in Deliverable(p) :
               received_replies' = [received_replies EXCEPT ![p] = RemoveAt(@, i)]
    <3>1. PICK i \in DOMAIN received_replies[p] :
                 received_replies' = [received_replies EXCEPT ![p] = RemoveAt(@, i)]
      BY <2>3 DEF Deliverable
    <3>2. RepliesLess
      <4> SUFFICES ASSUME NEW a \in Proc, NEW b \in Proc, NEW id \in Nat
                   PROVE  ReplyKept(a, b, id)' <= ReplyKept(a, b, id)
        BY DEF RepliesLess
      <4>1. Count(received_replies'[a], Kept(b, id)) <=
              IF a = p /\ received_replies[p][i] \in Kept(b, id)
              THEN Count(received_replies[a], Kept(b, id)) - 1
              ELSE Count(received_replies[a], Kept(b, id))
        BY <3>1, RemoveReplyCount
      <4>2. ReplyKept(a, b, id) \in Nat /\ ReplyKept(a, b, id)' \in Nat
        BY CopyTypes, NextCopyTypes
      <4> QED
        BY <4>1, <4>2 DEF ReplyKept
    <3> QED
      BY <1>3, <2>1, <3>2, EachLess
  <2> QED
    BY <1>5, <2>2, <2>3 DEF RunDispatchReplies
<1>6. CASE RunCloseTask(p)
  <2>1. Disconnect(p, t.peer) /\ UNCHANGED received_replies
    BY <1>6 DEF RunCloseTask
  <2> QED
    BY <1>2, <1>3, <2>1, DisconnectLess, UnchangedLess, EachLess
<1>7. CASE RunShutdownTask(p)
  <2>1. UNCHANGED <<pipe, received_replies>>
    BY <1>7 DEF RunShutdownTask
  <2> QED
    BY <1>3, <2>1, UnchangedLess, EachLess
<1> QED
  BY <1>4, <1>5, <1>6, <1>7 DEF RunIpcTask

LEMMA ReceiveCopies ==
  ASSUME TypeOK, TypeOK', NEW p \in Proc, NEW q \in Proc, Receive(p, q)
  PROVE  CopiesLess
<1> DEFINE m == Head(pipe[q][p])
           e == [peer |-> q, msg |-> m]
<1>1. pipe[q][p] # <<>> /\ Taken(p, q) /\ UNCHANGED <<stack, ipc_loop>>
  BY DEF Receive, Taken
<1>2. m \in Message
  <2>1. pipe[q][p] \in Seq(Message)
    BY DEF TypeOK
  <2> QED
    BY <1>1, <2>1, HeadTailType
<1>3. \/ UNCHANGED <<message_queue, received_replies>>
      \/ /\ m.kind = "sync" /\ message_queue' = [message_queue EXCEPT ![p] = Append(@, Ref(q, m.id))]
         /\ UNCHANGED received_replies
      \/ /\ m.kind = "reply" /\ received_replies' = [received_replies EXCEPT ![p] = Append(@, e)]
         /\ UNCHANGED message_queue
  BY DEF Receive
<1> SUFFICES ASSUME NEW a \in Proc, NEW b \in Proc, NEW id \in Nat
             PROVE  Copies(a, b, id)' <= Copies(a, b, id)
  BY DEF CopiesLess
<1>4. Ref(q, m.id) \in {Ref(a, id)} => q = a /\ m.id = id
  BY DEF Ref
<1>5. e \in Kept(b, id) => b = q /\ m \in Replies(id)
  BY DEF Kept
<1>6. m.kind = "sync" /\ m.id = id => m \in Requests(id)
  BY <1>2 DEF Requests
<1> HIDE DEF e
<1>7. AskSent(a, b, id)' = IF a = q /\ b = p /\ m \in Requests(id) THEN AskSent(a, b, id) - 1
                                                                   ELSE AskSent(a, b, id)
  BY <1>1, TakenCount DEF AskSent
<1>8. ReplySent(a, b, id)' = IF b = q /\ a = p /\ m \in Replies(id) THEN ReplySent(a, b, id) - 1
                                                                    ELSE ReplySent(a, b, id)
  BY <1>1, TakenCount DEF ReplySent
<1>9. /\ AskBegun(a, b, id)' = AskBegun(a, b, id) /\ AskHandled(a, b, id)' = AskHandled(a, b, id)
      /\ AskPosted(a, b, id)' = AskPosted(a, b, id)
      /\ ReplyPosted(a, b, id)' = ReplyPosted(a, b, id)
  BY <1>1 DEF AskBegun, AskHandled, AskPosted, ReplyPosted
<1>10. \/ AskQueued(a, b, id)' = AskQueued(a, b, id)
       \/ AskQueued(a, b, id)' = AskQueued(a, b, id) + 1 /\ a = q /\ b = p /\ m \in Requests(id)
  <2>1. message_queue \in [Proc -> Seq(SendRef)] /\ message_queue[p] \in Seq(SendRef)
    BY DEF TypeOK
  <2>2. CASE UNCHANGED message_queue
    BY <2>2 DEF AskQueued
  <2>3. CASE m.kind = "sync" /\ message_queue' = [message_queue EXCEPT ![p] = Append(@, Ref(q, m.id))]
    <3>1. message_queue'[b] = IF b = p THEN Append(message_queue[p], Ref(q, m.id)) ELSE message_queue[b]
      BY <2>1, <2>3
    <3>2. Count(Append(message_queue[p], Ref(q, m.id)), {Ref(a, id)}) =
            IF Ref(q, m.id) \in {Ref(a, id)} THEN Count(message_queue[p], {Ref(a, id)}) + 1
                                             ELSE Count(message_queue[p], {Ref(a, id)})
      BY <2>1, CountAppend
    <3> QED
      BY <1>4, <1>6, <2>3, <3>1, <3>2 DEF AskQueued
  <2> QED
    BY <1>3, <2>2, <2>3
<1>11. \/ ReplyKept(a, b, id)' = ReplyKept(a, b, id)
       \/ ReplyKept(a, b, id)' = ReplyKept(a, b, id) + 1 /\ a = p /\ b = q /\ m \in Replies(id)
  <2>1. /\ received_replies \in [Proc -> Seq(QueuedReply)]
        /\ received_replies[p] \in Seq(QueuedReply)
    BY DEF TypeOK
  <2>2. CASE UNCHANGED received_replies
    BY <2>2 DEF ReplyKept
  <2>3. CASE received_replies' = [received_replies EXCEPT ![p] = Append(@, e)]
    <3>1. received_replies'[a] = IF a = p THEN Append(received_replies[p], e) ELSE received_replies[a]
      BY <2>1, <2>3
    <3>2. Count(Append(received_replies[p], e), Kept(b, id)) =
            IF e \in Kept(b, id) THEN Count(received_replies[p], Kept(b, id)) + 1
                                 ELSE Count(received_replies[p], Kept(b, id))
      BY <2>1, CountAppend
    <3> QED
      BY <1>5, <3>1, <3>2 DEF ReplyKept
  <2> QED
    BY <1>3, <2>2, <2>3
<1>12. Numbers(a, b, id)
  BY AllNumbers
<1> HIDE DEF m
<1> QED
  BY <1>7, <1>8, <1>9, <1>10, <1>11, <1>12 DEF Copies, Numbers

LEMMA SendStepCopies ==
  ASSUME TypeOK, TypeOK', NEW p \in Proc, SendStep(p)
  PROVE  CopiesLess
<1>1. stack[p] # <<>>
  BY TopAtType
  DEF SendStep, PushSend, PostSend, WaitReturnsDone, WaitReturnsDispatch, WaitReturnsPump, PopSend
<1>2. CASE PushSend(p) \/ WaitReturnsDone(p) \/ WaitReturnsDispatch(p) \/ WaitReturnsPump(p)
  <2>1. UNCHANGED <<ipc_loop, pipe, message_queue, received_replies>>
    BY <1>2 DEF PushSend, WaitReturnsDone, WaitReturnsDispatch, WaitReturnsPump, queueVars,
                loopVars, worldVars
  <2>2. StackLess
    <3>1. CASE PushSend(p)
      BY <1>1, <3>1, MoveToLess DEF PushSend
    <3>2. CASE WaitReturnsDone(p) \/ WaitReturnsPump(p)
      BY <1>1, <3>2, MoveToLess DEF WaitReturnsDone, WaitReturnsPump
    <3>3. CASE WaitReturnsDispatch(p)
      BY <3>3, EnterLess DEF WaitReturnsDispatch, Call
    <3> QED
      BY <1>2, <3>1, <3>2, <3>3
  <2> QED
    BY <2>1, <2>2, UnchangedLess, EachLess
<1>3. CASE PopSend(p)
  <2>1. LoopLess /\ StackLess
    BY <1>1, <1>3, PostIpcLess, ReturnLess DEF PopSend, IpcCall
  <2> QED
    BY <1>3, <2>1, UnchangedLess, EachLess DEF PopSend, queueVars, worldVars
<1> QED
  BY <1>2, <1>3, PostSendCopies DEF SendStep

LEMMA RunTaskCopies ==
  ASSUME TypeOK, TypeOK', NEW p \in Proc, RunTask(p)
  PROVE  CopiesLess
<1>1. StackLess
  <2>1. CASE RunDispatchTask(p) \/ RunWatchTask(p)
    BY <2>1, EnterLess DEF RunDispatchTask, RunWatchTask, Call
  <2>2. CASE RunQuitTask(p)
    <3>1. stack[p] # <<>>
      BY <2>2, TopAtType DEF RunQuitTask
    <3> QED
      BY <2>2, <3>1, MoveToLess DEF RunQuitTask
  <2>3. CASE RunOtherTask(p)
    BY <2>3, EnterLess, UnchangedLess DEF RunOtherTask, Call
  <2> QED
    BY <2>1, <2>2, <2>3 DEF RunTask
<1>2. UNCHANGED <<message_queue, received_replies, ipc_loop, pipe>>
  BY DEF RunTask, worldVars
<1> QED
  BY <1>1, <1>2, UnchangedLess, EachLess

LEMMA NextCopies ==
  ASSUME TypeOK, TypeOK', CopyInv, [Next]_vars
  PROVE  CopyInv'
<1>1. ASSUME UNCHANGED next_id, CopiesLess PROVE CopyInv'
  <2>1. \A r \in Proc : next_id[r] \in Nat
    BY DEF TypeOK
  <2>2. \A r \in Proc : next_id[r] <= next_id'[r]
    BY <1>1, <2>1
  <2> QED
    BY <1>1, <2>2, CopyInvFewer
<1>2. ASSUME UNCHANGED <<next_id, stack, ipc_loop, pipe, message_queue, received_replies>>
      PROVE  CopyInv'
  BY <1>1, <1>2, UnchangedLess, EachLess
<1>3. CASE UNCHANGED vars
  BY <1>2, <1>3 DEF vars, listenerVars, queueVars, loopVars, worldVars
<1>4. ASSUME NEW p \in Proc, SendStep(p) PROVE CopyInv'
  BY <1>1, <1>4, SendStepCopies
  DEF SendStep, PushSend, PostSend, WaitReturnsDone, WaitReturnsDispatch, WaitReturnsPump, PopSend
<1>5. ASSUME NEW p \in Proc, DispatchMessage(p) PROVE CopyInv'
  BY <1>1, <1>5, DispatchMessageCopies DEF DispatchMessage
<1>6. ASSUME NEW p \in Proc, RunTask(p) PROVE CopyInv'
  BY <1>1, <1>6, RunTaskCopies DEF RunTask
<1>7. ASSUME NEW p \in Proc, NEW ok, FinishHandler(p, ok) PROVE CopyInv'
  BY <1>1, <1>7, FinishHandlerCopies DEF FinishHandler
<1>8. ASSUME NEW p \in Proc, NEW q \in Proc, CloseChannel(p, q) PROVE CopyInv'
  <2>1. QueueLess
    BY <1>8, CloseChannelLess
  <2>2. PostIpc(p, IpcCall("closed", q))
        /\ UNCHANGED <<next_id, stack, pipe, received_replies>>
    BY <1>8 DEF CloseChannel, worldVars
  <2>3. LoopLess
    BY <2>2, PostIpcLess DEF IpcCall
  <2> QED
    BY <1>1, <2>1, <2>2, <2>3, UnchangedLess, EachLess
<1>9. ASSUME NEW p \in Proc, RunIpcTask(p) PROVE CopyInv'
  BY <1>1, <1>9, RunIpcTaskCopies DEF RunIpcTask
<1>10. ASSUME NEW p \in Proc, NEW q \in Proc, Receive(p, q) PROVE CopyInv'
  BY <1>1, <1>10, ReceiveCopies DEF Receive
<1>11. ASSUME NEW p \in Proc, NEW q \in Proc, ReadError(p, q) PROVE CopyInv'
  <2>1. PipeLess
    BY <1>11, DisconnectLess DEF ReadError
  <2> QED
    BY <1>1, <1>11, <2>1, UnchangedLess, EachLess DEF ReadError, queueVars
<1>12. ASSUME NEW p \in Proc, SignalDispatchEvent(p) \/ PostDispatchTask(p) PROVE CopyInv'
  BY <1>2, <1>12 DEF SignalDispatchEvent, PostDispatchTask, listenerVars, queueVars, worldVars
<1>13. ASSUME NEW p \in Proc, NEW w \in timers[p], RunTimeout(p, w) PROVE CopyInv'
  BY <1>2, <1>13 DEF RunTimeout, queueVars, worldVars
<1>14. ASSUME NEW p \in Proc, Shutdown(p) PROVE CopyInv'
  BY <1>1, <1>14, ShutdownLess, UnchangedLess, EachLess DEF Shutdown, listenerVars, queueVars
<1>15. ASSUME NEW p \in Proc, Crash(p) PROVE CopyInv'
  BY <1>2, <1>15 DEF Crash, listenerVars, queueVars, loopVars
<1> QED
  BY <1>3, <1>4, <1>5, <1>6, <1>7, <1>8, <1>9, <1>10, <1>11, <1>12, <1>13, <1>14, <1>15,
     BeginSendCopies DEF Next, IpcStep

LEMMA InitCopies ==
  ASSUME Init
  PROVE  CopyInv
<1> SUFFICES ASSUME NEW p \in Proc, NEW q \in Proc, NEW id \in Nat
             PROVE  Copies(p, q, id) = 0
  BY DEF CopyInv
<1>1. /\ stack[p] = <<>> /\ stack[q] = <<>> /\ ipc_loop[p] = <<>> /\ ipc_loop[q] = <<>>
      /\ pipe[p][q] = <<>> /\ pipe[q][p] = <<>>
      /\ message_queue[q] = <<>> /\ received_replies[p] = <<>>
  BY DEF Init
<1> QED
  BY <1>1, CountEmpty
  DEF Copies, AskBegun, AskPosted, AskSent, AskQueued, AskHandled, ReplyPosted, ReplySent, ReplyKept

\* The last Send of the context of q, whose entries are ds, has its reply in rs.
HasReply(ds, rs, q) == ds # <<>> /\ \E i \in DOMAIN rs : rs[i] \in Kept(q, Last(ds).id)
Waiting(p) == {q \in Proc : HasReply(deserializers[p][q], received_replies[p], q)}

\* There are as many DispatchReplies to come as there are such contexts.
ReplyTasks == {t \in IpcTask : t.kind = "replies"}
ReplyInv == \A p \in Proc : Cardinality(Waiting(p)) <= Count(ipc_loop[p], ReplyTasks)

NoNewReplies ==
  \A p, q \in Proc : HasReply(deserializers'[p][q], received_replies'[p], q) =>
                       HasReply(deserializers[p][q], received_replies[p], q)
ReplyTasksStay ==
  \A p \in Proc : Count(ipc_loop[p], ReplyTasks) <= Count(ipc_loop'[p], ReplyTasks)

LEMMA WaitingType ==
  ASSUME TypeOK, TypeOK', NEW p \in Proc
  PROVE  /\ IsFiniteSet(Waiting(p)) /\ Cardinality(Waiting(p)) \in Nat
         /\ IsFiniteSet(Waiting(p)') /\ Cardinality(Waiting(p)') \in Nat
         /\ Count(ipc_loop[p], ReplyTasks) \in Nat /\ Count(ipc_loop'[p], ReplyTasks) \in Nat
<1>1. IsFiniteSet(Proc)
  BY ConstantsOK
<1>2. Waiting(p) \in SUBSET Proc /\ Waiting(p)' \in SUBSET Proc
  BY DEF Waiting
<1>3. IsFiniteSet(Waiting(p)) /\ IsFiniteSet(Waiting(p)')
  BY <1>1, <1>2, FS_Subset
<1>4. ipc_loop[p] \in Seq(IpcTask) /\ ipc_loop'[p] \in Seq(IpcTask)
  BY DEF TypeOK
<1> QED
  BY <1>3, <1>4, FS_CardinalityType, CountType

LEMMA ReplyInvKept ==
  ASSUME TypeOK, TypeOK', ReplyInv, NoNewReplies, ReplyTasksStay
  PROVE  ReplyInv'
<1> SUFFICES ASSUME NEW p \in Proc
             PROVE  Cardinality(Waiting(p)') <= Count(ipc_loop'[p], ReplyTasks)
  BY DEF ReplyInv
<1>1. Waiting(p)' \in SUBSET Waiting(p)
  BY DEF Waiting, NoNewReplies
<1>2. Cardinality(Waiting(p)') <= Cardinality(Waiting(p))
  BY <1>1, WaitingType, FS_Subset
<1>3. /\ Cardinality(Waiting(p)) <= Count(ipc_loop[p], ReplyTasks)
      /\ Count(ipc_loop[p], ReplyTasks) <= Count(ipc_loop'[p], ReplyTasks)
  BY DEF ReplyInv, ReplyTasksStay
<1> QED
  BY <1>2, <1>3, WaitingType

\* Entries whose ids do not change have the same last id.
LEMMA LastSame ==
  ASSUME TypeOK, TypeOK', SameEntries, NEW p \in Proc, NEW q \in Proc, deserializers'[p][q] # <<>>
  PROVE  /\ deserializers[p][q] # <<>>
         /\ Last(deserializers'[p][q]).id = Last(deserializers[p][q]).id
<1> DEFINE s == deserializers[p][q]
           t == deserializers'[p][q]
<1>1. s \in Seq(PendingSyncMsg) /\ t \in Seq(PendingSyncMsg)
  <2>1. deserializers \in [Proc -> [Proc -> Seq(PendingSyncMsg)]]
    BY DEF TypeOK
  <2>2. deserializers' \in [Proc -> [Proc -> Seq(PendingSyncMsg)]]
    BY DEF TypeOK
  <2> QED
    BY <2>1, <2>2
<1>2. DOMAIN t = DOMAIN s /\ \A i \in DOMAIN s : t[i].id = s[i].id
  BY DEF SameEntries
<1>3. t # <<>>
  OBVIOUS
<1> HIDE DEF s, t
<1>4. Len(t) \in DOMAIN t /\ Last(t) = t[Len(t)]
  BY <1>1, <1>3, LastType
<1>5. s # <<>>
  BY <1>1, <1>2, <1>4, EmptySeq
<1>6. Last(s) = s[Len(s)] /\ Len(s) = Len(t)
  BY <1>1, <1>2, <1>5, LastType
<1>7. Last(t).id = Last(s).id
  BY <1>2, <1>4, <1>6
<1> QED
  BY <1>5, <1>7 DEF s, t

\* Whether there is such a reply is whether one counts.
LEMMA HasReplyCount ==
  ASSUME NEW ds, NEW rs \in Seq(QueuedReply), NEW q
  PROVE  HasReply(ds, rs, q) <=> ds # <<>> /\ Count(rs, Kept(q, Last(ds).id)) # 0
<1> DEFINE M == Kept(q, Last(ds).id)
<1>1. HasReply(ds, rs, q) <=> ds # <<>> /\ \E i \in DOMAIN rs : rs[i] \in M
  BY DEF HasReply
<1> HIDE DEF M
<1>2. Count(rs, M) = 0 <=> At(rs, M) = {}
  BY CountType
<1>3. At(rs, M) = {} <=> ~\E i \in DOMAIN rs : rs[i] \in M
  BY DEF At
<1>4. HasReply(ds, rs, q) <=> ds # <<>> /\ Count(rs, M) # 0
  BY <1>1, <1>2, <1>3
<1> QED
  BY <1>4 DEF M

LEMMA SameReplies ==
  ASSUME TypeOK, TypeOK', SameEntries, UNCHANGED received_replies
  PROVE  NoNewReplies
<1> SUFFICES ASSUME NEW p \in Proc, NEW q \in Proc,
                    HasReply(deserializers'[p][q], received_replies'[p], q)
             PROVE  HasReply(deserializers[p][q], received_replies[p], q)
  BY DEF NoNewReplies
<1>1. deserializers'[p][q] # <<>>
  BY DEF HasReply
<1> QED
  BY <1>1, LastSame DEF HasReply

LEMMA UnchangedReplyTasks ==
  ASSUME TypeOK
  PROVE  /\ UNCHANGED ipc_loop => ReplyTasksStay
         /\ \A p \in Proc : \A t : PostIpc(p, t) => ReplyTasksStay
         /\ \A p \in Proc : ipc_loop[p] # <<>> /\ TakeIpcTask(p) /\ NextIpcTask(p).kind # "replies"
              => ReplyTasksStay
<1>1. ASSUME NEW r \in Proc PROVE Count(ipc_loop[r], ReplyTasks) \in Nat
  <2>1. ipc_loop[r] \in Seq(IpcTask)
    BY DEF TypeOK
  <2> QED
    BY <2>1, CountType
<1>2. ASSUME UNCHANGED ipc_loop PROVE ReplyTasksStay
  BY <1>1, <1>2 DEF ReplyTasksStay
<1>3. ASSUME NEW p \in Proc, NEW t, PostIpc(p, t) PROVE ReplyTasksStay
  BY <1>1, <1>3, PostIpcCount DEF ReplyTasksStay
<1>4. ASSUME NEW p \in Proc, ipc_loop[p] # <<>>, TakeIpcTask(p), NextIpcTask(p).kind # "replies"
      PROVE  ReplyTasksStay
  <2>1. NextIpcTask(p) \notin ReplyTasks
    BY <1>4 DEF ReplyTasks
  <2> QED
    BY <1>1, <1>4, <2>1, TakeIpcCount DEF ReplyTasksStay
<1> QED
  BY <1>2, <1>3, <1>4

\* An element that counts.
LEMMA CountPositive ==
  ASSUME NEW S, NEW s \in Seq(S), NEW M, NEW i \in DOMAIN s, s[i] \in M
  PROVE  Count(s, M) \in Nat \ {0}
<1>1. i \in At(s, M)
  BY DEF At
<1> QED
  BY <1>1, CountType

\* The Send that is pushed is in its frame, so that its reply is not kept.
LEMMA PushSendReplies ==
  ASSUME TypeOK, TypeOK', CopyInv, ReplyInv, NEW p \in Proc, PushSend(p)
  PROVE  ReplyInv'
<1> DEFINE f == Top(p)
           q == f.peer
           ds == deserializers[p][q]
           e == [id |-> f.id, done |-> FALSE, result |-> FALSE]
<1>1. f \in Frame /\ f = stack[p][Len(stack[p])] /\ f.at = "push" /\ stack[p] # <<>>
  BY TopAtType, TopType DEF PushSend
<1>2. q \in Proc /\ f.id \in Nat
  BY <1>1 DEF Frame
<1>3. /\ UNCHANGED <<ipc_loop, received_replies>>
      /\ deserializers \in [Proc -> [Proc -> Seq(PendingSyncMsg)]] /\ ds \in Seq(PendingSyncMsg)
      /\ deserializers' = [deserializers EXCEPT ![p][q] = Append(ds, e)]
  <2>1. deserializers \in [Proc -> [Proc -> Seq(PendingSyncMsg)]]
    BY DEF TypeOK
  <2>2. deserializers' = [deserializers EXCEPT ![p][q] = Append(ds, e)]
    BY DEF PushSend
  <2>3. UNCHANGED <<ipc_loop, received_replies>>
    BY DEF PushSend, queueVars, loopVars
  <2>4. ds \in Seq(PendingSyncMsg)
    BY <1>2, <2>1
  <2> QED
    BY <2>1, <2>2, <2>3, <2>4
<1>4. Last(Append(ds, e)).id = f.id
  <2>1. Last(Append(ds, e)) = e
    BY <1>3, AppendProperties DEF Last
  <2> QED
    BY <2>1
<1>5. ReplyKept(p, q, f.id) = 0
  <2>1. stack[p] \in Seq(Frame) /\ Len(stack[p]) \in DOMAIN stack[p]
    BY <1>1, LastType DEF TypeOK
  <2>2. f \in Asking(q, f.id)
    BY <1>1 DEF Asking
  <2>3. AskBegun(p, q, f.id) \in Nat \ {0}
    BY <1>1, <2>1, <2>2, CountPositive DEF AskBegun
  <2>4. Copies(p, q, f.id) <= 1
    BY <1>2 DEF CopyInv
  <2>5. Numbers(p, q, f.id)
    BY <1>2, AllNumbers
  <2> HIDE DEF f
  <2> QED
    BY <2>3, <2>4, <2>5 DEF Copies, Numbers
<1>6. \A i \in DOMAIN received_replies[p] : received_replies[p][i] \notin Kept(q, f.id)
  <2>1. received_replies[p] \in Seq(QueuedReply)
    BY DEF TypeOK
  <2> QED
    BY <1>5, <2>1, CountPositive DEF ReplyKept
<1>7. NoNewReplies
  <2> SUFFICES ASSUME NEW a \in Proc, NEW b \in Proc,
                      HasReply(deserializers'[a][b], received_replies'[a], b)
               PROVE  HasReply(deserializers[a][b], received_replies[a], b)
    BY DEF NoNewReplies
  <2> HIDE DEF q, ds, e, f
  <2>1. CASE a = p /\ b = q
    <3>1. deserializers'[a][b] = Append(ds, e)
      BY <1>2, <1>3, <2>1
    <3> QED
      BY <1>3, <1>4, <1>6, <2>1, <3>1 DEF HasReply
  <2>2. CASE ~(a = p /\ b = q)
    <3>1. deserializers'[a][b] = deserializers[a][b]
      BY <1>3, <2>2
    <3> QED
      BY <1>3, <3>1
  <2> QED
    BY <2>1, <2>2
<1> QED
  BY <1>3, <1>7, UnchangedReplyTasks, ReplyInvKept

\* The Send below gets its turn, and a DispatchReplies of its own.
LEMMA PopSendReplies ==
  ASSUME TypeOK, TypeOK', ReplyInv, NEW p \in Proc, PopSend(p)
  PROVE  ReplyInv'
<1> DEFINE q == Top(p).peer
           t == IpcCall("replies", p)
<1>1. stack[p] # <<>>
  BY TopAtType DEF PopSend
<1>2. q \in Proc
  BY <1>1, TopType DEF Frame
<1>3. /\ deserializers' = [deserializers EXCEPT ![p][q] = Front(@)]
      /\ UNCHANGED received_replies /\ PostIpc(p, t)
      /\ deserializers \in [Proc -> [Proc -> Seq(PendingSyncMsg)]]
  BY DEF PopSend, queueVars, TypeOK
<1>4. t \in ReplyTasks
  BY DEF ReplyTasks, IpcCall, IpcTask, NoMessage, Reply, Message
<1> HIDE DEF q, t
<1>5. ASSUME NEW a \in Proc, NEW b \in Proc, a # p \/ b # q
      PROVE  deserializers'[a][b] = deserializers[a][b]
  BY <1>3, <1>5
<1> SUFFICES ASSUME NEW a \in Proc
             PROVE  Cardinality(Waiting(a)') <= Count(ipc_loop'[a], ReplyTasks)
  BY DEF ReplyInv
<1>6. Cardinality(Waiting(a)) <= Count(ipc_loop[a], ReplyTasks)
  BY DEF ReplyInv
<1>7. CASE a = p
  <2>1. Waiting(a)' \in SUBSET (Waiting(a) \cup {q})
    BY <1>3, <1>5 DEF Waiting
  <2>2. /\ IsFiniteSet(Waiting(a) \cup {q})
        /\ Cardinality(Waiting(a) \cup {q}) =
             IF q \in Waiting(a) THEN Cardinality(Waiting(a)) ELSE Cardinality(Waiting(a)) + 1
    BY WaitingType, FS_AddElement
  <2>3. Cardinality(Waiting(a)') <= Cardinality(Waiting(a) \cup {q})
    BY <2>1, <2>2, FS_Subset
  <2>4. Count(ipc_loop'[a], ReplyTasks) = Count(ipc_loop[a], ReplyTasks) + 1
    BY <1>3, <1>4, <1>7, PostIpcCount
  <2> QED
    BY <1>6, <2>2, <2>3, <2>4, WaitingType
<1>8. CASE a # p
  <2>1. Cardinality(Waiting(a)') <= Cardinality(Waiting(a))
    <3>1. \A b \in Proc : deserializers'[a][b] = deserializers[a][b]
      BY <1>5, <1>8
    <3>2. received_replies'[a] = received_replies[a]
      BY <1>3
    <3>3. Waiting(a)' \in SUBSET Waiting(a)
      BY <3>1, <3>2 DEF Waiting
    <3> QED
      BY <3>3, WaitingType, FS_Subset
  <2>2. Count(ipc_loop'[a], ReplyTasks) = Count(ipc_loop[a], ReplyTasks)
    <3>1. ipc_loop \in [Proc -> Seq(IpcTask)]
      BY DEF TypeOK
    <3>2. ipc_loop'[a] = ipc_loop[a]
      BY <1>3, <1>8, <3>1 DEF PostIpc
    <3> QED
      BY <3>2
  <2> QED
    BY <1>6, <2>1, <2>2, WaitingType
<1> QED
  BY <1>7, <1>8

\* DispatchReplies finds no reply, or leaves one Send less with a reply: it has
\* only one.
LEMMA DispatchRepliesReplies ==
  ASSUME TypeOK, TypeOK', CopyInv, ReplyInv, SameEntries, NEW p \in Proc,
         ipc_loop[p] # <<>>, TakeIpcTask(p), RunDispatchReplies(p)
  PROVE  ReplyInv'
<1>1. NextIpcTask(p) \in ReplyTasks
  BY TakeIpcTaskType DEF RunDispatchReplies, ReplyTasks
<1>2. \A r \in Proc : Count(ipc_loop'[r], ReplyTasks) =
        IF r = p THEN Count(ipc_loop[r], ReplyTasks) - 1 ELSE Count(ipc_loop[r], ReplyTasks)
  BY <1>1, TakeIpcCount
<1>3. \A r \in Proc : Cardinality(Waiting(r)) <= Count(ipc_loop[r], ReplyTasks)
  BY DEF ReplyInv
<1>4. CASE Deliverable(p) = {}
  <2>1. NoNewReplies
    BY <1>4, SameReplies DEF RunDispatchReplies
  <2>2. Waiting(p) = {}
    <3> SUFFICES ASSUME NEW q \in Waiting(p) PROVE FALSE
      OBVIOUS
    <3>1. PICK i \in DOMAIN received_replies[p] :
                 received_replies[p][i] \in Kept(q, Last(deserializers[p][q]).id)
      BY DEF Waiting, HasReply
    <3>2. i \in Deliverable(p)
      BY <3>1 DEF Waiting, HasReply, Deliverable, Unblocks, Kept, Replies
    <3> QED
      BY <1>4, <3>2
  <2> SUFFICES ASSUME NEW r \in Proc
               PROVE  Cardinality(Waiting(r)') <= Count(ipc_loop'[r], ReplyTasks)
    BY DEF ReplyInv
  <2>3. Waiting(r)' \in SUBSET Waiting(r)
    BY <2>1 DEF Waiting, NoNewReplies
  <2>4. Cardinality(Waiting(r)') <= Cardinality(Waiting(r))
    BY <2>3, WaitingType, FS_Subset
  <2>5. CASE r = p
    <3>1. Cardinality(Waiting(r)') = 0
      BY <2>2, <2>3, <2>5, FS_EmptySet
    <3> QED
      BY <3>1, WaitingType
  <2>6. CASE r # p
    BY <1>2, <1>3, <2>4, <2>6, WaitingType
  <2> QED
    BY <2>5, <2>6
<1>5. CASE Deliverable(p) # {}
  <2>1. PICK i \in Deliverable(p) :
               received_replies' = [received_replies EXCEPT ![p] = RemoveAt(@, i)]
    BY <1>5 DEF RunDispatchReplies
  <2> DEFINE b == received_replies[p][i].peer
             id == Last(deserializers[p][b]).id
  <2>2. /\ i \in DOMAIN received_replies[p] /\ received_replies[p] \in Seq(QueuedReply)
        /\ received_replies[p][i] \in QueuedReply /\ b \in Proc
    <3>1. i \in DOMAIN received_replies[p] /\ received_replies[p] \in Seq(QueuedReply)
      BY DEF Deliverable, TypeOK
    <3>2. received_replies[p][i] \in QueuedReply
      BY <3>1
    <3> QED
      BY <3>1, <3>2 DEF QueuedReply
  <2>3. Unblocks(p, b, received_replies[p][i].msg)
    BY DEF Deliverable
  <2>4. deserializers[p][b] # <<>> /\ received_replies[p][i] \in Kept(b, id)
    BY <2>2, <2>3 DEF Unblocks, Kept, Replies, QueuedReply
  <2>5. id \in Nat
    <3> HIDE DEF b
    <3>0. deserializers \in [Proc -> [Proc -> Seq(PendingSyncMsg)]]
      BY DEF TypeOK
    <3>1. deserializers[p][b] \in Seq(PendingSyncMsg)
      BY <2>2, <3>0
    <3>2. Last(deserializers[p][b]) \in PendingSyncMsg
      BY <2>4, <3>1, LastType
    <3> QED
      BY <3>2 DEF PendingSyncMsg
  <2>6. b \in Waiting(p)
    BY <2>2, <2>4 DEF Waiting, HasReply
  <2>7. ReplyKept(p, b, id) <= 1
    <3> HIDE DEF id, b
    <3>1. Copies(p, b, id) <= 1
      BY <2>2, <2>5 DEF CopyInv
    <3>2. Numbers(p, b, id)
      BY <2>2, <2>5, AllNumbers
    <3> QED
      BY <3>1, <3>2 DEF Copies, Numbers
  <2> HIDE DEF b
  <2>8. ASSUME NEW r \in Proc, NEW M
        PROVE  /\ Count(received_replies[r], M) \in Nat /\ Count(received_replies'[r], M) \in Nat
               /\ Count(received_replies'[r], M) <=
                    IF r = p /\ received_replies[p][i] \in M THEN Count(received_replies[r], M) - 1
                                                             ELSE Count(received_replies[r], M)
    <3>1. received_replies[r] \in Seq(QueuedReply)
      BY DEF TypeOK
    <3>2. received_replies'[r] \in Seq(QueuedReply)
      BY DEF TypeOK
    <3>3. Count(received_replies'[r], M) <=
            IF r = p /\ received_replies[p][i] \in M THEN Count(received_replies[r], M) - 1
                                                     ELSE Count(received_replies[r], M)
      BY <2>1, <2>2, RemoveReplyCount
    <3> QED
      BY <3>1, <3>2, <3>3, CountType
  <2>9. ASSUME NEW a \in Proc, NEW c \in Proc,
               HasReply(deserializers'[a][c], received_replies'[a], c)
        PROVE  HasReply(deserializers[a][c], received_replies[a], c) /\ (a = p => c # b)
    <3> DEFINE n == Last(deserializers[a][c]).id
    <3>1. received_replies[a] \in Seq(QueuedReply)
      BY DEF TypeOK
    <3>2. received_replies'[a] \in Seq(QueuedReply)
      BY DEF TypeOK
    <3>3. /\ deserializers'[a][c] # <<>>
          /\ Count(received_replies'[a], Kept(c, Last(deserializers'[a][c]).id)) # 0
      BY <2>9, <3>2, HasReplyCount
    <3>4. deserializers[a][c] # <<>> /\ Last(deserializers'[a][c]).id = n
      BY <3>3, LastSame
    <3> HIDE DEF n
    <3>5. Count(received_replies'[a], Kept(c, n)) # 0
      BY <3>3, <3>4
    <3>6. Count(received_replies[a], Kept(c, n)) # 0
      BY <2>8, <3>5
    <3>7. ASSUME a = p, c = b PROVE FALSE
      <4>1. n = id
        BY <3>7 DEF n
      <4>2. received_replies[p][i] \in Kept(c, n)
        BY <2>4, <3>7, <4>1
      <4>3. Count(received_replies'[p], Kept(c, n)) <= Count(received_replies[p], Kept(c, n)) - 1
        BY <2>8, <4>2
      <4>4. Count(received_replies[p], Kept(c, n)) <= 1
        BY <2>7, <3>7, <4>1 DEF ReplyKept
      <4>5. Count(received_replies[p], Kept(c, n)) \in Nat
              /\ Count(received_replies'[p], Kept(c, n)) \in Nat
        BY <2>8
      <4>6. Count(received_replies'[p], Kept(c, n)) # 0
        BY <3>5, <3>7
      <4> QED
        BY <4>3, <4>4, <4>5, <4>6
    <3>8. HasReply(deserializers[a][c], received_replies[a], c)
      BY <3>1, <3>4, <3>6, HasReplyCount DEF n
    <3> QED
      BY <3>7, <3>8
  <2> SUFFICES ASSUME NEW r \in Proc
               PROVE  Cardinality(Waiting(r)') <= Count(ipc_loop'[r], ReplyTasks)
    BY DEF ReplyInv
  <2>10. CASE r = p
    <3>1. Waiting(p)' \in SUBSET (Waiting(p) \ {b})
      BY <2>9 DEF Waiting
    <3>2. /\ IsFiniteSet(Waiting(p) \ {b})
          /\ Cardinality(Waiting(p) \ {b}) = Cardinality(Waiting(p)) - 1
      BY <2>6, WaitingType, FS_RemoveElement
    <3>3. Cardinality(Waiting(p)') <= Cardinality(Waiting(p) \ {b})
      BY <3>1, <3>2, FS_Subset
    <3> QED
      BY <1>2, <1>3, <2>10, <3>2, <3>3, WaitingType
  <2>11. CASE r # p
    <3>1. Waiting(r)' \in SUBSET Waiting(r)
      BY <2>9 DEF Waiting
    <3>2. Cardinality(Waiting(r)') <= Cardinality(Waiting(r))
      BY <3>1, WaitingType, FS_Subset
    <3> QED
      BY <1>2, <1>3, <2>11, <3>2, WaitingType
  <2> QED
    BY <2>10, <2>11
<1> QED
  BY <1>4, <1>5

LEMMA RunIpcTaskReplies ==
  ASSUME TypeOK, TypeOK', CopyInv, ReplyInv, NEW p \in Proc, RunIpcTask(p)
  PROVE  ReplyInv'
<1>1. ipc_loop[p] # <<>> /\ TakeIpcTask(p) /\ SameEntries
  BY RunIpcTaskEntries DEF RunIpcTask
<1>2. CASE RunDispatchReplies(p)
  BY <1>1, <1>2, DispatchRepliesReplies
<1>3. CASE RunSendTask(p) \/ RunCloseTask(p) \/ RunShutdownTask(p)
  <2>1. NextIpcTask(p).kind # "replies" /\ UNCHANGED received_replies
    BY <1>3 DEF RunSendTask, RunCloseTask, RunShutdownTask
  <2> QED
    BY <1>1, <2>1, SameReplies, UnchangedReplyTasks, ReplyInvKept
<1> QED
  BY <1>2, <1>3 DEF RunIpcTask

\* A reply that is kept is not for the last Send of its context.
LEMMA ReceiveReplies ==
  ASSUME TypeOK, TypeOK', ReplyInv, NEW p \in Proc, NEW q \in Proc, Receive(p, q)
  PROVE  ReplyInv'
<1> DEFINE m == Head(pipe[q][p])
           e == [peer |-> q, msg |-> m]
<1>1. SameEntries /\ UNCHANGED ipc_loop
  BY ReceiveEntries DEF Receive
<1>2. ReplyTasksStay
  BY <1>1, UnchangedReplyTasks
<1>3. CASE UNCHANGED received_replies
  BY <1>1, <1>2, <1>3, SameReplies, ReplyInvKept
<1>4. CASE /\ ~Unblocks(p, q, m) /\ m.kind = "reply" /\ UNCHANGED deserializers
           /\ received_replies' = [received_replies EXCEPT ![p] = Append(@, e)]
  <2>1. /\ received_replies \in [Proc -> Seq(QueuedReply)]
        /\ received_replies[p] \in Seq(QueuedReply)
    BY DEF TypeOK
  <2>2. ASSUME NEW a \in Proc, NEW b \in Proc,
               HasReply(deserializers'[a][b], received_replies'[a], b)
        PROVE  HasReply(deserializers[a][b], received_replies[a], b)
    <3>1. deserializers'[a][b] = deserializers[a][b]
      BY <1>4
    <3>2. CASE a # p
      <4>1. received_replies'[a] = received_replies[a]
        BY <1>4, <2>1, <3>2
      <4> QED
        BY <2>2, <3>1, <4>1
    <3>3. CASE a = p
      <4> DEFINE M == Kept(b, Last(deserializers[p][b]).id)
                 s == received_replies[p]
      <4>1. received_replies'[p] = Append(s, e)
        BY <1>4, <2>1
      <4>2. e \notin M \/ deserializers[p][b] = <<>>
        BY <1>4 DEF Unblocks, Kept, Replies
      <4>3. deserializers[p][b] # <<>> /\ \E i \in DOMAIN Append(s, e) : Append(s, e)[i] \in M
        BY <2>2, <3>1, <3>3, <4>1 DEF HasReply
      <4> HIDE DEF M, s, e
      <4>4. PICK i \in DOMAIN Append(s, e) : Append(s, e)[i] \in M
        BY <4>3
      <4>5. s \in Seq(QueuedReply)
        BY <2>1 DEF s
      <4>6. i \in DOMAIN s /\ s[i] \in M
        BY <4>2, <4>3, <4>4, <4>5, AppendProperties
      <4> QED
        BY <3>3, <4>3, <4>6 DEF HasReply, M, s
    <3> QED
      BY <3>2, <3>3
  <2>3. NoNewReplies
    BY <2>2 DEF NoNewReplies
  <2> QED
    BY <1>2, <2>3, ReplyInvKept
<1> QED
  BY <1>3, <1>4 DEF Receive

LEMMA ShutdownReplies ==
  ASSUME TypeOK, NEW p \in Proc, Shutdown(p)
  PROVE  ReplyTasksStay
<1>1. \A q \in Proc : IpcCall("shutdown", q) \notin ReplyTasks
  BY DEF ReplyTasks, IpcCall
<1>2. ASSUME NEW r \in Proc
      PROVE  Count(ipc_loop[r], ReplyTasks) <= Count(ipc_loop'[r], ReplyTasks)
  <2>1. ipc_loop[r] \in Seq(IpcTask)
    BY DEF TypeOK
  <2>2. Count(ipc_loop'[r], ReplyTasks) = Count(ipc_loop[r], ReplyTasks)
    BY <1>1, ShutdownLess
  <2> QED
    BY <2>1, <2>2, CountType
<1> QED
  BY <1>2 DEF ReplyTasksStay

LEMMA NextReplies ==
  ASSUME TypeOK, TypeOK', CopyInv, ReplyInv, [Next]_vars
  PROVE  ReplyInv'
<1>1. ASSUME SameEntries, UNCHANGED received_replies, ReplyTasksStay
      PROVE  ReplyInv'
  BY <1>1, SameReplies, ReplyInvKept
<1>2. ASSUME UNCHANGED <<deserializers, received_replies, ipc_loop>>
      PROVE  ReplyInv'
  BY <1>1, <1>2, UnchangedEntries, UnchangedReplyTasks
<1>3. CASE UNCHANGED vars
  BY <1>2, <1>3 DEF vars, listenerVars, queueVars, loopVars
<1>4. ASSUME NEW p \in Proc, NEW q \in Proc, NEW kind, NEW timed, NEW pumped,
             BeginSend(p, q, kind, timed, pumped)
      PROVE  ReplyInv'
  <2>1. ReplyTasksStay
    BY <1>4, UnchangedReplyTasks DEF BeginSend
  <2> QED
    BY <1>1, <1>4, <2>1, UnchangedEntries DEF BeginSend, queueVars
<1>5. ASSUME NEW p \in Proc, SendStep(p) PROVE ReplyInv'
  <2>1. CASE PostSend(p)
    <3>1. ReplyTasksStay
      BY <2>1, UnchangedReplyTasks DEF PostSend
    <3> QED
      BY <1>1, <2>1, <3>1, UnchangedEntries DEF PostSend, queueVars
  <2>2. CASE WaitReturnsDone(p) \/ WaitReturnsDispatch(p) \/ WaitReturnsPump(p)
    BY <1>2, <2>2 DEF WaitReturnsDone, WaitReturnsDispatch, WaitReturnsPump, queueVars, loopVars
  <2> QED
    BY <1>5, <2>1, <2>2, PushSendReplies, PopSendReplies DEF SendStep
<1>6. ASSUME NEW p \in Proc, DispatchMessage(p) \/ RunTask(p) PROVE ReplyInv'
  BY <1>2, <1>6 DEF DispatchMessage, RunTask, loopVars
<1>7. ASSUME NEW p \in Proc, NEW ok, FinishHandler(p, ok) PROVE ReplyInv'
  <2>1. ReplyTasksStay
    BY <1>7, UnchangedReplyTasks DEF FinishHandler
  <2> QED
    BY <1>1, <1>7, <2>1, UnchangedEntries DEF FinishHandler, queueVars
<1>8. ASSUME NEW p \in Proc, NEW q \in Proc, CloseChannel(p, q) PROVE ReplyInv'
  <2>1. SameEntries
    BY <1>8, CancelSameEntries DEF CloseChannel
  <2>2. ReplyTasksStay
    BY <1>8, UnchangedReplyTasks DEF CloseChannel
  <2> QED
    BY <1>1, <1>8, <2>1, <2>2 DEF CloseChannel
<1>9. ASSUME NEW p \in Proc, NEW q \in Proc, ReadError(p, q) PROVE ReplyInv'
  <2>1. SameEntries
    BY <1>9, CancelSameEntries DEF ReadError, Disconnect
  <2> QED
    BY <1>1, <1>9, <2>1, UnchangedReplyTasks DEF ReadError, queueVars
<1>10. ASSUME NEW p \in Proc, SignalDispatchEvent(p) \/ PostDispatchTask(p) PROVE ReplyInv'
  BY <1>2, <1>10 DEF SignalDispatchEvent, PostDispatchTask, listenerVars, queueVars
<1>11. ASSUME NEW p \in Proc, NEW w \in timers[p], RunTimeout(p, w) PROVE ReplyInv'
  <2>1. SameEntries
    BY <1>11, RunTimeoutEntries
  <2> QED
    BY <1>1, <1>11, <2>1, UnchangedReplyTasks DEF RunTimeout, queueVars
<1>12. ASSUME NEW p \in Proc, Shutdown(p) PROVE ReplyInv'
  BY <1>1, <1>12, ShutdownReplies, UnchangedEntries DEF Shutdown, listenerVars, queueVars
<1>13. ASSUME NEW p \in Proc, Crash(p) PROVE ReplyInv'
  BY <1>2, <1>13 DEF Crash, listenerVars, queueVars, loopVars
<1> QED
  BY <1>3, <1>4, <1>5, <1>6, <1>7, <1>8, <1>9, <1>10, <1>11, <1>12, <1>13,
     RunIpcTaskReplies, ReceiveReplies DEF Next, IpcStep

LEMMA InitReplies ==
  ASSUME Init
  PROVE  ReplyInv
<1> SUFFICES ASSUME NEW p \in Proc
             PROVE  Cardinality(Waiting(p)) <= Count(ipc_loop[p], ReplyTasks)
  BY DEF ReplyInv
<1>1. Waiting(p) = {} /\ ipc_loop[p] = <<>>
  BY DEF Init, Waiting, HasReply
<1> QED
  BY <1>1, FS_EmptySet, CountEmpty

\* Every reply that DispatchReplies would deliver now has a DispatchReplies to
\* come.
LEMMA RepliesCarried ==
  ASSUME TypeOK, ReplyInv
  PROVE  QueuedReplyIsCarried
<1> SUFFICES ASSUME NEW p \in Proc, NEW i \in Deliverable(p)
             PROVE  \E k \in DOMAIN ipc_loop[p] : ipc_loop[p][k].kind = "replies"
  BY DEF QueuedReplyIsCarried
<1> DEFINE b == received_replies[p][i].peer
<1>1. i \in DOMAIN received_replies[p] /\ received_replies[p] \in Seq(QueuedReply)
  BY DEF Deliverable, TypeOK
<1>2. received_replies[p][i] \in QueuedReply
  BY <1>1
<1>3. b \in Proc /\ Unblocks(p, b, received_replies[p][i].msg)
  BY <1>2 DEF QueuedReply, Deliverable
<1>4. received_replies[p][i] \in Kept(b, Last(deserializers[p][b]).id)
  BY <1>2, <1>3 DEF Unblocks, Kept, Replies, QueuedReply
<1>5. b \in Waiting(p)
  BY <1>1, <1>3, <1>4 DEF Waiting, HasReply, Unblocks
<1>6. IsFiniteSet(Waiting(p))
  <2>1. Waiting(p) \in SUBSET Proc
    BY DEF Waiting
  <2> QED
    BY <2>1, ConstantsOK, FS_Subset
<1>7. Cardinality(Waiting(p)) \in Nat \ {0}
  BY <1>5, <1>6, FS_CardinalityType, FS_EmptySet
<1>8. ipc_loop[p] \in Seq(IpcTask)
  BY DEF TypeOK
<1>9. Count(ipc_loop[p], ReplyTasks) \in Nat /\ Count(ipc_loop[p], ReplyTasks) # 0
  <2>1. Count(ipc_loop[p], ReplyTasks) \in Nat
    BY <1>8, CountType
  <2>2. Cardinality(Waiting(p)) <= Count(ipc_loop[p], ReplyTasks)
    BY DEF ReplyInv
  <2> QED
    BY <1>7, <2>1, <2>2
<1>10. At(ipc_loop[p], ReplyTasks) # {}
  BY <1>8, <1>9, CountType
<1> QED
  BY <1>10 DEF At, ReplyTasks

\* A reply that came while its Send did not own the last entry of the context
\* is not forgotten: when the Send owns it again, the IPC thread has a
\* DispatchReplies to run, posted by SyncContext::Pop, that finds the reply.
THEOREM QueuedRepliesAreCarried == Spec => []QueuedReplyIsCarried
<1> DEFINE Inv == TypeOK /\ StackInv /\ CopyInv /\ ReplyInv
<1>1. Init => Inv
  BY InitType, InitStackInv, InitCopies, InitReplies
<1>2. Inv /\ [Next]_vars => Inv'
  <2> SUFFICES ASSUME Inv, [Next]_vars PROVE Inv'
    OBVIOUS
  <2>1. TypeOK'
    BY StackInvOwns, NextType
  <2>2. StackInv'
    BY NextStackInv
  <2>3. CopyInv'
    BY <2>1, NextCopies
  <2>4. ReplyInv'
    BY <2>1, NextReplies
  <2> QED
    BY <2>1, <2>2, <2>3, <2>4
<1>3. Inv => QueuedReplyIsCarried
  BY RepliesCarried
<1> QED
  BY <1>1, <1>2, <1>3, PTL DEF Spec

=============================================================================
