------------------------- MODULE MessageLoopsProofs -------------------------
(***************************************************************************)
(* Theorems about MessageLoops, for every value of its constants: types,   *)
(* that no task is lost or run twice, that tasks are run in order, and     *)
(* that a sleeping pump wakes for the next delayed task.  They are one     *)
(* induction, on IInv.                                                     *)
(***************************************************************************)
EXTENDS MessageLoops, SequencesExt, SequenceTheorems, FiniteSetTheorems, TLAPS

----------------------------------------------------------------------------
(* The inductive invariant: types.                                         *)

RunFrame ==
  [op : {"run"}, point : {"work", "delayed", "idle", "sleep"}, did_work : BOOLEAN,
   quit : BOOLEAN]

TaskFrame == [op : {"task"}, id : Nat]

PostedTask == [nestable : BOOLEAN, time : 0 .. MaxTime, flag : Nat]

\* The frames of calls that tasks and other threads make.
CallFrame ==
  [op : {"post"}, task : PostedTask]
    \cup [op : {"signal", "start"}, ev : Event]
    \cup [op : {"fire"}, ev : Event, woke : BOOLEAN]
    \cup [op : {"wait"}, ev : Event, until : Nat, point : {"asleep", "timed out", "woken"}]
    \cup [op : {"many"}, todo : Seq(Event), held : Seq(Event),
          point : {"lock", "asleep", "leave"}]

Frame == RunFrame \cup TaskFrame \cup CallFrame

\* What may be called by what: tasks by Run, which then begins another round, and
\* Run by tasks.  A thread that waits calls nothing.
Calls(lower, upper) ==
  /\ lower.op \notin {"wait", "many"}
  /\ upper.op = "run" => lower.op = "task"
  /\ upper.op = "task" => lower.op = "run"
  /\ lower.op = "run" => lower.did_work \/ lower.point = "work"

StackOK(t, s) ==
  /\ s \in Seq(Frame)
  /\ \A i, j \in 1 .. Len(s) : j = i + 1 => Calls(s[i], s[j])
  /\ t = Loop => s = <<>> \/ s[1].op = "run"
  /\ t # Loop => \A i \in 1 .. Len(s) : s[i] \in CallFrame

StacksOK ==
  /\ stack \in [Thread -> Seq(Frame)]
  /\ \A t \in Thread : StackOK(t, stack[t])

\* Waiters, watchers and tasks have Flags that were given out.
FlagsOK ==
  /\ \A w \in Watcher : cancel_flag[w] <= starts
  /\ \A e \in Event : \A i \in 1 .. Len(waiters[e]) : waiters[e][i].flag <= starts
  /\ \A t \in Thread : \A i \in 1 .. Len(stack[t]) :
       stack[t][i].op = "post" => stack[t][i].task.flag <= starts

LeftOK ==
  /\ DOMAIN left = Thread
  /\ \E b \in Budgets : \A t \in Thread : left[t] \in [DOMAIN b[t] -> Nat]

TasksOK ==
  /\ tasks \in Seq(PostedTask)
  /\ \A i \in Number : tasks[i].flag <= starts

QueuesOK ==
  /\ incoming \in Seq(Number) /\ work \in Seq(Number)
  /\ delayed \in Seq(Number) /\ deferred \in Seq(Number)

TypesOK ==
  /\ EventTypeOK /\ StacksOK /\ FlagsOK
  /\ TasksOK /\ QueuesOK /\ LeftOK
  /\ nestable_allowed \in BOOLEAN /\ keep_running \in BOOLEAN
  /\ delayed_time \in 0 .. MaxTime /\ recent_time \in 0 .. now
  /\ started \subseteq Number

----------------------------------------------------------------------------
(* The inductive invariant: the queues and the pump.                       *)

Distinct(q) == \A i, j \in 1 .. Len(q) : q[i] = q[j] => i = j
Increasing(q) == \A i, j \in 1 .. Len(q) : i < j => q[i] < q[j]

\* Every task is in exactly one place.
Partition ==
  /\ Distinct(incoming) /\ Distinct(work) /\ Distinct(delayed) /\ Distinct(deferred)
  /\ Number \subseteq ToSet(incoming) \cup ToSet(work) \cup ToSet(delayed)
                        \cup ToSet(deferred) \cup started
  /\ ToSet(incoming) \cap ToSet(work) = {}
  /\ (ToSet(incoming) \cup ToSet(work)) \cap ToSet(delayed) = {}
  /\ (ToSet(incoming) \cup ToSet(work) \cup ToSet(delayed)) \cap ToSet(deferred) = {}
  /\ (ToSet(incoming) \cup ToSet(work) \cup ToSet(delayed) \cup ToSet(deferred))
        \cap started = {}

\* Tasks are taken in the order posted; what was taken and was not delayed is
\* older than what was not taken yet.
Order ==
  /\ Increasing(incoming) /\ Increasing(work)
  /\ \A i \in ToSet(work), j \in ToSet(incoming) : i < j
  /\ \A i \in ToSet(delayed) : tasks[i].time # 0
  /\ \A i \in ToSet(deferred) : ~tasks[i].nestable
  /\ \A i \in started \cup ToSet(deferred), j \in ToSet(work) \cup ToSet(incoming) :
       tasks[i].time = 0 => i < j

\* The pump was told when the next delayed task is due: once it has looked for
\* delayed tasks, until it sleeps.
PumpTold ==
  stack[Loop] # <<>> /\ delayed # <<>> /\ nestable_allowed =>
    /\ Top(Loop).op = "run" /\ Top(Loop).point \in {"idle", "sleep"} /\ ~Top(Loop).did_work =>
         delayed_time = tasks[Head(delayed)].time
    /\ Top(Loop).op = "wait" /\ Top(Loop).ev = Pump =>
         Top(Loop).until # 0 /\ Top(Loop).until <= tasks[Head(delayed)].time

IInv == TypesOK /\ Partition /\ Order /\ PumpTold

----------------------------------------------------------------------------
(* Frames and stacks.                                                      *)

LEMMA FrameFields ==
  ASSUME NEW f \in Frame
  PROVE  /\ f.op \in {"run", "task", "post", "signal", "start", "fire", "wait", "many"}
         /\ f.op = "run" => f \in RunFrame
         /\ f.op = "task" => f \in TaskFrame
         /\ f.op = "post" => f \in [op : {"post"}, task : PostedTask]
         /\ f.op \in {"signal", "start"} => f \in [op : {"signal", "start"}, ev : Event]
         /\ f.op = "fire" => f \in [op : {"fire"}, ev : Event, woke : BOOLEAN]
         /\ f.op = "wait" => f \in [op : {"wait"}, ev : Event, until : Nat,
                                    point : {"asleep", "timed out", "woken"}]
         /\ f.op = "many" => f \in [op : {"many"}, todo : Seq(Event), held : Seq(Event),
                                    point : {"lock", "asleep", "leave"}]
         /\ f.op \notin {"run", "task"} <=> f \in CallFrame
  BY DEF Frame, RunFrame, TaskFrame, CallFrame

\* A stack without its top.
LEMMA PopProperties ==
  ASSUME NEW S, NEW s \in Seq(S), s # <<>>
  PROVE  LET p == SubSeq(s, 1, Len(s) - 1)
         IN  /\ p \in Seq(S) /\ Len(p) = Len(s) - 1 /\ Len(s) \in Nat \ {0}
             /\ \A i \in 1 .. Len(p) : p[i] = s[i]
<1>1. Len(s) \in Nat \ {0}
  BY EmptySeq, LenProperties
<1> DEFINE n == Len(s) - 1
<1>2. n \in Int /\ 1 \in Int
  BY <1>1
<1>3. \A i \in 1 .. n : s[i] \in S
  <2> TAKE i \in 1 .. n
  <2>1. i \in 1 .. Len(s)
    BY <1>1
  <2> QED
    BY <2>1, ElementOfSeq
<1>4. /\ SubSeq(s, 1, n) \in Seq(S) /\ Len(SubSeq(s, 1, n)) = (IF 1 <= n THEN n - 1 + 1 ELSE 0)
      /\ \A i \in 1 .. n - 1 + 1 : SubSeq(s, 1, n)[i] = s[1 + i - 1]
  BY <1>2, <1>3, SubSeqProperties
<1>a. n \in Nat
  BY <1>1
<1>b. Len(SubSeq(s, 1, n)) = (IF 1 <= n THEN n - 1 + 1 ELSE 0)
  BY <1>4
<1> HIDE DEF n
<1>5. Len(SubSeq(s, 1, n)) = n
  BY <1>a, <1>b
<1>6. \A i \in 1 .. n : SubSeq(s, 1, n)[i] = s[i]
  BY <1>2, <1>4
<1> QED
  BY <1>1, <1>4, <1>5, <1>6 DEF n

\* Its top replaced.
LEMMA GoToProperties ==
  ASSUME NEW S, NEW s \in Seq(S), s # <<>>, NEW f \in S
  PROVE  LET g == Append(SubSeq(s, 1, Len(s) - 1), f)
         IN  /\ g \in Seq(S) /\ Len(g) = Len(s) /\ Len(s) \in Nat \ {0} /\ g # <<>>
             /\ g[Len(s)] = f
             /\ \A i \in 1 .. Len(s) - 1 : g[i] = s[i]
<1> DEFINE p == SubSeq(s, 1, Len(s) - 1)
<1>1. p \in Seq(S) /\ Len(p) = Len(s) - 1 /\ Len(s) \in Nat \ {0}
      /\ \A i \in 1 .. Len(p) : p[i] = s[i]
  BY PopProperties
<1> HIDE DEF p
<1>2. /\ Append(p, f) \in Seq(S) /\ Len(Append(p, f)) = Len(p) + 1
      /\ \A i \in 1 .. Len(p) : Append(p, f)[i] = p[i]
      /\ Append(p, f)[Len(p) + 1] = f
  BY <1>1, AppendProperties
<1>3. Append(p, f) # <<>>
  BY <1>1, <1>2
<1> QED
  BY <1>1, <1>2, <1>3 DEF p

LEMMA PushProperties ==
  ASSUME NEW S, NEW s \in Seq(S), NEW f \in S
  PROVE  /\ Append(s, f) \in Seq(S) /\ Len(Append(s, f)) = Len(s) + 1 /\ Len(s) \in Nat
         /\ Append(s, f) # <<>>
         /\ Append(s, f)[Len(s) + 1] = f
         /\ \A i \in 1 .. Len(s) : Append(s, f)[i] = s[i]
<1>1. Len(s) \in Nat
  BY LenProperties
<1>2. /\ Append(s, f) \in Seq(S) /\ Len(Append(s, f)) = Len(s) + 1
      /\ \A i \in 1 .. Len(s) : Append(s, f)[i] = s[i]
      /\ Append(s, f)[Len(s) + 1] = f
  BY AppendProperties
<1> QED
  BY <1>1, <1>2

LEMMA PushIsConcat ==
  ASSUME NEW S, NEW s \in Seq(S), NEW f \in S, NEW g \in S
  PROVE  /\ s \o <<>> = s
         /\ s \o <<f>> = Append(s, f)
         /\ s \o <<f, g>> = Append(Append(s, f), g)
  OBVIOUS

LEMMA StackPop ==
  ASSUME NEW t, NEW s, StackOK(t, s), s # <<>>
  PROVE  StackOK(t, SubSeq(s, 1, Len(s) - 1))
<1> DEFINE p == SubSeq(s, 1, Len(s) - 1)
<1>0. s \in Seq(Frame)
  BY DEF StackOK
<1>1. p \in Seq(Frame) /\ Len(p) = Len(s) - 1 /\ Len(s) \in Nat \ {0}
      /\ \A i \in 1 .. Len(p) : p[i] = s[i]
  BY <1>0, PopProperties
<1> HIDE DEF p
<1>2. \A i, j \in 1 .. Len(p) : j = i + 1 => Calls(p[i], p[j])
  BY <1>1 DEF StackOK
<1>3. t = Loop => p = <<>> \/ p[1].op = "run"
  <2>1. CASE Len(p) = 0
    BY <1>1, <2>1, EmptySeq
  <2>2. CASE Len(p) # 0
    <3>1. 1 \in 1 .. Len(p)
      BY <1>1, <2>2
    <3> QED
      BY <1>1, <3>1 DEF StackOK
  <2> QED
    BY <2>1, <2>2
<1>4. t # Loop => \A i \in 1 .. Len(p) : p[i] \in CallFrame
  BY <1>1 DEF StackOK
<1>5. StackOK(t, p)
  BY <1>1, <1>2, <1>3, <1>4 DEF StackOK
<1> QED
  BY <1>5 DEF p

\* A call puts a frame on top.
LEMMA StackPush ==
  ASSUME NEW t, NEW s, StackOK(t, s), NEW f \in Frame,
         s # <<>> => Calls(s[Len(s)], f),
         f \notin CallFrame => t = Loop,
         t = Loop => s # <<>> \/ f.op = "run"
  PROVE  StackOK(t, Append(s, f))
<1>0. s \in Seq(Frame)
  BY DEF StackOK
<1>1. /\ Append(s, f) \in Seq(Frame) /\ Len(Append(s, f)) = Len(s) + 1 /\ Len(s) \in Nat
      /\ Append(s, f)[Len(s) + 1] = f
      /\ \A i \in 1 .. Len(s) : Append(s, f)[i] = s[i]
  BY <1>0, PushProperties
<1>2. ASSUME NEW i \in 1 .. Len(Append(s, f)), NEW j \in 1 .. Len(Append(s, f)), j = i + 1
      PROVE  Calls(Append(s, f)[i], Append(s, f)[j])
  <2>1. CASE j = Len(s) + 1
    <3>1. i = Len(s) /\ i \in 1 .. Len(s)
      BY <1>1, <1>2, <2>1
    <3>2. s # <<>>
      BY <3>1
    <3> QED
      BY <1>1, <2>1, <3>1, <3>2
  <2>2. CASE j # Len(s) + 1
    <3>1. i \in 1 .. Len(s) /\ j \in 1 .. Len(s)
      BY <1>1, <1>2, <2>2
    <3> QED
      BY <1>1, <1>2, <3>1 DEF StackOK
  <2> QED
    BY <2>1, <2>2
<1>3. t = Loop => Append(s, f)[1].op = "run"
  <2>1. CASE Len(s) = 0
    <3>1. s = <<>>
      BY <1>0, <2>1, EmptySeq
    <3> QED
      BY <1>1, <2>1, <3>1
  <2>2. CASE Len(s) # 0
    <3>1. 1 \in 1 .. Len(s) /\ s # <<>>
      BY <1>1, <2>2
    <3> QED
      BY <1>1, <3>1 DEF StackOK
  <2> QED
    BY <2>1, <2>2
<1>4. t # Loop => \A i \in 1 .. Len(Append(s, f)) : Append(s, f)[i] \in CallFrame
  <2> SUFFICES ASSUME t # Loop, NEW i \in 1 .. Len(Append(s, f))
               PROVE  Append(s, f)[i] \in CallFrame
    OBVIOUS
  <2>1. i = Len(s) + 1 \/ i \in 1 .. Len(s)
    BY <1>1
  <2> QED
    BY <1>1, <2>1 DEF StackOK
<1> QED
  BY <1>1, <1>2, <1>3, <1>4 DEF StackOK

\* The frame on top changes.
LEMMA StackGoTo ==
  ASSUME NEW t, NEW s, StackOK(t, s), s # <<>>, NEW f \in Frame,
         f.op = s[Len(s)].op \/ (f \in CallFrame /\ s[Len(s)] \in CallFrame)
  PROVE  StackOK(t, Append(SubSeq(s, 1, Len(s) - 1), f))
<1> DEFINE p == SubSeq(s, 1, Len(s) - 1)
<1>0. s \in Seq(Frame)
  BY DEF StackOK
<1>1. p \in Seq(Frame) /\ Len(p) = Len(s) - 1 /\ Len(s) \in Nat \ {0}
      /\ \A i \in 1 .. Len(p) : p[i] = s[i]
  BY <1>0, PopProperties
<1>2. StackOK(t, p)
  BY StackPop
<1> HIDE DEF p
<1>3. s[Len(s)] \in Frame
  BY <1>0, <1>1, ElementOfSeq
<1>4. f \notin CallFrame => f.op = s[Len(s)].op
  OBVIOUS
<1>5. f \notin CallFrame => s[Len(s)] \notin CallFrame
  BY <1>3, <1>4, FrameFields
<1>6. p # <<>> => Calls(p[Len(p)], f)
  <2> SUFFICES ASSUME p # <<>> PROVE Calls(p[Len(p)], f)
    OBVIOUS
  <2>1. Len(p) # 0
    BY <1>1, EmptySeq
  <2>2. Len(p) \in 1 .. Len(s) /\ Len(s) \in 1 .. Len(s) /\ Len(s) = Len(p) + 1
        /\ Len(p) \in 1 .. Len(p)
    BY <1>1, <2>1
  <2>3. Calls(s[Len(p)], s[Len(s)])
    BY <2>2 DEF StackOK
  <2>4. p[Len(p)] = s[Len(p)]
    BY <1>1, <2>2
  <2>5. f.op = s[Len(s)].op \/ f.op \notin {"run", "task"}
    BY FrameFields
  <2> QED
    BY <2>3, <2>4, <2>5 DEF Calls
<1>7. f \notin CallFrame => t = Loop
  BY <1>1, <1>5 DEF StackOK
<1>8. t = Loop => p # <<>> \/ f.op = "run"
  <2> SUFFICES ASSUME t = Loop, p = <<>> PROVE f.op = "run"
    OBVIOUS
  <2>1. Len(s) = 1
    BY <1>1
  <2>2. s[1].op = "run"
    BY DEF StackOK
  <2>3. s[Len(s)].op = "run" /\ s[Len(s)] \notin CallFrame
    BY <2>1, <2>2, <1>3, FrameFields
  <2> QED
    BY <2>3
<1>9. StackOK(t, Append(p, f))
  BY <1>2, <1>6, <1>7, <1>8, StackPush
<1> QED
  BY <1>9 DEF p

----------------------------------------------------------------------------
(* What a thread that is in a call does to its stack.                      *)

\* It stays in the call, leaves it, goes on to another, or posts from it.
EventMove(s, n) ==
  /\ s # <<>> /\ s[Len(s)] \in CallFrame
  /\ \/ n = s
     \/ n = SubSeq(s, 1, Len(s) - 1)
     \/ \E f \in CallFrame :
          /\ f.op # "post"
          /\ f.op = "wait" => /\ s[Len(s)].op = "wait" /\ f.ev = s[Len(s)].ev
                              /\ f.until = s[Len(s)].until
          /\ n = Append(SubSeq(s, 1, Len(s) - 1), f)
     \/ \E f, g \in CallFrame :
          /\ f.op = "fire" /\ g.op = "post" /\ g.task.flag <= starts
          /\ n = Append(Append(SubSeq(s, 1, Len(s) - 1), f), g)

LEMMA EventMoveKeepsStack ==
  ASSUME NEW t, NEW s, NEW n, StackOK(t, s), EventMove(s, n)
  PROVE  StackOK(t, n)
<1> DEFINE p == SubSeq(s, 1, Len(s) - 1)
<1>0. s # <<>> /\ s[Len(s)] \in CallFrame
  BY DEF EventMove
<1>1. CASE n = s
  BY <1>1
<1>2. CASE n = p
  BY <1>0, <1>2, StackPop
<1>3. ASSUME NEW f \in CallFrame, n = Append(p, f)
      PROVE  StackOK(t, n)
  <2>1. f \in Frame
    BY DEF Frame
  <2> QED
    BY <1>0, <1>3, <2>1, StackGoTo
<1>4. ASSUME NEW f \in CallFrame, NEW g \in CallFrame, f.op = "fire", g.op = "post",
             n = Append(Append(p, f), g)
      PROVE  StackOK(t, n)
  <2>1. f \in Frame /\ g \in Frame
    BY DEF Frame
  <2> DEFINE m == Append(p, f)
  <2>2. StackOK(t, m)
    BY <1>0, <2>1, StackGoTo
  <2>3. s \in Seq(Frame)
    BY DEF StackOK
  <2>4. Len(m) = Len(s) /\ m[Len(s)] = f /\ m # <<>>
    BY <1>0, <2>1, <2>3, GoToProperties
  <2>5. Calls(m[Len(m)], g)
    BY <1>4, <2>4 DEF Calls
  <2> HIDE DEF m
  <2>6. StackOK(t, Append(m, g))
    BY <2>1, <2>2, <2>4, <2>5, StackPush
  <2> QED
    BY <1>4, <2>6 DEF m
<1> QED
  BY <1>1, <1>2, <1>3, <1>4 DEF EventMove

LEMMA TopIsFrame ==
  ASSUME StacksOK, NEW t \in Thread, stack[t] # <<>>
  PROVE  Top(t) \in Frame /\ Len(stack[t]) \in 1 .. Len(stack[t])
<1>1. stack[t] \in Seq(Frame)
  BY DEF StacksOK
<1>2. Len(stack[t]) \in Nat \ {0}
  BY <1>1, PopProperties
<1> QED
  BY <1>1, <1>2, ElementOfSeq DEF Top

\* The forms an action uses.
LEMMA ReturnMoves ==
  ASSUME StacksOK, NEW t \in Thread, stack[t] # <<>>, Top(t) \in CallFrame, Return(t)
  PROVE  \E n : stack' = [stack EXCEPT ![t] = n] /\ EventMove(stack[t], n)
  BY DEF Return, Below, EventMove, Top

LEMMA GoToMoves ==
  ASSUME StacksOK, NEW t \in Thread, stack[t] # <<>>, Top(t) \in CallFrame,
         NEW f \in CallFrame, f.op \notin {"post", "wait"}, GoTo(t, f)
  PROVE  \E n : stack' = [stack EXCEPT ![t] = n] /\ EventMove(stack[t], n)
  BY DEF GoTo, Below, EventMove, Top

LEMMA StaysMoves ==
  ASSUME StacksOK, NEW t \in Thread, stack[t] # <<>>, Top(t) \in CallFrame, stack' = stack
  PROVE  \E n : stack' = [stack EXCEPT ![t] = n] /\ EventMove(stack[t], n)
<1>1. stack' = [stack EXCEPT ![t] = stack[t]]
  BY DEF StacksOK
<1> QED
  BY <1>1 DEF EventMove, Top

LEMMA InCall ==
  ASSUME StacksOK, NEW t \in Thread, NEW op, In(t, op), op \notin {"run", "task"}
  PROVE  stack[t] # <<>> /\ Top(t) \in CallFrame /\ Top(t) \in Frame /\ Top(t).op = op
<1>1. stack[t] # <<>> /\ Top(t).op = op
  BY DEF In
<1>2. Top(t) \in Frame
  BY <1>1, TopIsFrame
<1> QED
  BY <1>1, <1>2, FrameFields

LEMMA PostMoves ==
  ASSUME StacksOK, FlagsOK, NEW t \in Thread, Post(t)
  PROVE  \E n : stack' = [stack EXCEPT ![t] = n] /\ EventMove(stack[t], n)
<1>1. stack[t] # <<>> /\ Top(t) \in CallFrame
  BY InCall DEF Post
<1>2. CASE incoming = <<>>
  <2>1. GoTo(t, Signaling(Pump))
    BY <1>2 DEF Post
  <2>2. Signaling(Pump) \in CallFrame /\ Signaling(Pump).op = "signal"
    BY LoopConstantsOK DEF Signaling, CallFrame
  <2> QED
    BY <1>1, <2>1, <2>2, GoToMoves
<1>3. CASE incoming # <<>>
  BY <1>1, <1>3, ReturnMoves DEF Post
<1> QED
  BY <1>2, <1>3

LEMMA SignalMoves ==
  ASSUME StacksOK, FlagsOK, NEW t \in Thread, EventTypeOK,
         BeginSignal(t) \/ FireWaiter(t) \/ EndSignal(t)
  PROVE  \E n : stack' = [stack EXCEPT ![t] = n] /\ EventMove(stack[t], n)
<1>1. CASE BeginSignal(t)
  <2>1. stack[t] # <<>> /\ Top(t) \in CallFrame /\ Top(t) \in Frame /\ Top(t).op = "signal"
    BY <1>1, InCall DEF BeginSignal
  <2>2. Top(t).ev \in Event
    BY <2>1, FrameFields
  <2> DEFINE f == [op |-> "fire", ev |-> Top(t).ev, woke |-> FALSE]
  <2>3. f \in CallFrame /\ f.op = "fire"
    BY <2>2 DEF CallFrame
  <2>4. Return(t) \/ GoTo(t, f)
    BY <1>1 DEF BeginSignal
  <2> HIDE DEF f
  <2> QED
    BY <2>1, <2>3, <2>4, ReturnMoves, GoToMoves
<1>2. CASE EndSignal(t)
  BY <1>2, InCall, ReturnMoves DEF EndSignal
<1>3. CASE FireWaiter(t)
  <2>1. stack[t] # <<>> /\ Top(t) \in CallFrame /\ Top(t) \in Frame /\ Top(t).op = "fire"
    BY <1>3, InCall DEF FireWaiter
  <2>2. Top(t) \in [op : {"fire"}, ev : Event, woke : BOOLEAN]
    BY <2>1, FrameFields
  <2> DEFINE f == [Top(t) EXCEPT !.woke = TRUE]
             x == Head(waiters[Top(t).ev])
  <2>3. f \in CallFrame /\ f.op = "fire"
    BY <2>2 DEF CallFrame
  <2>4. waiters[Top(t).ev] \in Seq(Waiter) /\ waiters[Top(t).ev] # <<>>
    BY <1>3, <2>2 DEF EventTypeOK, FireWaiter, Woken
  <2>5. x \in Waiter /\ x = waiters[Top(t).ev][1] /\ 1 \in 1 .. Len(waiters[Top(t).ev])
    <3>1. 1 \in 1 .. Len(waiters[Top(t).ev])
      BY <2>4, PopProperties
    <3> QED
      BY <2>4, <3>1, HeadTailProperties
  <2>6. x.flag <= starts
    BY <2>2, <2>5 DEF FlagsOK
  <2>7. CASE FireSync(t, x)
    <3>1. GoTo(t, f) \/ stack' = stack
      BY <2>7 DEF FireSync
    <3> HIDE DEF f
    <3> QED
      BY <2>1, <2>3, <3>1, GoToMoves, StaysMoves
  <2>8. CASE FireAsync(t, x)
    <3> DEFINE m == Append(Below(t), f)
               g == Posting([nestable |-> TRUE, time |-> 0, flag |-> x.flag])
    <3>1. stack' = [stack EXCEPT ![t] = m \o IF x.flag \in set_flags THEN <<>> ELSE <<g>>]
      BY <2>8 DEF FireAsync
    <3>2. m \in Seq(Frame)
      <4>1. stack[t] \in Seq(Frame) /\ f \in Frame
        BY <2>3 DEF StacksOK, Frame
      <4> HIDE DEF f
      <4> QED
        BY <2>1, <4>1, GoToProperties DEF Below
    <3>3. g \in CallFrame /\ g \in Frame /\ g.op = "post" /\ g.task.flag = x.flag
      <4>1. x.flag \in Nat /\ 0 \in 0 .. MaxTime
        BY <2>5, LoopConstantsOK DEF Waiter
      <4> HIDE DEF x
      <4>2. [nestable |-> TRUE, time |-> 0, flag |-> x.flag] \in PostedTask
        BY <4>1 DEF PostedTask
      <4> QED
        BY <4>2 DEF Posting, CallFrame, Frame
    <3> HIDE DEF f, x, g, m
    <3>4. CASE x.flag \in set_flags
      <4>1. stack' = [stack EXCEPT ![t] = m]
        BY <3>1, <3>2, <3>4, PushIsConcat
      <4> QED
        BY <2>1, <2>3, <4>1 DEF EventMove, m, Below, Top
    <3>5. CASE x.flag \notin set_flags
      <4>0. m \o <<g>> = Append(m, g)
        BY <3>2, <3>3, PushIsConcat
      <4>1. stack' = [stack EXCEPT ![t] = Append(m, g)]
        BY <3>1, <3>5, <4>0
      <4>2. g.task.flag <= starts
        BY <2>6, <3>3
      <4>3. EventMove(stack[t], Append(m, g))
        BY <2>1, <2>3, <3>3, <4>2 DEF EventMove, m, Below, Top
      <4> QED
        BY <4>1, <4>3
    <3> QED
      BY <3>4, <3>5
  <2> QED
    BY <1>3, <2>7, <2>8 DEF FireWaiter
<1> QED
  BY <1>1, <1>2, <1>3

LEMMA WaitMoves ==
  ASSUME StacksOK, NEW t \in Thread, EventTypeOK, Wake(t) \/ EndWait(t) \/ EndStart(t)
  PROVE  \E n : stack' = [stack EXCEPT ![t] = n] /\ EventMove(stack[t], n)
<1>1. CASE Wake(t)
  <2>1. stack[t] # <<>> /\ Top(t) \in CallFrame /\ Top(t) \in Frame /\ Top(t).op = "wait"
    BY <1>1, InCall DEF Wake
  <2>2. Top(t) \in [op : {"wait"}, ev : Event, until : Nat,
                    point : {"asleep", "timed out", "woken"}]
    BY <2>1, FrameFields
  <2> DEFINE f == [Top(t) EXCEPT !.point = IF fired[t] = Waiting THEN "timed out" ELSE "woken"]
  <2>3. f \in CallFrame /\ f.op = "wait" /\ f.ev = Top(t).ev /\ f.until = Top(t).until
    BY <2>2 DEF CallFrame
  <2>4. GoTo(t, f)
    BY <1>1 DEF Wake
  <2> HIDE DEF f
  <2> QED
    BY <2>1, <2>3, <2>4 DEF EventMove, GoTo, Below, Top
<1>2. CASE EndWait(t)
  BY <1>2, InCall, ReturnMoves DEF EndWait
<1>3. CASE EndStart(t)
  BY <1>3, InCall, ReturnMoves DEF EndStart
<1> QED
  BY <1>1, <1>2, <1>3

LEMMA WaitManyMoves ==
  ASSUME StacksOK, NEW t \in Thread, EventTypeOK,
         LockNext(t) \/ EnqueueMany(t) \/ WakeMany(t) \/ LeaveNext(t) \/ EndMany(t)
  PROVE  \E n : stack' = [stack EXCEPT ![t] = n] /\ EventMove(stack[t], n)
<1>1. stack[t] # <<>> /\ Top(t) \in CallFrame /\ Top(t) \in Frame /\ Top(t).op = "many"
  BY InCall DEF LockNext, EnqueueMany, WakeMany, LeaveNext, EndMany
<1>2. Top(t) \in [op : {"many"}, todo : Seq(Event), held : Seq(Event),
                  point : {"lock", "asleep", "leave"}]
  BY <1>1, FrameFields
<1> DEFINE Many == [op : {"many"}, todo : Seq(Event), held : Seq(Event),
                    point : {"lock", "asleep", "leave"}]
<1>3. ASSUME NEW f \in Many, GoTo(t, f)
      PROVE  \E n : stack' = [stack EXCEPT ![t] = n] /\ EventMove(stack[t], n)
  <2>1. f \in CallFrame /\ f.op = "many"
    BY DEF CallFrame
  <2> QED
    BY <1>1, <1>3, <2>1, GoToMoves
<1>4. CASE LockNext(t)
  <2> DEFINE e == Head(Top(t).todo)
             f == [Top(t) EXCEPT !.todo = Tail(@), !.held = Append(@, e)]
  <2>1. Return(t) \/ GoTo(t, f)
    BY <1>4 DEF LockNext
  <2>2. Top(t).todo # <<>> /\ Top(t).todo \in Seq(Event) /\ Top(t).held \in Seq(Event)
    BY <1>2, <1>4 DEF LockNext
  <2>3. e \in Event /\ Tail(Top(t).todo) \in Seq(Event)
    BY <2>2, HeadTailProperties
  <2> HIDE DEF e
  <2>4. Append(Top(t).held, e) \in Seq(Event)
    BY <2>2, <2>3, AppendProperties
  <2>5. f \in Many
    BY <1>2, <2>3, <2>4
  <2> HIDE DEF f
  <2> QED
    BY <1>1, <1>3, <2>1, <2>5, ReturnMoves
<1>5. CASE EnqueueMany(t)
  <2>1. [Top(t) EXCEPT !.point = "asleep"] \in Many
    BY <1>2
  <2> QED
    BY <1>3, <1>5, <2>1 DEF EnqueueMany
<1>6. CASE WakeMany(t)
  <2>1. [Top(t) EXCEPT !.point = "leave"] \in Many
    BY <1>2
  <2> QED
    BY <1>3, <1>6, <2>1 DEF WakeMany
<1>7. CASE LeaveNext(t)
  <2>1. Top(t).held # <<>> /\ Top(t).held \in Seq(Event)
    BY <1>2, <1>7 DEF LeaveNext
  <2>2. Tail(Top(t).held) \in Seq(Event)
    BY <2>1, HeadTailProperties
  <2>3. [Top(t) EXCEPT !.held = Tail(@)] \in Many
    BY <1>2, <2>2
  <2> QED
    BY <1>3, <1>7, <2>3 DEF LeaveNext
<1>8. CASE EndMany(t)
  BY <1>1, <1>8, ReturnMoves DEF EndMany
<1> QED
  BY <1>4, <1>5, <1>6, <1>7, <1>8

LEMMA EventStepMoves ==
  ASSUME TypesOK, NEW t \in Thread, EventStep(t) \/ Post(t)
  PROVE  \E n : stack' = [stack EXCEPT ![t] = n] /\ EventMove(stack[t], n)
<1> USE DEF TypesOK
<1>1. CASE Post(t)
  BY <1>1, PostMoves
<1>2. CASE BeginSignal(t) \/ FireWaiter(t) \/ EndSignal(t)
  BY <1>2, SignalMoves
<1>3. CASE Wake(t) \/ EndWait(t) \/ EndStart(t)
  BY <1>3, WaitMoves
<1>4. CASE LockNext(t) \/ EnqueueMany(t) \/ WakeMany(t) \/ LeaveNext(t) \/ EndMany(t)
  BY <1>4, WaitManyMoves
<1> QED
  BY <1>1, <1>2, <1>3, <1>4 DEF EventStep

----------------------------------------------------------------------------
(* Sequences.                                                              *)

LEMMA ElementsAre ==
  ASSUME NEW S, NEW s \in Seq(S)
  PROVE  /\ ToSet(s) = {s[i] : i \in 1 .. Len(s)} /\ ToSet(s) \subseteq S
         /\ \A i \in 1 .. Len(s) : s[i] \in ToSet(s)
         /\ \A x \in ToSet(s) : \E i \in 1 .. Len(s) : s[i] = x
<1>1. DOMAIN s = 1 .. Len(s)
  BY LenProperties
<1>2. \A i \in 1 .. Len(s) : s[i] \in S
  BY ElementOfSeq
<1> QED
  BY <1>1, <1>2 DEF ToSet

LEMMA ElementsOfNone ==
  ToSet(<<>>) = {} /\ Distinct(<<>>) /\ Increasing(<<>>)
  BY DEF ToSet, Distinct, Increasing

LEMMA ElementsOfAppend ==
  ASSUME NEW S, NEW s \in Seq(S), NEW x \in S
  PROVE  /\ Append(s, x) \in Seq(S)
         /\ ToSet(Append(s, x)) = ToSet(s) \cup {x}
         /\ Distinct(s) /\ x \notin ToSet(s) => Distinct(Append(s, x))
<1> DEFINE a == Append(s, x)
<1>1. /\ a \in Seq(S) /\ Len(a) = Len(s) + 1 /\ Len(s) \in Nat
      /\ a[Len(s) + 1] = x
      /\ \A i \in 1 .. Len(s) : a[i] = s[i]
  BY PushProperties
<1> HIDE DEF a
<1>2. /\ ToSet(s) = {s[i] : i \in 1 .. Len(s)}
      /\ ToSet(a) = {a[i] : i \in 1 .. Len(a)}
  BY <1>1, ElementsAre
<1>3. 1 .. Len(a) = (1 .. Len(s)) \cup {Len(s) + 1}
  BY <1>1
<1>4. ToSet(a) = ToSet(s) \cup {x}
  BY <1>1, <1>2, <1>3
<1>5. ASSUME Distinct(s), x \notin ToSet(s)
      PROVE  Distinct(a)
  <2> SUFFICES ASSUME NEW i \in 1 .. Len(a), NEW j \in 1 .. Len(a), a[i] = a[j]
               PROVE  i = j
    BY DEF Distinct
  <2>1. \A k \in 1 .. Len(s) : a[k] \in ToSet(s)
    BY <1>1, <1>2
  <2>2. CASE i \in 1 .. Len(s) /\ j \in 1 .. Len(s)
    BY <1>1, <1>5, <2>2 DEF Distinct
  <2>3. CASE ~(i \in 1 .. Len(s) /\ j \in 1 .. Len(s))
    BY <1>1, <1>3, <1>5, <2>1, <2>3
  <2> QED
    BY <2>2, <2>3
<1> QED
  BY <1>1, <1>4, <1>5 DEF a

LEMMA ElementsOfTail ==
  ASSUME NEW S, NEW s \in Seq(S), s # <<>>
  PROVE  /\ Tail(s) \in Seq(S) /\ Head(s) \in S /\ Head(s) \in ToSet(s)
         /\ Head(s) = s[1] /\ Len(Tail(s)) = Len(s) - 1 /\ Len(s) \in Nat \ {0}
         /\ \A i \in 1 .. Len(Tail(s)) : Tail(s)[i] = s[i + 1]
         /\ ToSet(Tail(s)) \subseteq ToSet(s)
         /\ ToSet(s) \subseteq ToSet(Tail(s)) \cup {Head(s)}
         /\ Distinct(s) => Distinct(Tail(s)) /\ Head(s) \notin ToSet(Tail(s))
<1> DEFINE u == Tail(s)
<1>1. /\ u \in Seq(S) /\ Head(s) \in S /\ Len(u) = Len(s) - 1 /\ Head(s) = s[1]
      /\ \A i \in 1 .. Len(u) : u[i] = s[i + 1]
  BY HeadTailProperties
<1>2. Len(s) \in Nat \ {0}
  BY PopProperties
<1> HIDE DEF u
<1>3. /\ ToSet(s) = {s[i] : i \in 1 .. Len(s)}
      /\ ToSet(u) = {u[i] : i \in 1 .. Len(u)}
  BY <1>1, ElementsAre
<1>4. ToSet(u) \subseteq ToSet(s) /\ Head(s) \in ToSet(s)
  <2>1. \A i \in 1 .. Len(u) : i + 1 \in 1 .. Len(s)
    BY <1>1, <1>2
  <2>2. 1 \in 1 .. Len(s)
    BY <1>2
  <2> QED
    BY <1>1, <1>3, <2>1, <2>2
<1>5. ToSet(s) \subseteq ToSet(u) \cup {Head(s)}
  <2> SUFFICES ASSUME NEW i \in 1 .. Len(s), i # 1 PROVE s[i] \in ToSet(u)
    BY <1>1, <1>3
  <2>1. i - 1 \in 1 .. Len(u) /\ i - 1 + 1 = i
    BY <1>1, <1>2
  <2>2. u[i - 1] = s[i]
    BY <1>1, <2>1
  <2> QED
    BY <1>3, <2>1, <2>2
<1>6. ASSUME Distinct(s)
      PROVE  Distinct(u) /\ Head(s) \notin ToSet(u)
  <2>1. \A i \in 1 .. Len(u) : i + 1 \in 1 .. Len(s) /\ i + 1 # 1
    BY <1>1, <1>2
  <2>2. 1 \in 1 .. Len(s)
    BY <1>2
  <2>3. Head(s) \notin ToSet(u)
    BY <1>1, <1>3, <1>6, <2>1, <2>2 DEF Distinct
  <2>4. ASSUME NEW i \in 1 .. Len(u), NEW j \in 1 .. Len(u), u[i] = u[j]
        PROVE  i = j
    <3>1. s[i + 1] = s[j + 1]
      BY <1>1, <2>4
    <3>2. i + 1 = j + 1
      BY <1>6, <2>1, <3>1 DEF Distinct
    <3> QED
      BY <3>2
  <2> QED
    BY <2>3, <2>4 DEF Distinct
<1> QED
  BY <1>1, <1>2, <1>4, <1>5, <1>6 DEF u

\* Two parts of a sequence with a gap of one, or with one inserted.
LEMMA Parts ==
  ASSUME NEW S, NEW s \in Seq(S), NEW i \in 1 .. Len(s) + 1, NEW k \in i .. Len(s) + 1
  PROVE  LET a == SubSeq(s, 1, i - 1)
             b == SubSeq(s, k, Len(s))
         IN  /\ a \in Seq(S) /\ Len(a) = i - 1
             /\ \A j \in 1 .. i - 1 : a[j] = s[j]
             /\ b \in Seq(S) /\ Len(b) = Len(s) + 1 - k
             /\ \A j \in 1 .. Len(b) : b[j] = s[k + j - 1]
<1> DEFINE n == Len(s)
           h == i - 1
<1>1. n \in Nat /\ i \in Int /\ k \in Int /\ h \in Int /\ 0 <= h /\ h <= n /\ 1 \in Int
  BY LenProperties
<1>2. \A j \in 1 .. h : s[j] \in S
  <2> TAKE j \in 1 .. h
  <2>1. j \in 1 .. Len(s)
    BY <1>1
  <2> QED
    BY <2>1, ElementOfSeq
<1>3. \A j \in k .. n : s[j] \in S
  <2> TAKE j \in k .. n
  <2>1. j \in 1 .. Len(s)
    BY <1>1
  <2> QED
    BY <2>1, ElementOfSeq
<1>4. /\ SubSeq(s, 1, h) \in Seq(S)
      /\ Len(SubSeq(s, 1, h)) = IF 1 <= h THEN h - 1 + 1 ELSE 0
      /\ \A j \in 1 .. h - 1 + 1 : SubSeq(s, 1, h)[j] = s[1 + j - 1]
  BY <1>1, <1>2, SubSeqProperties
<1>5. /\ SubSeq(s, k, n) \in Seq(S)
      /\ Len(SubSeq(s, k, n)) = IF k <= n THEN n - k + 1 ELSE 0
      /\ \A j \in 1 .. n - k + 1 : SubSeq(s, k, n)[j] = s[k + j - 1]
  BY <1>1, <1>3, SubSeqProperties
<1>a. h = i - 1 /\ k >= i /\ k <= n + 1
  BY <1>1
<1> HIDE DEF n, h
<1>6. Len(SubSeq(s, 1, h)) = h /\ h - 1 + 1 = h
  BY <1>1, <1>4
<1>7. \A j \in 1 .. h : SubSeq(s, 1, h)[j] = s[j]
  <2> TAKE j \in 1 .. h
  <2>1. 1 + j - 1 = j /\ j \in 1 .. h - 1 + 1
    BY <1>1
  <2> QED
    BY <1>4, <2>1
<1>8. Len(SubSeq(s, k, n)) = n + 1 - k /\ n - k + 1 = n + 1 - k
  BY <1>1, <1>5, <1>a
<1>9. \A j \in 1 .. Len(SubSeq(s, k, n)) : SubSeq(s, k, n)[j] = s[k + j - 1]
  BY <1>5, <1>8
<1> QED
  BY <1>4, <1>5, <1>6, <1>7, <1>8, <1>9 DEF n, h

LEMMA ElementsOfConcat ==
  ASSUME NEW S, NEW a \in Seq(S), NEW b \in Seq(S)
  PROVE  /\ a \o b \in Seq(S) /\ Len(a \o b) = Len(a) + Len(b)
         /\ ToSet(a \o b) = ToSet(a) \cup ToSet(b)
         /\ Distinct(a) /\ Distinct(b) /\ ToSet(a) \cap ToSet(b) = {} => Distinct(a \o b)
<1> DEFINE c == a \o b
<1>1. /\ c \in Seq(S) /\ Len(c) = Len(a) + Len(b)
      /\ \A i \in 1 .. Len(a) + Len(b) : c[i] = IF i <= Len(a) THEN a[i] ELSE b[i - Len(a)]
  BY ConcatProperties
<1>2. Len(a) \in Nat /\ Len(b) \in Nat
  BY LenProperties
<1> HIDE DEF c
<1>3. \A i \in 1 .. Len(a) : i \in 1 .. Len(c) /\ c[i] = a[i]
  BY <1>1, <1>2
<1>4. \A i \in 1 .. Len(b) : Len(a) + i \in 1 .. Len(c) /\ c[Len(a) + i] = b[i]
  <2> TAKE i \in 1 .. Len(b)
  <2>1. /\ Len(a) + i \in 1 .. Len(a) + Len(b) /\ ~(Len(a) + i <= Len(a))
        /\ (Len(a) + i) - Len(a) = i
    BY <1>2
  <2> QED
    BY <1>1, <2>1
<1>5. \A i \in 1 .. Len(c) : \/ i \in 1 .. Len(a) /\ c[i] = a[i]
                             \/ i - Len(a) \in 1 .. Len(b) /\ c[i] = b[i - Len(a)]
  BY <1>1, <1>2
<1>6. /\ ToSet(a) = {a[i] : i \in 1 .. Len(a)}
      /\ ToSet(b) = {b[i] : i \in 1 .. Len(b)}
      /\ ToSet(c) = {c[i] : i \in 1 .. Len(c)}
  BY <1>1, ElementsAre
<1>7. ToSet(c) \subseteq ToSet(a) \cup ToSet(b)
  BY <1>5, <1>6
<1>8. ToSet(a) \subseteq ToSet(c) /\ ToSet(b) \subseteq ToSet(c)
  BY <1>3, <1>4, <1>6
<1>9. ASSUME Distinct(a), Distinct(b), ToSet(a) \cap ToSet(b) = {}
      PROVE  Distinct(c)
  <2> SUFFICES ASSUME NEW i \in 1 .. Len(c), NEW j \in 1 .. Len(c), c[i] = c[j]
               PROVE  i = j
    BY DEF Distinct
  <2>1. CASE i \in 1 .. Len(a) /\ j \in 1 .. Len(a)
    BY <1>3, <1>9, <2>1 DEF Distinct
  <2>2. CASE i - Len(a) \in 1 .. Len(b) /\ j - Len(a) \in 1 .. Len(b)
    <3>1. c[i] = b[i - Len(a)] /\ c[j] = b[j - Len(a)]
      <4>1. i \notin 1 .. Len(a) /\ j \notin 1 .. Len(a)
        BY <1>2, <2>2
      <4> QED
        BY <1>5, <4>1
    <3>2. i - Len(a) = j - Len(a)
      BY <1>9, <2>2, <3>1 DEF Distinct
    <3> QED
      BY <1>2, <3>2
  <2>3. CASE i \in 1 .. Len(a) /\ j \notin 1 .. Len(a)
    <3>1. c[i] \in ToSet(a)
      BY <1>3, <1>6, <2>3
    <3>2. c[j] \in ToSet(b)
      BY <1>5, <1>6, <2>3
    <3> QED
      BY <1>9, <3>1, <3>2
  <2>4. CASE j \in 1 .. Len(a) /\ i \notin 1 .. Len(a)
    <3>1. c[j] \in ToSet(a)
      BY <1>3, <1>6, <2>4
    <3>2. c[i] \in ToSet(b)
      BY <1>5, <1>6, <2>4
    <3> QED
      BY <1>9, <3>1, <3>2
  <2> QED
    BY <1>5, <2>1, <2>2, <2>3, <2>4
<1> QED
  BY <1>1, <1>7, <1>8, <1>9 DEF c

LEMMA ElementsOfParts ==
  ASSUME NEW S, NEW s \in Seq(S), NEW i \in 1 .. Len(s) + 1, NEW k \in i .. i + 1,
         k <= Len(s) + 1
  PROVE  LET a == SubSeq(s, 1, i - 1)
             b == SubSeq(s, k, Len(s))
         IN  /\ a \in Seq(S) /\ b \in Seq(S)
             /\ ToSet(a) \cup ToSet(b) \subseteq ToSet(s)
             /\ k = i => ToSet(s) = ToSet(a) \cup ToSet(b)
             /\ k = i + 1 => s[i] \in ToSet(s) /\ ToSet(s) = ToSet(a) \cup ToSet(b) \cup {s[i]}
             /\ Distinct(s) => /\ Distinct(a) /\ Distinct(b) /\ ToSet(a) \cap ToSet(b) = {}
                               /\ k = i + 1 => s[i] \notin ToSet(a) \cup ToSet(b)
<1> DEFINE a == SubSeq(s, 1, i - 1)
           b == SubSeq(s, k, Len(s))
<1>0. Len(s) \in Nat /\ i \in Nat /\ k \in Nat /\ 1 <= i /\ i <= k
      /\ k <= Len(s) + 1 /\ k <= i + 1
  BY LenProperties
<1>1. /\ a \in Seq(S) /\ Len(a) = i - 1
      /\ \A j \in 1 .. i - 1 : a[j] = s[j]
      /\ b \in Seq(S) /\ Len(b) = Len(s) + 1 - k
      /\ \A j \in 1 .. Len(b) : b[j] = s[k + j - 1]
  <2>1. k \in i .. Len(s) + 1
    BY <1>0
  <2> QED
    BY <2>1, Parts
<1> HIDE DEF a, b
<1>2. /\ ToSet(a) = {a[j] : j \in 1 .. Len(a)}
      /\ ToSet(b) = {b[j] : j \in 1 .. Len(b)}
      /\ ToSet(s) = {s[j] : j \in 1 .. Len(s)}
  BY <1>1, ElementsAre
<1>3. \A j \in 1 .. Len(a) : j \in 1 .. Len(s) /\ j < i /\ a[j] = s[j]
  BY <1>0, <1>1
<1>4. \A j \in 1 .. Len(b) : k + j - 1 \in 1 .. Len(s) /\ k + j - 1 >= k /\ b[j] = s[k + j - 1]
  BY <1>0, <1>1
<1>5. \A j \in 1 .. Len(s) : \/ j \in 1 .. Len(a)
                             \/ j = i /\ k = i + 1
                             \/ j - k + 1 \in 1 .. Len(b) /\ k + (j - k + 1) - 1 = j
  BY <1>0, <1>1
<1>6. ToSet(a) \cup ToSet(b) \subseteq ToSet(s)
  BY <1>2, <1>3, <1>4
<1>7. \A j \in 1 .. Len(s) : s[j] \in ToSet(a) \cup ToSet(b) \/ (j = i /\ k = i + 1)
  <2> TAKE j \in 1 .. Len(s)
  <2>1. CASE j \in 1 .. Len(a)
    BY <1>2, <1>3, <2>1
  <2>2. CASE j - k + 1 \in 1 .. Len(b) /\ k + (j - k + 1) - 1 = j
    <3>1. b[j - k + 1] = s[j]
      BY <1>4, <2>2
    <3> QED
      BY <1>2, <2>2, <3>1
  <2> QED
    BY <1>5, <2>1, <2>2
<1>8. k = i => ToSet(s) = ToSet(a) \cup ToSet(b)
  <2>1. k = i => \A j \in 1 .. Len(s) : s[j] \in ToSet(a) \cup ToSet(b)
    BY <1>0, <1>7
  <2> QED
    BY <1>2, <1>6, <2>1
<1>9. k = i + 1 => s[i] \in ToSet(s) /\ ToSet(s) = ToSet(a) \cup ToSet(b) \cup {s[i]}
  <2>1. k = i + 1 => i \in 1 .. Len(s)
    BY <1>0
  <2>2. \A j \in 1 .. Len(s) : s[j] \in ToSet(a) \cup ToSet(b) \cup {s[i]}
    BY <1>7
  <2>3. ToSet(s) \subseteq ToSet(a) \cup ToSet(b) \cup {s[i]}
    BY <1>2, <2>2
  <2>4. k = i + 1 => s[i] \in ToSet(s)
    BY <1>2, <2>1
  <2> QED
    BY <1>6, <2>3, <2>4
<1>10. ASSUME Distinct(s)
       PROVE  /\ Distinct(a) /\ Distinct(b) /\ ToSet(a) \cap ToSet(b) = {}
              /\ k = i + 1 => s[i] \notin ToSet(a) \cup ToSet(b)
  <2>1. Distinct(a)
    BY <1>3, <1>10 DEF Distinct
  <2>2. Distinct(b)
    <3> SUFFICES ASSUME NEW j \in 1 .. Len(b), NEW m \in 1 .. Len(b), b[j] = b[m]
                 PROVE  j = m
      BY DEF Distinct
    <3>1. k + j - 1 = k + m - 1
      BY <1>4, <1>10 DEF Distinct
    <3> QED
      BY <1>0, <3>1
  <2>3. ASSUME NEW j \in 1 .. Len(a), NEW m \in 1 .. Len(b)
        PROVE  a[j] # b[m]
    <3>1. j # k + m - 1
      BY <1>0, <1>3, <1>4
    <3> QED
      BY <1>3, <1>4, <1>10, <3>1 DEF Distinct
  <2>4. ToSet(a) \cap ToSet(b) = {}
    BY <1>2, <2>3
  <2>5. ASSUME k = i + 1
        PROVE  s[i] \notin ToSet(a) \cup ToSet(b)
    <3>1. i \in 1 .. Len(s)
      BY <1>0, <2>5
    <3>2. \A j \in 1 .. Len(a) : i # j
      BY <1>0, <1>3
    <3>3. \A j \in 1 .. Len(b) : i # k + j - 1
      BY <1>0, <1>4, <2>5
    <3> QED
      BY <1>2, <1>3, <1>4, <1>10, <3>1, <3>2, <3>3 DEF Distinct
  <2> QED
    BY <2>1, <2>2, <2>4, <2>5
<1> QED
  BY <1>1, <1>6, <1>8, <1>9, <1>10 DEF a, b

\* WaitableEventKernel::Dequeue takes one waiter out.
LEMMA ElementsWithout ==
  ASSUME NEW S, NEW s \in Seq(S), NEW x
  PROVE  /\ Without(s, x) \in Seq(S) /\ ToSet(Without(s, x)) \subseteq ToSet(s)
         /\ Distinct(s) => /\ Distinct(Without(s, x))
                           /\ ToSet(Without(s, x)) = ToSet(s) \ {x}
<1>1. DOMAIN s = 1 .. Len(s) /\ Len(s) \in Nat
  BY LenProperties
<1>2. CASE \E i \in DOMAIN s : s[i] = x
  <2> DEFINE i == CHOOSE i \in DOMAIN s : s[i] = x
  <2>1. i \in 1 .. Len(s) /\ s[i] = x
    BY <1>1, <1>2
  <2>2. Without(s, x) = SubSeq(s, 1, i - 1) \o SubSeq(s, i + 1, Len(s))
    BY <1>2 DEF Without, RemoveAt
  <2> HIDE DEF i
  <2> DEFINE a == SubSeq(s, 1, i - 1)
             b == SubSeq(s, i + 1, Len(s))
  <2>3. i \in 1 .. Len(s) + 1 /\ i + 1 \in i .. i + 1 /\ i + 1 <= Len(s) + 1
    BY <1>1, <2>1
  <2>4. /\ a \in Seq(S) /\ b \in Seq(S)
        /\ ToSet(a) \cup ToSet(b) \subseteq ToSet(s)
        /\ ToSet(s) = ToSet(a) \cup ToSet(b) \cup {s[i]}
        /\ Distinct(s) => /\ Distinct(a) /\ Distinct(b) /\ ToSet(a) \cap ToSet(b) = {}
                          /\ s[i] \notin ToSet(a) \cup ToSet(b)
    BY <2>3, ElementsOfParts
  <2> HIDE DEF a, b
  <2>5. /\ a \o b \in Seq(S)
        /\ ToSet(a \o b) = ToSet(a) \cup ToSet(b)
        /\ Distinct(a) /\ Distinct(b) /\ ToSet(a) \cap ToSet(b) = {} => Distinct(a \o b)
    BY <2>4, ElementsOfConcat
  <2>6. Without(s, x) = a \o b
    BY <2>2 DEF a, b
  <2> QED
    BY <2>1, <2>4, <2>5, <2>6
<1>3. CASE ~\E i \in DOMAIN s : s[i] = x
  <2>1. Without(s, x) = s /\ x \notin ToSet(s)
    BY <1>3 DEF Without, ToSet
  <2> QED
    BY <2>1, ElementsAre
<1> QED
  BY <1>2, <1>3

----------------------------------------------------------------------------
(* Types are kept by the steps of a thread that is in a call.              *)

\* A waiter is taken from the list, or appended.
LEMMA WaitersTyped ==
  ASSUME EventTypeOK, NEW e \in Event, NEW x \in Waiter,
         \/ waiters' = waiters
         \/ waiters[e] # <<>> /\ waiters' = [waiters EXCEPT ![e] = Tail(@)]
         \/ waiters' = [waiters EXCEPT ![e] = Without(@, x)]
         \/ waiters' = [waiters EXCEPT ![e] = Append(@, x)]
  PROVE  /\ waiters' \in [Event -> Seq(Waiter)]
         /\ \A d \in Event : ToSet(waiters'[d]) \subseteq ToSet(waiters[d]) \cup {x}
<1>0. waiters \in [Event -> Seq(Waiter)] /\ waiters[e] \in Seq(Waiter)
  BY DEF EventTypeOK
<1>1. ASSUME NEW s \in Seq(Waiter), waiters' = [waiters EXCEPT ![e] = s],
             ToSet(s) \subseteq ToSet(waiters[e]) \cup {x}
      PROVE  /\ waiters' \in [Event -> Seq(Waiter)]
             /\ \A d \in Event : ToSet(waiters'[d]) \subseteq ToSet(waiters[d]) \cup {x}
  BY <1>0, <1>1
<1>2. CASE waiters' = waiters
  BY <1>0, <1>2
<1>3. CASE waiters[e] # <<>> /\ waiters' = [waiters EXCEPT ![e] = Tail(@)]
  <2>1. Tail(waiters[e]) \in Seq(Waiter) /\ ToSet(Tail(waiters[e])) \subseteq ToSet(waiters[e])
    BY <1>0, <1>3, ElementsOfTail
  <2> QED
    BY <1>1, <1>3, <2>1
<1>4. CASE waiters' = [waiters EXCEPT ![e] = Without(@, x)]
  <2>1. /\ Without(waiters[e], x) \in Seq(Waiter)
        /\ ToSet(Without(waiters[e], x)) \subseteq ToSet(waiters[e])
    BY <1>0, ElementsWithout
  <2> QED
    BY <1>1, <1>4, <2>1
<1>5. CASE waiters' = [waiters EXCEPT ![e] = Append(@, x)]
  <2>1. /\ Append(waiters[e], x) \in Seq(Waiter)
        /\ ToSet(Append(waiters[e], x)) = ToSet(waiters[e]) \cup {x}
    BY <1>0, ElementsOfAppend
  <2> QED
    BY <1>1, <1>5, <2>1
<1> QED
  BY <1>2, <1>3, <1>4, <1>5

LEMMA SyncWaiterIsWaiter ==
  ASSUME NEW t \in Thread
  PROVE  SyncWaiter(t) \in Waiter /\ SyncWaiter(t).flag = 0 /\ SyncWaiter(t).thread = t
  BY DEF SyncWaiter, Waiter

\* The other variables of events.
EventsTyped ==
  /\ lock \in [Event -> Thread \cup {Nobody}]
  /\ signaled \in [Event -> BOOLEAN]
  /\ fired \in [Thread -> Event \cup {Waiting, Disabled}]
  /\ given \in [Event -> Nat] /\ taken \in [Event -> Nat]

\* What a step of a thread in a call leaves alone, and the waiter it may append.
StepTyped(t) ==
  /\ EventsTyped' /\ UNCHANGED <<now, watchVars>>
  /\ waiters' \in [Event -> Seq(Waiter)]
  /\ \A d \in Event : \A x \in ToSet(waiters'[d]) : x \in ToSet(waiters[d]) \/ x.flag = 0

LEMMA ConsumeTyped ==
  ASSUME EventsTyped, NEW e \in Event, Consume(e)
  PROVE  signaled' \in [Event -> BOOLEAN] /\ taken' \in [Event -> Nat]
<1>1. signaled' \in [Event -> BOOLEAN]
  BY DEF EventsTyped, Consume
<1>2. taken' \in [Event -> Nat]
  BY DEF EventsTyped, Consume, Take
<1> QED
  BY <1>1, <1>2

LEMMA SignalTyped ==
  ASSUME TypesOK, NEW t \in Thread, BeginSignal(t) \/ FireWaiter(t) \/ EndSignal(t)
  PROVE  StepTyped(t)
<1>0. EventTypeOK /\ EventsTyped /\ StacksOK
  BY DEF TypesOK, EventTypeOK, EventsTyped
<1>1. stack[t] # <<>> /\ Top(t) \in Frame /\ Top(t).op \in {"signal", "fire"}
  BY <1>0, InCall DEF BeginSignal, FireWaiter, EndSignal
<1>2. Top(t).ev \in Event
  BY <1>1, FrameFields
<1> DEFINE e == Top(t).ev
<1>3. waiters \in [Event -> Seq(Waiter)]
  BY <1>0 DEF EventTypeOK
<1>4. CASE BeginSignal(t)
  <2>1. waiters' = waiters /\ UNCHANGED <<now, watchVars, signaled, fired, taken>>
    BY <1>4 DEF BeginSignal
  <2>2. lock' \in [Event -> Thread \cup {Nobody}] /\ given' \in [Event -> Nat]
    BY <1>0, <1>2, <1>4 DEF BeginSignal, EventsTyped, Give
  <2> QED
    BY <1>0, <1>3, <2>1, <2>2 DEF StepTyped, EventsTyped
<1>5. CASE FireWaiter(t)
  <2>1. waiters' = [waiters EXCEPT ![e] = Tail(@)] /\ waiters[e] # <<>>
    BY <1>5 DEF FireWaiter, Woken
  <2>2. UNCHANGED <<now, watchVars, lock, signaled, given>>
    BY <1>5 DEF FireWaiter
  <2>3. /\ waiters' \in [Event -> Seq(Waiter)]
        /\ \A d \in Event : ToSet(waiters'[d]) \subseteq ToSet(waiters[d]) \cup {SyncWaiter(t)}
    BY <1>0, <1>2, <2>1, WaitersTyped, SyncWaiterIsWaiter
  <2>4. fired' \in [Thread -> Event \cup {Waiting, Disabled}] /\ taken' \in [Event -> Nat]
    <3>1. CASE FireSync(t, Head(waiters[e]))
      BY <1>0, <1>2, <3>1 DEF FireSync, EventsTyped
    <3>2. CASE FireAsync(t, Head(waiters[e]))
      BY <1>0, <1>2, <3>2 DEF FireAsync, EventsTyped, Take
    <3> QED
      BY <1>5, <3>1, <3>2 DEF FireWaiter
  <2> QED
    BY <1>0, <2>2, <2>3, <2>4, SyncWaiterIsWaiter DEF StepTyped, EventsTyped
<1>6. CASE EndSignal(t)
  <2>1. waiters' = waiters /\ UNCHANGED <<now, watchVars, fired, given, taken>>
    BY <1>6 DEF EndSignal
  <2>2. lock' \in [Event -> Thread \cup {Nobody}]
    BY <1>0, <1>2, <1>6 DEF EndSignal, EventsTyped
  <2>3. signaled' \in [Event -> BOOLEAN]
    <3>1. Top(t) \in [op : {"fire"}, ev : Event, woke : BOOLEAN]
      BY <1>0, <1>6, InCall, FrameFields DEF EndSignal
    <3>2. (e \in Manual \/ ~Top(t).woke) \in BOOLEAN
      OBVIOUS
    <3> QED
      BY <1>0, <1>6, <3>2 DEF EndSignal, EventsTyped
  <2> QED
    BY <1>0, <1>3, <2>1, <2>2, <2>3 DEF StepTyped, EventsTyped
<1> QED
  BY <1>4, <1>5, <1>6

LEMMA WaitTyped ==
  ASSUME TypesOK, NEW t \in Thread, Wake(t) \/ EndWait(t) \/ EndStart(t)
  PROVE  StepTyped(t)
<1>0. EventTypeOK /\ EventsTyped /\ StacksOK
  BY DEF TypesOK, EventTypeOK, EventsTyped
<1>1. stack[t] # <<>> /\ Top(t) \in Frame /\ Top(t).op \in {"wait", "start"}
  BY <1>0, InCall DEF Wake, EndWait, EndStart
<1>2. Top(t).ev \in Event
  BY <1>1, FrameFields
<1> DEFINE e == Top(t).ev
<1>3. waiters \in [Event -> Seq(Waiter)]
  BY <1>0 DEF EventTypeOK
<1>4. CASE Wake(t)
  <2>1. UNCHANGED <<now, watchVars, waiters, lock, signaled, given, taken>>
    BY <1>4 DEF Wake
  <2>2. fired' \in [Thread -> Event \cup {Waiting, Disabled}]
    BY <1>0, <1>4 DEF Wake, EventsTyped
  <2> QED
    BY <1>0, <1>3, <2>1, <2>2 DEF StepTyped, EventsTyped
<1>5. CASE EndWait(t)
  <2>1. waiters' = [waiters EXCEPT ![e] = Without(@, SyncWaiter(t))]
        /\ UNCHANGED <<now, watchVars, lock, signaled, given>>
    BY <1>5 DEF EndWait
  <2>2. /\ waiters' \in [Event -> Seq(Waiter)]
        /\ \A d \in Event : ToSet(waiters'[d]) \subseteq ToSet(waiters[d]) \cup {SyncWaiter(t)}
    BY <1>0, <1>2, <2>1, WaitersTyped, SyncWaiterIsWaiter
  <2>3. fired' \in [Thread -> Event \cup {Waiting, Disabled}] /\ taken' \in [Event -> Nat]
    BY <1>0, <1>2, <1>5 DEF EndWait, EventsTyped, Take
  <2> QED
    BY <1>0, <2>1, <2>2, <2>3, SyncWaiterIsWaiter DEF StepTyped, EventsTyped
<1>6. CASE EndStart(t)
  <2>1. UNCHANGED <<now, watchVars, waiters, fired, signaled, given, taken>>
    BY <1>6 DEF EndStart
  <2>2. lock' \in [Event -> Thread \cup {Nobody}]
    BY <1>0, <1>6 DEF EndStart, EventsTyped
  <2> QED
    BY <1>0, <1>3, <2>1, <2>2 DEF StepTyped, EventsTyped
<1> QED
  BY <1>4, <1>5, <1>6

LEMMA WaitManyTyped ==
  ASSUME TypesOK, NEW t \in Thread,
         LockNext(t) \/ EnqueueMany(t) \/ WakeMany(t) \/ LeaveNext(t) \/ EndMany(t)
  PROVE  StepTyped(t)
<1>0. EventTypeOK /\ EventsTyped /\ StacksOK
  BY DEF TypesOK, EventTypeOK, EventsTyped
<1>1. stack[t] # <<>> /\ Top(t) \in Frame /\ Top(t).op = "many"
  BY <1>0, InCall DEF LockNext, EnqueueMany, WakeMany, LeaveNext, EndMany
<1>2. Top(t).held \in Seq(Event) /\ Top(t).todo \in Seq(Event)
  BY <1>1, FrameFields
<1>3. waiters \in [Event -> Seq(Waiter)]
  BY <1>0 DEF EventTypeOK
<1>4. ASSUME Unlock(Top(t).held)
      PROVE  lock' \in [Event -> Thread \cup {Nobody}]
  BY <1>0, <1>4 DEF Unlock, EventsTyped
<1>5. CASE LockNext(t)
  <2> DEFINE e == Head(Top(t).todo)
  <2>1. e \in Event
    BY <1>2, <1>5, HeadTailProperties DEF LockNext
  <2>2. waiters' = waiters /\ UNCHANGED <<now, watchVars, fired, given>>
    BY <1>5 DEF LockNext
  <2>3. \/ Consume(e) /\ Unlock(Top(t).held)
        \/ lock' = [lock EXCEPT ![e] = t] /\ UNCHANGED <<signaled, taken>>
    BY <1>5 DEF LockNext
  <2> HIDE DEF e
  <2>4. lock' \in [Event -> Thread \cup {Nobody}]
    BY <1>0, <1>4, <2>1, <2>3 DEF EventsTyped
  <2>5. signaled' \in [Event -> BOOLEAN] /\ taken' \in [Event -> Nat]
    <3>1. CASE Consume(e)
      BY <1>0, <2>1, <3>1, ConsumeTyped
    <3>2. CASE UNCHANGED <<signaled, taken>>
      BY <1>0, <3>2 DEF EventsTyped
    <3> QED
      BY <2>3, <3>1, <3>2
  <2> QED
    BY <1>0, <1>3, <2>2, <2>4, <2>5 DEF StepTyped, EventsTyped
<1>6. CASE EnqueueMany(t)
  <2>1. UNCHANGED <<now, watchVars, signaled, given, taken>> /\ Unlock(Top(t).held)
    BY <1>6 DEF EnqueueMany
  <2>2. fired' \in [Thread -> Event \cup {Waiting, Disabled}]
    BY <1>0, <1>6 DEF EnqueueMany, EventsTyped
  <2>3. waiters' = [d \in Event |-> IF \E i \in DOMAIN Top(t).held : Top(t).held[i] = d
                                    THEN Append(waiters[d], SyncWaiter(t)) ELSE waiters[d]]
    BY <1>6 DEF EnqueueMany
  <2>4. ASSUME NEW d \in Event
        PROVE  waiters'[d] \in Seq(Waiter)
               /\ ToSet(waiters'[d]) \subseteq ToSet(waiters[d]) \cup {SyncWaiter(t)}
    <3>1. waiters[d] \in Seq(Waiter) /\ SyncWaiter(t) \in Waiter
      BY <1>3, SyncWaiterIsWaiter
    <3>2. /\ Append(waiters[d], SyncWaiter(t)) \in Seq(Waiter)
          /\ ToSet(Append(waiters[d], SyncWaiter(t))) = ToSet(waiters[d]) \cup {SyncWaiter(t)}
      BY <3>1, ElementsOfAppend
    <3>3. waiters'[d] \in {Append(waiters[d], SyncWaiter(t)), waiters[d]}
      BY <2>3
    <3> QED
      BY <3>1, <3>2, <3>3
  <2>5. waiters' \in [Event -> Seq(Waiter)]
    BY <2>3, <2>4
  <2> QED
    BY <1>0, <1>4, <2>1, <2>2, <2>4, <2>5, SyncWaiterIsWaiter DEF StepTyped, EventsTyped
<1>7. CASE WakeMany(t)
  BY <1>0, <1>3, <1>7 DEF WakeMany, StepTyped, EventsTyped, eventVars
<1>8. CASE LeaveNext(t)
  <2> DEFINE e == Head(Top(t).held)
  <2>1. e \in Event
    BY <1>2, <1>8, HeadTailProperties DEF LeaveNext
  <2>2. waiters' = waiters \/ waiters' = [waiters EXCEPT ![e] = Without(@, SyncWaiter(t))]
    BY <1>8 DEF LeaveNext
  <2>3. UNCHANGED <<now, watchVars, lock, signaled, fired, given, taken>>
    BY <1>8 DEF LeaveNext
  <2> HIDE DEF e
  <2>4. /\ waiters' \in [Event -> Seq(Waiter)]
        /\ \A d \in Event : ToSet(waiters'[d]) \subseteq ToSet(waiters[d]) \cup {SyncWaiter(t)}
    BY <1>0, <2>1, <2>2, WaitersTyped, SyncWaiterIsWaiter
  <2> QED
    BY <1>0, <2>3, <2>4, SyncWaiterIsWaiter DEF StepTyped, EventsTyped
<1>9. CASE EndMany(t)
  <2>1. UNCHANGED <<now, watchVars, lock, signaled, waiters, given>>
    BY <1>9 DEF EndMany
  <2>2. fired' \in [Thread -> Event \cup {Waiting, Disabled}]
    BY <1>0, <1>9 DEF EndMany, EventsTyped
  <2>3. taken' \in [Event -> Nat]
    <3> DEFINE x == fired[t]
    <3>1. taken' = [taken EXCEPT ![x] = @ + 1] /\ taken \in [Event -> Nat]
      BY <1>0, <1>9 DEF EndMany, Take, EventsTyped
    <3> HIDE DEF x
    <3>2. taken' = [d \in Event |-> IF d = x THEN taken[d] + 1 ELSE taken[d]]
      BY <3>1
    <3>3. \A d \in Event : (IF d = x THEN taken[d] + 1 ELSE taken[d]) \in Nat
      BY <3>1
    <3> QED
      BY <3>2, <3>3
  <2> QED
    BY <1>0, <1>3, <2>1, <2>2, <2>3 DEF StepTyped, EventsTyped
<1> QED
  BY <1>5, <1>6, <1>7, <1>8, <1>9

\* A stack after a move: the Flags of what is posted, and what Loop comes back to.
LEMMA EventMoveFlags ==
  ASSUME NEW s \in Seq(Frame), NEW n, EventMove(s, n),
         \A i \in 1 .. Len(s) : s[i].op = "post" => s[i].task.flag <= starts
  PROVE  \A i \in 1 .. Len(n) : n[i].op = "post" => n[i].task.flag <= starts
<1> DEFINE p == SubSeq(s, 1, Len(s) - 1)
<1>0. s # <<>>
  BY DEF EventMove
<1>1. CASE n = s
  BY <1>1
<1>2. CASE n = p
  <2>1. Len(p) = Len(s) - 1 /\ Len(s) \in Nat \ {0} /\ \A i \in 1 .. Len(p) : p[i] = s[i]
    BY <1>0, PopProperties
  <2> HIDE DEF p
  <2> QED
    BY <1>2, <2>1
<1>3. ASSUME NEW f \in CallFrame, f.op # "post", n = Append(p, f)
      PROVE  \A i \in 1 .. Len(n) : n[i].op = "post" => n[i].task.flag <= starts
  <2>1. /\ Len(n) = Len(s) /\ Len(s) \in Nat \ {0} /\ n[Len(s)] = f
        /\ \A i \in 1 .. Len(s) - 1 : n[i] = s[i]
    BY <1>0, <1>3, GoToProperties DEF Frame
  <2>2. \A i \in 1 .. Len(n) : i = Len(s) \/ i \in 1 .. Len(s) - 1
    BY <2>1
  <2> QED
    BY <1>3, <2>1, <2>2
<1>4. ASSUME NEW f \in CallFrame, NEW g \in CallFrame,
             f.op = "fire", g.op = "post", g.task.flag <= starts, n = Append(Append(p, f), g)
      PROVE  \A i \in 1 .. Len(n) : n[i].op = "post" => n[i].task.flag <= starts
  <2> DEFINE m == Append(p, f)
  <2>1. /\ m \in Seq(Frame) /\ Len(m) = Len(s) /\ Len(s) \in Nat \ {0} /\ m[Len(s)] = f
        /\ \A i \in 1 .. Len(s) - 1 : m[i] = s[i]
    BY <1>0, GoToProperties DEF Frame
  <2>2. n = Append(m, g) /\ g \in Frame
    BY <1>4 DEF Frame
  <2> HIDE DEF m
  <2>3. /\ Len(n) = Len(m) + 1 /\ n[Len(m) + 1] = g
        /\ \A i \in 1 .. Len(m) : n[i] = m[i]
    BY <2>1, <2>2, PushProperties
  <2>4. \A i \in 1 .. Len(n) : i = Len(m) + 1 \/ i = Len(s) \/ i \in 1 .. Len(s) - 1
    BY <2>1, <2>3
  <2> QED
    BY <1>4, <2>1, <2>3, <2>4
<1> QED
  BY <1>1, <1>2, <1>3, <1>4 DEF EventMove

LEMMA EventMoveStacks ==
  ASSUME StacksOK, NEW t \in Thread, NEW n,
         stack' = [stack EXCEPT ![t] = n], StackOK(t, n)
  PROVE  StacksOK' /\ stack'[t] = n /\ \A u \in Thread : u # t => stack'[u] = stack[u]
<1>1. n \in Seq(Frame)
  BY DEF StackOK
<1>2. stack' \in [Thread -> Seq(Frame)] /\ stack'[t] = n
      /\ \A u \in Thread : u # t => stack'[u] = stack[u]
  BY <1>1 DEF StacksOK
<1>3. \A u \in Thread : StackOK(u, stack'[u])
  BY <1>2 DEF StacksOK
<1> QED
  BY <1>2, <1>3 DEF StacksOK

LEMMA EventStepTypes ==
  ASSUME TypesOK, NEW t \in Thread, EventStep(t), UNCHANGED <<loopVars, left>>
  PROVE  TypesOK' /\ (stack'[Loop] = stack[Loop] \/ EventMove(stack[Loop], stack'[Loop]))
<1>0. EventTypeOK /\ StacksOK /\ FlagsOK
  BY DEF TypesOK
<1>1. PICK n : stack' = [stack EXCEPT ![t] = n] /\ EventMove(stack[t], n)
  BY EventStepMoves
<1>2. StackOK(t, n) /\ stack[t] \in Seq(Frame)
  BY <1>0, <1>1, EventMoveKeepsStack DEF StacksOK
<1>3. StacksOK' /\ stack'[t] = n /\ \A u \in Thread : u # t => stack'[u] = stack[u]
  BY <1>0, <1>1, <1>2, EventMoveStacks
<1>4. StepTyped(t)
  BY SignalTyped, WaitTyped, WaitManyTyped DEF EventStep
<1>5. UNCHANGED <<now, cancel_flag, kernel, set_flags, starts, watched, heard>>
  BY <1>4 DEF StepTyped, watchVars
<1>6. EventTypeOK'
  BY <1>0, <1>4, <1>5 DEF StepTyped, EventsTyped, EventTypeOK
<1>7. \A u \in Thread : \A i \in 1 .. Len(stack'[u]) :
        stack'[u][i].op = "post" => stack'[u][i].task.flag <= starts
  <2>1. \A i \in 1 .. Len(n) : n[i].op = "post" => n[i].task.flag <= starts
    BY <1>0, <1>1, <1>2, EventMoveFlags DEF FlagsOK
  <2> QED
    BY <1>0, <1>3, <2>1 DEF FlagsOK
<1>8. \A e \in Event : \A i \in 1 .. Len(waiters'[e]) : waiters'[e][i].flag <= starts
  <2> SUFFICES ASSUME NEW e \in Event, NEW i \in 1 .. Len(waiters'[e])
               PROVE  waiters'[e][i].flag <= starts
    OBVIOUS
  <2>1. waiters'[e] \in Seq(Waiter) /\ waiters[e] \in Seq(Waiter) /\ starts \in Nat
    BY <1>0, <1>4 DEF StepTyped, EventTypeOK
  <2>2. waiters'[e][i] \in ToSet(waiters'[e])
    BY <2>1, ElementsAre
  <2>3. waiters'[e][i] \in ToSet(waiters[e]) \/ waiters'[e][i].flag = 0
    BY <1>4, <2>2 DEF StepTyped
  <2>4. \A x \in ToSet(waiters[e]) : x.flag <= starts
    BY <1>0, <2>1, ElementsAre DEF FlagsOK
  <2> QED
    BY <2>1, <2>3, <2>4
<1>9. FlagsOK'
  BY <1>0, <1>5, <1>7, <1>8 DEF FlagsOK
<1>10. UNCHANGED <<tasks, incoming, work, delayed, deferred, nestable_allowed, keep_running,
                   delayed_time, recent_time, started, left>>
  BY DEF loopVars, queueVars, runVars, timeVars
<1>11. TasksOK' /\ QueuesOK' /\ LeftOK'
  BY <1>5, <1>10 DEF TypesOK, TasksOK, QueuesOK, LeftOK, Number
<1>12. TypesOK'
  BY <1>3, <1>5, <1>6, <1>9, <1>10, <1>11 DEF TypesOK, Number
<1> QED
  BY <1>1, <1>3, <1>12

\* What a step that leaves the delayed tasks alone does to the pump.
LEMMA PumpKept ==
  ASSUME StacksOK, PumpTold,
         stack'[Loop] = stack[Loop] \/ EventMove(stack[Loop], stack'[Loop]),
         UNCHANGED <<delayed, delayed_time, nestable_allowed>>,
         delayed # <<>> => tasks'[Head(delayed)].time = tasks[Head(delayed)].time
  PROVE  PumpTold'
<1> DEFINE s == stack[Loop]
           n == stack'[Loop]
           p == SubSeq(s, 1, Len(s) - 1)
<1>0. StackOK(Loop, s) /\ s \in Seq(Frame) /\ Top(Loop) = s[Len(s)] /\ Top(Loop)' = n[Len(n)]
  BY LoopConstantsOK DEF StacksOK, Top
<1>1. CASE n = s
  BY <1>0, <1>1 DEF PumpTold, Top
<1> SUFFICES ASSUME EventMove(s, n) PROVE PumpTold'
  BY <1>1
<1>2. s # <<>> /\ s[Len(s)] \in CallFrame
  BY DEF EventMove
<1>3. Len(s) \in Nat \ {0} /\ Len(p) = Len(s) - 1 /\ \A i \in 1 .. Len(p) : p[i] = s[i]
  BY <1>0, <1>2, PopProperties
<1>4. CASE n = p
  <2> SUFFICES ASSUME n # <<>>
               PROVE  /\ n[Len(n)].op = "run" => n[Len(n)].did_work \/ n[Len(n)].point = "work"
                      /\ n[Len(n)].op # "wait"
    BY <1>0 DEF PumpTold
  <2>1. Len(n) # 0
    <3>1. p \in Seq(Frame)
      BY <1>0, <1>2, PopProperties
    <3> QED
      BY <1>4, <3>1, EmptySeq
  <2>2. n[Len(n)] = s[Len(s) - 1] /\ Len(s) - 1 \in 1 .. Len(s) /\ Len(s) \in 1 .. Len(s)
        /\ (Len(s) - 1) + 1 = Len(s)
    BY <1>3, <1>4, <2>1
  <2>3. Calls(s[Len(s) - 1], s[Len(s)])
    BY <1>0, <2>2 DEF StackOK
  <2> QED
    BY <2>2, <2>3 DEF Calls
<1>5. ASSUME NEW f \in CallFrame, n = Append(p, f),
             f.op = "wait" => /\ s[Len(s)].op = "wait" /\ f.ev = s[Len(s)].ev
                              /\ f.until = s[Len(s)].until
      PROVE  PumpTold'
  <2>1. n[Len(n)] = f
    BY <1>0, <1>2, <1>5, GoToProperties DEF Frame
  <2>2. f.op # "run"
    BY FrameFields DEF Frame
  <2> QED
    BY <1>0, <1>2, <1>5, <2>1, <2>2 DEF PumpTold
<1>6. ASSUME NEW f \in CallFrame, NEW g \in CallFrame, g.op = "post",
             n = Append(Append(p, f), g)
      PROVE  PumpTold'
  <2> DEFINE m == Append(p, f)
  <2>1. m \in Seq(Frame) /\ g \in Frame
    BY <1>0, <1>2, GoToProperties DEF Frame
  <2>2. n = Append(m, g)
    BY <1>6
  <2> HIDE DEF m
  <2>3. n[Len(n)] = g
    BY <2>1, <2>2, PushProperties
  <2> QED
    BY <1>0, <1>6, <2>3 DEF PumpTold
<1> QED
  BY <1>1, <1>4, <1>5, <1>6 DEF EventMove

----------------------------------------------------------------------------
(* The queues.                                                             *)

LEMMA IncreasingAppend ==
  ASSUME NEW s \in Seq(Nat), NEW x \in Nat, Increasing(s), \A y \in ToSet(s) : y < x
  PROVE  Increasing(Append(s, x))
<1> DEFINE a == Append(s, x)
<1>1. /\ Len(a) = Len(s) + 1 /\ Len(s) \in Nat
      /\ a[Len(s) + 1] = x
      /\ \A i \in 1 .. Len(s) : a[i] = s[i]
  BY PushProperties
<1>2. \A i \in 1 .. Len(s) : s[i] < x
  BY ElementsAre
<1> HIDE DEF a
<1>3. ASSUME NEW i \in 1 .. Len(a), NEW j \in 1 .. Len(a), i < j
      PROVE  a[i] < a[j]
  <2>1. i \in 1 .. Len(s)
    BY <1>1, <1>3
  <2>2. CASE j = Len(s) + 1
    BY <1>1, <1>2, <2>1, <2>2
  <2>3. CASE j \in 1 .. Len(s)
    BY <1>1, <1>3, <2>1, <2>3 DEF Increasing
  <2> QED
    BY <1>1, <2>2, <2>3
<1> QED
  BY <1>3 DEF Increasing, a

LEMMA IncreasingTail ==
  ASSUME NEW s \in Seq(Nat), s # <<>>, Increasing(s)
  PROVE  Increasing(Tail(s)) /\ \A y \in ToSet(Tail(s)) : Head(s) < y
<1> DEFINE u == Tail(s)
<1>1. /\ u \in Seq(Nat) /\ Head(s) = s[1] /\ Len(u) = Len(s) - 1 /\ Len(s) \in Nat \ {0}
      /\ \A i \in 1 .. Len(u) : u[i] = s[i + 1]
  BY ElementsOfTail
<1> HIDE DEF u
<1>2. \A i \in 1 .. Len(u) : i + 1 \in 1 .. Len(s) /\ 1 < i + 1 /\ 1 \in 1 .. Len(s)
  BY <1>1
<1>3. \A i \in 1 .. Len(u) : s[1] < u[i]
  <2> TAKE i \in 1 .. Len(u)
  <2>1. i + 1 \in 1 .. Len(s) /\ 1 < i + 1 /\ 1 \in 1 .. Len(s)
    BY <1>2
  <2>2. s[1] < s[i + 1]
    BY <2>1 DEF Increasing
  <2> QED
    BY <1>1, <2>2
<1>4. \A y \in ToSet(u) : Head(s) < y
  <2>1. \A y \in ToSet(u) : \E i \in 1 .. Len(u) : u[i] = y
    BY <1>1, ElementsAre
  <2>2. \A i \in 1 .. Len(u) : Head(s) < u[i]
    BY <1>1, <1>3
  <2> QED
    BY <2>1, <2>2
<1>5. ASSUME NEW i \in 1 .. Len(u), NEW j \in 1 .. Len(u), i < j
      PROVE  u[i] < u[j]
  <2>1. i + 1 < j + 1
    BY <1>5
  <2> QED
    BY <1>1, <1>2, <2>1 DEF Increasing
<1> QED
  BY <1>4, <1>5 DEF Increasing, u

\* The queues as sets of task numbers.
LEMMA QueueElements ==
  ASSUME QueuesOK, TasksOK
  PROVE  /\ ToSet(incoming) \subseteq Number /\ ToSet(work) \subseteq Number
         /\ ToSet(delayed) \subseteq Number /\ ToSet(deferred) \subseteq Number
         /\ incoming \in Seq(Nat) /\ work \in Seq(Nat)
         /\ Len(tasks) \in Nat /\ Number \subseteq Nat
<1>1. Len(tasks) \in Nat
  BY LenProperties DEF TasksOK
<1>2. Number \subseteq Nat
  BY <1>1 DEF Number
<1>3. incoming \in Seq(Nat) /\ work \in Seq(Nat)
  <2>1. incoming \in Seq(Number) /\ work \in Seq(Number)
    BY DEF QueuesOK
  <2> QED
    BY <1>2, <2>1, SeqMonotonic
<1> QED
  BY <1>1, <1>2, <1>3, ElementsAre DEF QueuesOK

\* A task that is posted is the last of incoming_queue_.
LEMMA PostQueues ==
  ASSUME TasksOK, QueuesOK, started \subseteq Number, Partition, Order,
         NEW task \in PostedTask, task.flag <= starts,
         tasks' = Append(tasks, task), incoming' = Append(incoming, Len(tasks')),
         UNCHANGED <<work, delayed, deferred, started, starts>>
  PROVE  /\ TasksOK' /\ QueuesOK' /\ started' \subseteq Number' /\ Partition' /\ Order'
         /\ \A i \in Number : tasks'[i] = tasks[i]
<1> DEFINE id == Len(tasks) + 1
<1>1. tasks \in Seq(PostedTask)
  BY DEF TasksOK
<1>2. /\ tasks' \in Seq(PostedTask) /\ Len(tasks') = id /\ Len(tasks) \in Nat
      /\ tasks'[id] = task
      /\ \A i \in 1 .. Len(tasks) : tasks'[i] = tasks[i]
  BY <1>1, PushProperties
<1>3. id \in Nat /\ id \notin Number /\ Number' = Number \cup {id} /\ \A i \in Number : i < id
  BY <1>2 DEF Number
<1>4. incoming' = Append(incoming, id)
  BY <1>2
<1> HIDE DEF id
<1>5. /\ ToSet(incoming) \subseteq Number /\ ToSet(work) \subseteq Number
      /\ ToSet(delayed) \subseteq Number /\ ToSet(deferred) \subseteq Number
      /\ incoming \in Seq(Nat) /\ Number \subseteq Nat
  BY QueueElements
<1>6. TasksOK'
  BY <1>2, <1>3 DEF TasksOK, Number
<1>7. incoming \in Seq(Number')
  BY <1>3 DEF QueuesOK
<1>8. /\ incoming' \in Seq(Number')
      /\ ToSet(incoming') = ToSet(incoming) \cup {id}
      /\ Distinct(incoming) /\ id \notin ToSet(incoming) => Distinct(incoming')
  BY <1>3, <1>4, <1>7, ElementsOfAppend
<1>9. QueuesOK'
  <2>1. work \in Seq(Number') /\ delayed \in Seq(Number') /\ deferred \in Seq(Number')
    BY <1>3 DEF QueuesOK
  <2> QED
    BY <1>8, <2>1 DEF QueuesOK
<1>10. Partition'
  BY <1>3, <1>5, <1>8 DEF Partition
<1>11. Order'
  <2>1. Increasing(incoming')
    BY <1>3, <1>4, <1>5, IncreasingAppend DEF Order
  <2>2. \A i \in ToSet(work), j \in ToSet(incoming') : i < j
    BY <1>3, <1>5, <1>8 DEF Order
  <2>3. \A i \in Number : tasks'[i] = tasks[i]
    BY <1>2 DEF Number
  <2>4. \A i \in ToSet(delayed) : tasks'[i].time # 0
    BY <1>5, <2>3 DEF Order
  <2>5. \A i \in ToSet(deferred) : ~tasks'[i].nestable
    BY <1>5, <2>3 DEF Order
  <2>6. \A i \in started \cup ToSet(deferred), j \in ToSet(work) \cup ToSet(incoming') :
          tasks'[i].time = 0 => i < j
    <3>1. \A i \in started \cup ToSet(deferred) : i \in Number /\ tasks'[i] = tasks[i] /\ i < id
      BY <1>3, <1>5, <2>3
    <3> QED
      BY <1>8, <3>1 DEF Order
  <2> QED
    BY <2>1, <2>2, <2>4, <2>5, <2>6 DEF Order
<1> QED
  BY <1>2, <1>3, <1>6, <1>9, <1>10, <1>11 DEF Number

\* ReloadWorkQueue
LEMMA ReloadQueues ==
  ASSUME TasksOK, QueuesOK, started \subseteq Number, Partition, Order,
         work = <<>>, work' = incoming, incoming' = <<>>,
         UNCHANGED <<tasks, delayed, deferred, started>>
  PROVE  QueuesOK' /\ Partition' /\ Order'
<1>1. Number' = Number
  BY DEF Number
<1>2. ToSet(work) = {} /\ ToSet(incoming') = {} /\ ToSet(work') = ToSet(incoming)
      /\ Distinct(incoming') /\ Increasing(incoming')
  BY ElementsOfNone
<1>3. QueuesOK'
  <2>1. incoming' \in Seq(Number)
    BY EmptySeq
  <2> QED
    BY <1>1, <2>1 DEF QueuesOK
<1>4. Partition'
  BY <1>1, <1>2 DEF Partition
<1>5. Order'
  BY <1>2 DEF Order
<1> QED
  BY <1>3, <1>4, <1>5

\* The order of times in delayed_work_queue_ apart, a task is inserted.
LEMMA InsertProperties ==
  ASSUME QueuesOK, NEW id \in Number
  PROVE  /\ InsertByTime(id) \in Seq(Number)
         /\ ToSet(InsertByTime(id)) = ToSet(delayed) \cup {id}
         /\ Distinct(delayed) /\ id \notin ToSet(delayed) => Distinct(InsertByTime(id))
<1> DEFINE I == {i \in DOMAIN delayed : tasks[delayed[i]].time <= tasks[id].time}
           k == Cardinality(I)
<1>1. delayed \in Seq(Number) /\ Len(delayed) \in Nat /\ DOMAIN delayed = 1 .. Len(delayed)
  BY LenProperties DEF QueuesOK
<1>2. IsFiniteSet(1 .. Len(delayed)) /\ Cardinality(1 .. Len(delayed)) = Len(delayed)
  <2>1. 0 \in Int /\ 1 \in Int /\ Len(delayed) \in Int
    BY <1>1
  <2>2. /\ IsFiniteSet(1 .. Len(delayed))
        /\ Cardinality(1 .. Len(delayed)) = IF 1 > Len(delayed) THEN 0 ELSE Len(delayed) - 1 + 1
    BY <2>1, FS_Interval
  <2> QED
    BY <1>1, <2>2
<1>3. k \in Nat /\ k <= Len(delayed)
  <2>1. I \subseteq 1 .. Len(delayed)
    BY <1>1
  <2> HIDE DEF I
  <2>2. IsFiniteSet(I) /\ Cardinality(I) <= Cardinality(1 .. Len(delayed))
    BY <1>2, <2>1, FS_Subset
  <2>3. Cardinality(I) \in Nat
    BY <2>2, FS_CardinalityType
  <2> QED
    BY <1>2, <2>2, <2>3
<1>4. InsertByTime(id) = SubSeq(delayed, 1, k) \o <<id>> \o SubSeq(delayed, k + 1, Len(delayed))
  BY DEF InsertByTime
<1> HIDE DEF k
<1> DEFINE n == k + 1
           a == SubSeq(delayed, 1, n - 1)
           b == SubSeq(delayed, n, Len(delayed))
<1>5. n \in 1 .. Len(delayed) + 1 /\ n \in n .. n + 1 /\ n <= Len(delayed) + 1 /\ n - 1 = k
      /\ n # n + 1
  BY <1>1, <1>3
<1>6. InsertByTime(id) = a \o <<id>> \o b
  BY <1>4, <1>5
<1> HIDE DEF n
<1>7. /\ a \in Seq(Number) /\ b \in Seq(Number)
      /\ ToSet(delayed) = ToSet(a) \cup ToSet(b)
      /\ Distinct(delayed) => Distinct(a) /\ Distinct(b) /\ ToSet(a) \cap ToSet(b) = {}
  BY <1>1, <1>5, ElementsOfParts
<1> HIDE DEF a, b
<1>8. a \o <<id>> = Append(a, id)
  BY <1>7, PushIsConcat
<1>9. /\ Append(a, id) \in Seq(Number)
      /\ ToSet(Append(a, id)) = ToSet(a) \cup {id}
      /\ Distinct(a) /\ id \notin ToSet(a) => Distinct(Append(a, id))
  BY <1>7, ElementsOfAppend
<1> DEFINE c == Append(a, id)
<1> HIDE DEF c
<1>10. /\ c \o b \in Seq(Number)
       /\ ToSet(c \o b) = ToSet(c) \cup ToSet(b)
       /\ Distinct(c) /\ Distinct(b) /\ ToSet(c) \cap ToSet(b) = {} => Distinct(c \o b)
  <2>1. c \in Seq(Number)
    BY <1>9 DEF c
  <2> QED
    BY <1>7, <2>1, ElementsOfConcat
<1>11. InsertByTime(id) = c \o b
  BY <1>6, <1>8 DEF c
<1>12. ToSet(c) = ToSet(a) \cup {id} /\ (Distinct(a) /\ id \notin ToSet(a) => Distinct(c))
  BY <1>9 DEF c
<1>13. Distinct(delayed) /\ id \notin ToSet(delayed) => Distinct(c \o b)
  BY <1>7, <1>10, <1>12
<1> QED
  BY <1>7, <1>10, <1>11, <1>12, <1>13

\* The first task of work_queue_ is run, deferred or delayed.
LEMMA TakeWork ==
  ASSUME TasksOK, QueuesOK, started \subseteq Number, Partition, Order,
         work # <<>>, work' = Tail(work), UNCHANGED <<tasks, incoming>>,
         \/ /\ tasks[Head(work)].time # 0
            /\ delayed' = InsertByTime(Head(work)) /\ UNCHANGED <<deferred, started>>
         \/ /\ ~tasks[Head(work)].nestable
            /\ deferred' = Append(deferred, Head(work)) /\ UNCHANGED <<delayed, started>>
         \/ started' = started \cup {Head(work)} /\ UNCHANGED <<delayed, deferred>>
  PROVE  QueuesOK' /\ started' \subseteq Number' /\ Partition' /\ Order'
<1> DEFINE id == Head(work)
<1>1. Number' = Number
  BY DEF Number
<1>2. work \in Seq(Number) /\ work \in Seq(Nat)
  BY QueueElements DEF QueuesOK
<1>3. /\ work' \in Seq(Number) /\ id \in Number /\ id \in ToSet(work)
      /\ ToSet(work') \subseteq ToSet(work) /\ ToSet(work) \subseteq ToSet(work') \cup {id}
      /\ Distinct(work') /\ id \notin ToSet(work')
  <2>1. Distinct(work)
    BY DEF Partition
  <2> QED
    BY <1>2, <2>1, ElementsOfTail
<1>4. Increasing(work') /\ \A y \in ToSet(work') : id < y
  BY <1>2, IncreasingTail DEF Order
<1>5. \A y \in ToSet(incoming) : id < y
  BY <1>3 DEF Order
<1>6. tasks' = tasks
  OBVIOUS
<1> HIDE DEF id
<1>7. CASE tasks[id].time # 0 /\ delayed' = InsertByTime(id) /\ UNCHANGED <<deferred, started>>
  <2>1. /\ delayed' \in Seq(Number) /\ ToSet(delayed') = ToSet(delayed) \cup {id}
        /\ Distinct(delayed) /\ id \notin ToSet(delayed) => Distinct(delayed')
    BY <1>3, <1>7, InsertProperties
  <2>2. Partition'
    BY <1>1, <1>3, <1>7, <2>1 DEF Partition
  <2>3. Order'
    <3>1. \A i \in ToSet(delayed') : tasks[i].time # 0
      BY <1>7, <2>1 DEF Order
    <3> QED
      BY <1>3, <1>4, <1>7, <3>1 DEF Order
  <2>4. QueuesOK'
    BY <1>1, <1>3, <1>7, <2>1 DEF QueuesOK
  <2> QED
    BY <1>1, <1>7, <2>2, <2>3, <2>4
<1>8. CASE /\ ~tasks[id].nestable
           /\ deferred' = Append(deferred, id) /\ UNCHANGED <<delayed, started>>
  <2>1. /\ deferred' \in Seq(Number) /\ ToSet(deferred') = ToSet(deferred) \cup {id}
        /\ Distinct(deferred) /\ id \notin ToSet(deferred) => Distinct(deferred')
    BY <1>3, <1>8, ElementsOfAppend DEF QueuesOK
  <2>2. Partition'
    BY <1>1, <1>3, <1>8, <2>1 DEF Partition
  <2>3. Order'
    <3>1. \A i \in ToSet(deferred') : ~tasks[i].nestable
      BY <1>8, <2>1 DEF Order
    <3>2. \A i \in started \cup ToSet(deferred'), j \in ToSet(work') \cup ToSet(incoming) :
            tasks[i].time = 0 => i < j
      BY <1>3, <1>4, <1>5, <2>1 DEF Order
    <3> QED
      BY <1>3, <1>4, <1>8, <3>1, <3>2 DEF Order
  <2>4. QueuesOK'
    BY <1>1, <1>3, <1>8, <2>1 DEF QueuesOK
  <2> QED
    BY <1>1, <1>8, <2>2, <2>3, <2>4
<1>9. CASE started' = started \cup {id} /\ UNCHANGED <<delayed, deferred>>
  <2>1. Partition'
    BY <1>1, <1>3, <1>9 DEF Partition
  <2>2. Order'
    <3>1. \A i \in started' \cup ToSet(deferred), j \in ToSet(work') \cup ToSet(incoming) :
            tasks[i].time = 0 => i < j
      BY <1>3, <1>4, <1>5, <1>9 DEF Order
    <3> QED
      BY <1>3, <1>4, <1>9, <3>1 DEF Order
  <2>3. QueuesOK'
    BY <1>1, <1>3, <1>9 DEF QueuesOK
  <2> QED
    BY <1>1, <1>3, <1>9, <2>1, <2>2, <2>3
<1> QED
  BY <1>7, <1>8, <1>9 DEF id

\* The first delayed task is run or deferred.
LEMMA TakeDelayed ==
  ASSUME TasksOK, QueuesOK, started \subseteq Number, Partition, Order,
         delayed # <<>>, delayed' = Tail(delayed), UNCHANGED <<tasks, incoming, work>>,
         \/ /\ ~tasks[Head(delayed)].nestable
            /\ deferred' = Append(deferred, Head(delayed)) /\ UNCHANGED started
         \/ started' = started \cup {Head(delayed)} /\ UNCHANGED deferred
  PROVE  QueuesOK' /\ started' \subseteq Number' /\ Partition' /\ Order'
<1> DEFINE id == Head(delayed)
<1>1. Number' = Number
  BY DEF Number
<1>2. delayed \in Seq(Number) /\ Distinct(delayed)
  BY DEF QueuesOK, Partition
<1>3. /\ delayed' \in Seq(Number) /\ id \in Number /\ id \in ToSet(delayed)
      /\ ToSet(delayed') \subseteq ToSet(delayed)
      /\ ToSet(delayed) \subseteq ToSet(delayed') \cup {id}
      /\ Distinct(delayed') /\ id \notin ToSet(delayed')
  BY <1>2, ElementsOfTail
<1>4. tasks[id].time # 0
  BY <1>3 DEF Order
<1> HIDE DEF id
<1>5. CASE /\ ~tasks[id].nestable
           /\ deferred' = Append(deferred, id) /\ UNCHANGED started
  <2>1. /\ deferred' \in Seq(Number) /\ ToSet(deferred') = ToSet(deferred) \cup {id}
        /\ Distinct(deferred) /\ id \notin ToSet(deferred) => Distinct(deferred')
    BY <1>3, <1>5, ElementsOfAppend DEF QueuesOK
  <2>2. Partition'
    BY <1>1, <1>3, <1>5, <2>1 DEF Partition
  <2>3. Order'
    <3>1. \A i \in ToSet(deferred') : ~tasks[i].nestable
      BY <1>5, <2>1 DEF Order
    <3>2. \A i \in started \cup ToSet(deferred'), j \in ToSet(work) \cup ToSet(incoming) :
            tasks[i].time = 0 => i < j
      BY <1>4, <2>1 DEF Order
    <3> QED
      BY <1>3, <1>5, <3>1, <3>2 DEF Order
  <2>4. QueuesOK'
    BY <1>1, <1>3, <1>5, <2>1 DEF QueuesOK
  <2> QED
    BY <1>1, <1>5, <2>2, <2>3, <2>4
<1>6. CASE started' = started \cup {id} /\ UNCHANGED deferred
  <2>1. Partition'
    BY <1>1, <1>3, <1>6 DEF Partition
  <2>2. Order'
    <3>1. \A i \in started' \cup ToSet(deferred), j \in ToSet(work) \cup ToSet(incoming) :
            tasks[i].time = 0 => i < j
      BY <1>4, <1>6 DEF Order
    <3> QED
      BY <1>3, <1>6, <3>1 DEF Order
  <2>3. QueuesOK'
    BY <1>1, <1>3, <1>6 DEF QueuesOK
  <2> QED
    BY <1>1, <1>3, <1>6, <2>1, <2>2, <2>3
<1> QED
  BY <1>5, <1>6 DEF id

\* The first deferred task is run.
LEMMA TakeDeferred ==
  ASSUME TasksOK, QueuesOK, started \subseteq Number, Partition, Order,
         deferred # <<>>, deferred' = Tail(deferred),
         started' = started \cup {Head(deferred)},
         UNCHANGED <<tasks, incoming, work, delayed>>
  PROVE  QueuesOK' /\ started' \subseteq Number' /\ Partition' /\ Order'
<1> DEFINE id == Head(deferred)
<1>1. Number' = Number
  BY DEF Number
<1>2. deferred \in Seq(Number) /\ Distinct(deferred)
  BY DEF QueuesOK, Partition
<1>3. /\ deferred' \in Seq(Number) /\ id \in Number /\ id \in ToSet(deferred)
      /\ ToSet(deferred') \subseteq ToSet(deferred)
      /\ ToSet(deferred) \subseteq ToSet(deferred') \cup {id}
      /\ Distinct(deferred') /\ id \notin ToSet(deferred')
  BY <1>2, ElementsOfTail
<1>4. started' = started \cup {id}
  OBVIOUS
<1> HIDE DEF id
<1>5. Partition'
  BY <1>1, <1>3, <1>4 DEF Partition
<1>6. Order'
  <2>1. \A i \in started' \cup ToSet(deferred'), j \in ToSet(work) \cup ToSet(incoming) :
          tasks[i].time = 0 => i < j
    BY <1>3, <1>4 DEF Order
  <2>2. \A i \in ToSet(deferred') : ~tasks[i].nestable
    BY <1>3 DEF Order
  <2> QED
    BY <1>3, <2>1, <2>2 DEF Order
<1>7. QueuesOK'
  BY <1>1, <1>3 DEF QueuesOK
<1> QED
  BY <1>1, <1>3, <1>4, <1>5, <1>6, <1>7

----------------------------------------------------------------------------
(* Other steps: stacks and types.                                          *)

\* What is being posted has a Flag that was given out.
PostsKnown(s) ==
  \A i \in 1 .. Len(s) : s[i].op = "post" => s[i].task.flag <= starts

LEMMA PushKnown ==
  ASSUME NEW s \in Seq(Frame), PostsKnown(s), NEW f \in Frame,
         f.op = "post" => f.task.flag <= starts
  PROVE  PostsKnown(Append(s, f))
<1>1. /\ Len(Append(s, f)) = Len(s) + 1 /\ Len(s) \in Nat /\ Append(s, f)[Len(s) + 1] = f
      /\ \A i \in 1 .. Len(s) : Append(s, f)[i] = s[i]
  BY PushProperties
<1>2. \A i \in 1 .. Len(Append(s, f)) : i = Len(s) + 1 \/ i \in 1 .. Len(s)
  BY <1>1
<1> QED
  BY <1>1, <1>2 DEF PostsKnown

LEMMA PopKnown ==
  ASSUME NEW s \in Seq(Frame), s # <<>>, PostsKnown(s)
  PROVE  PostsKnown(SubSeq(s, 1, Len(s) - 1))
<1> DEFINE p == SubSeq(s, 1, Len(s) - 1)
<1>1. Len(p) = Len(s) - 1 /\ Len(s) \in Nat \ {0} /\ \A i \in 1 .. Len(p) : p[i] = s[i]
  BY PopProperties
<1> HIDE DEF p
<1>2. PostsKnown(p)
  BY <1>1 DEF PostsKnown
<1> QED
  BY <1>2 DEF p

\* A call: its frame comes on top.
LEMMA CallStack ==
  ASSUME NEW t, NEW s, StackOK(t, s), PostsKnown(s), NEW f \in Frame,
         s # <<>> => Calls(s[Len(s)], f),
         f \notin CallFrame => t = Loop,
         t = Loop => s # <<>> \/ f.op = "run",
         f.op = "post" => f.task.flag <= starts
  PROVE  LET n == Append(s, f)
         IN  StackOK(t, n) /\ PostsKnown(n) /\ n # <<>> /\ n[Len(n)] = f
<1>1. s \in Seq(Frame)
  BY DEF StackOK
<1>2. Append(s, f) # <<>> /\ Append(s, f)[Len(Append(s, f))] = f
  BY <1>1, PushProperties
<1>3. StackOK(t, Append(s, f))
  BY StackPush
<1> QED
  BY <1>1, <1>2, <1>3, PushKnown

\* The frame of a Run or of a call changes.
LEMMA ChangeStack ==
  ASSUME NEW t, NEW s, StackOK(t, s), PostsKnown(s), s # <<>>, NEW f \in Frame,
         f.op = s[Len(s)].op, f.op # "post"
  PROVE  LET n == Append(SubSeq(s, 1, Len(s) - 1), f)
         IN  StackOK(t, n) /\ PostsKnown(n) /\ n # <<>> /\ n[Len(n)] = f
<1> DEFINE p == SubSeq(s, 1, Len(s) - 1)
<1>1. s \in Seq(Frame)
  BY DEF StackOK
<1>2. p \in Seq(Frame) /\ PostsKnown(p)
  BY <1>1, PopProperties, PopKnown
<1>3. StackOK(t, Append(p, f))
  BY StackGoTo
<1> HIDE DEF p
<1>4. PostsKnown(Append(p, f)) /\ Append(p, f) # <<>> /\ Append(p, f)[Len(Append(p, f))] = f
  BY <1>2, PushKnown, PushProperties
<1> QED
  BY <1>3, <1>4 DEF p

\* A call returns, to what called it.
LEMMA ReturnStack ==
  ASSUME NEW t, NEW s, StackOK(t, s), PostsKnown(s), s # <<>>
  PROVE  LET n == SubSeq(s, 1, Len(s) - 1)
         IN  /\ StackOK(t, n) /\ PostsKnown(n)
             /\ n # <<>> => Calls(n[Len(n)], s[Len(s)])
<1> DEFINE n == SubSeq(s, 1, Len(s) - 1)
<1>1. s \in Seq(Frame)
  BY DEF StackOK
<1>2. /\ n \in Seq(Frame) /\ Len(n) = Len(s) - 1 /\ Len(s) \in Nat \ {0}
      /\ \A i \in 1 .. Len(n) : n[i] = s[i]
  BY <1>1, PopProperties
<1>3. StackOK(t, n) /\ PostsKnown(n)
  BY <1>1, StackPop, PopKnown
<1> HIDE DEF n
<1>4. ASSUME n # <<>> PROVE Calls(n[Len(n)], s[Len(s)])
  <2>1. Len(n) # 0
    BY <1>2, <1>4, EmptySeq
  <2>2. Len(n) \in 1 .. Len(n) /\ Len(n) \in 1 .. Len(s) /\ Len(s) \in 1 .. Len(s)
        /\ Len(s) = Len(n) + 1
    BY <1>2, <2>1
  <2>3. n[Len(n)] = s[Len(n)]
    BY <1>2, <2>2
  <2> QED
    BY <2>2, <2>3 DEF StackOK
<1> QED
  BY <1>3, <1>4 DEF n

\* The types of a step that changes one stack and gives out no Flag.
LEMMA TypesKept ==
  ASSUME TypesOK, NEW t \in Thread, NEW n, stack' = [stack EXCEPT ![t] = n],
         StackOK(t, n), PostsKnown(n),
         EventTypeOK', UNCHANGED <<starts, cancel_flag>>,
         \A d \in Event : \A x \in ToSet(waiters'[d]) : x \in ToSet(waiters[d]) \/ x.flag = 0,
         TasksOK', QueuesOK', LeftOK', nestable_allowed' \in BOOLEAN,
         keep_running' \in BOOLEAN, delayed_time' \in 0 .. MaxTime, recent_time' \in 0 .. now',
         started' \subseteq Number'
  PROVE  TypesOK' /\ stack'[t] = n /\ \A u \in Thread : u # t => stack'[u] = stack[u]
<1>1. StacksOK' /\ stack'[t] = n /\ \A u \in Thread : u # t => stack'[u] = stack[u]
  BY EventMoveStacks DEF TypesOK
<1>2. \A u \in Thread : \A i \in 1 .. Len(stack'[u]) :
        stack'[u][i].op = "post" => stack'[u][i].task.flag <= starts
  BY <1>1 DEF TypesOK, FlagsOK, PostsKnown
<1>3. \A e \in Event : \A i \in 1 .. Len(waiters'[e]) : waiters'[e][i].flag <= starts
  <2> SUFFICES ASSUME NEW e \in Event, NEW i \in 1 .. Len(waiters'[e])
               PROVE  waiters'[e][i].flag <= starts
    OBVIOUS
  <2>0. EventTypeOK /\ FlagsOK
    BY DEF TypesOK
  <2>1. waiters'[e] \in Seq(Waiter) /\ waiters[e] \in Seq(Waiter) /\ starts \in Nat
    BY <2>0 DEF EventTypeOK
  <2>2. waiters'[e][i] \in ToSet(waiters'[e])
    BY <2>1, ElementsAre
  <2>3. \A x \in ToSet(waiters[e]) : x.flag <= starts
    BY <2>0, <2>1, ElementsAre DEF FlagsOK
  <2> QED
    BY <2>1, <2>2, <2>3
<1>4. FlagsOK'
  BY <1>2, <1>3 DEF TypesOK, FlagsOK
<1> QED
  BY <1>1, <1>4 DEF TypesOK

----------------------------------------------------------------------------
(* The steps of the loop.                                                  *)

LEMMA LoopIsAt ==
  ASSUME TypesOK, stack[Loop] # <<>>
  PROVE  /\ Loop \in Thread /\ StackOK(Loop, stack[Loop]) /\ PostsKnown(stack[Loop])
         /\ Top(Loop) = stack[Loop][Len(stack[Loop])] /\ Top(Loop) \in Frame
         /\ In(Loop, "run") => Top(Loop) \in RunFrame
<1>1. Loop \in Thread /\ StacksOK /\ FlagsOK
  BY LoopConstantsOK DEF TypesOK
<1>2. Top(Loop) \in Frame
  BY <1>1, TopIsFrame
<1>3. In(Loop, "run") => Top(Loop) \in RunFrame
  BY <1>2, FrameFields DEF In
<1> QED
  BY <1>1, <1>2, <1>3 DEF StacksOK, FlagsOK, PostsKnown, Top

\* The frame of Run changes.
LEMMA RunChanges ==
  ASSUME TypesOK, In(Loop, "run"), NEW f \in RunFrame, GoTo(Loop, f)
  PROVE  \E n : /\ stack' = [stack EXCEPT ![Loop] = n] /\ StackOK(Loop, n) /\ PostsKnown(n)
                /\ n # <<>> /\ n[Len(n)] = f
<1> DEFINE s == stack[Loop]
           n == Append(SubSeq(s, 1, Len(s) - 1), f)
<1>1. s # <<>> /\ Top(Loop).op = "run"
  BY DEF In
<1>2. StackOK(Loop, s) /\ PostsKnown(s) /\ Top(Loop) = s[Len(s)]
  BY <1>1, LoopIsAt
<1>3. f \in Frame /\ f.op = "run"
  BY DEF Frame, RunFrame
<1>4. StackOK(Loop, n) /\ PostsKnown(n) /\ n # <<>> /\ n[Len(n)] = f
  <2>1. f.op = s[Len(s)].op /\ f.op # "post"
    BY <1>1, <1>2, <1>3
  <2> QED
    BY <1>1, <1>2, <1>3, <2>1, ChangeStack
<1>5. stack' = [stack EXCEPT ![Loop] = n]
  BY DEF GoTo, Below
<1> QED
  BY <1>4, <1>5

LEMMA ProceedChanges ==
  ASSUME TypesOK, In(Loop, "run"), NEW point \in {"work", "delayed", "idle", "sleep"},
         NEW did_work \in BOOLEAN, Proceed(point, did_work)
  PROVE  \E f, n :
           /\ f \in RunFrame
           /\ stack' = [stack EXCEPT ![Loop] = n] /\ StackOK(Loop, n) /\ PostsKnown(n)
           /\ n # <<>> /\ n[Len(n)] = f
           /\ f.point = point /\ f.did_work = (Top(Loop).did_work \/ did_work)
<1> DEFINE f == [Top(Loop) EXCEPT !.point = point, !.did_work = @ \/ did_work]
<1>1. Top(Loop) \in RunFrame
  BY LoopIsAt DEF In
<1>2. (Top(Loop).did_work \/ did_work) \in BOOLEAN
  OBVIOUS
<1>3. f \in RunFrame /\ f.point = point /\ f.did_work = (Top(Loop).did_work \/ did_work)
  BY <1>1, <1>2 DEF RunFrame
<1>4. GoTo(Loop, f)
  BY DEF Proceed
<1> HIDE DEF f
<1> QED
  BY <1>3, <1>4, RunChanges

\* A task is run by Run: its frame comes on top.
LEMMA RunTaskChanges ==
  ASSUME TypesOK, In(Loop, "run"), NEW id \in Number,
         NEW point \in {"work", "delayed", "idle", "sleep"}, RunTask(id, point)
  PROVE  \E n : /\ stack' = [stack EXCEPT ![Loop] = n] /\ StackOK(Loop, n) /\ PostsKnown(n)
                /\ n # <<>> /\ n[Len(n)] = Task(id)
<1> DEFINE s == stack[Loop]
           f == [Top(Loop) EXCEPT !.point = point, !.did_work = TRUE]
           m == Append(SubSeq(s, 1, Len(s) - 1), f)
<1>1. s # <<>> /\ Top(Loop).op = "run"
  BY DEF In
<1>2. StackOK(Loop, s) /\ PostsKnown(s) /\ Top(Loop) = s[Len(s)] /\ Top(Loop) \in RunFrame
  BY <1>1, LoopIsAt DEF In
<1>3. f \in RunFrame /\ f.did_work
  BY <1>2 DEF RunFrame
<1>4. f \in Frame /\ f.op = "run" /\ f.op = s[Len(s)].op /\ f.op # "post"
  BY <1>1, <1>2, <1>3 DEF Frame, RunFrame
<1> HIDE DEF f
<1>5. StackOK(Loop, m) /\ PostsKnown(m) /\ m # <<>> /\ m[Len(m)] = f
  BY <1>1, <1>2, <1>4, ChangeStack
<1>6. Task(id) \in Frame /\ Task(id).op = "task"
  <2>1. id \in Nat
    BY QueueElements DEF TypesOK
  <2> QED
    BY <2>1 DEF Task, Frame, TaskFrame
<1>7. Calls(f, Task(id))
  BY <1>3, <1>4, <1>6 DEF Calls
<1>8. m \in Seq(Frame)
  BY <1>5 DEF StackOK
<1>9. stack' = [stack EXCEPT ![Loop] = m \o <<Task(id)>>]
  BY DEF RunTask, Below, f
<1> HIDE DEF m
<1>10. m \o <<Task(id)>> = Append(m, Task(id))
  BY <1>6, <1>8, PushIsConcat
<1> DEFINE n == Append(m, Task(id))
<1>11. StackOK(Loop, n) /\ PostsKnown(n) /\ n # <<>> /\ n[Len(n)] = Task(id)
  BY <1>5, <1>6, <1>7, CallStack
<1> QED
  BY <1>9, <1>10, <1>11

\* What the callback of a task does to Flags.
LEMMA CallbackTyped ==
  ASSUME TypesOK, NEW id \in Number, RunCallback(tasks[id].flag), UNCHANGED <<now, eventVars>>
  PROVE  EventTypeOK' /\ UNCHANGED <<starts, cancel_flag>>
<1>0. EventTypeOK /\ TasksOK
  BY DEF TypesOK
<1>a. tasks[id] \in PostedTask
  BY <1>0, ElementOfSeq DEF TasksOK, Number
<1>1. EventTypeOK /\ tasks[id].flag \in Nat /\ tasks[id].flag <= starts
  BY <1>0, <1>a DEF TasksOK, PostedTask
<1>2. set_flags' \subseteq 1 .. starts /\ heard' \subseteq set_flags'
  <2>1. set_flags \subseteq 1 .. starts /\ heard \subseteq set_flags /\ starts \in Nat
    BY <1>1 DEF EventTypeOK
  <2>2. tasks[id].flag # 0 => tasks[id].flag \in 1 .. starts
    BY <1>1, <2>1
  <2> QED
    BY <2>1, <2>2 DEF RunCallback
<1>3. UNCHANGED <<cancel_flag, kernel, starts, watched>>
  BY DEF RunCallback
<1> QED
  BY <1>1, <1>2, <1>3 DEF EventTypeOK, eventVars

\* RunTask, with a task taken from a queue.
LEMMA RunTaskKeeps ==
  ASSUME IInv, In(Loop, "run"), NEW id \in Number,
         NEW point \in {"work", "delayed", "idle", "sleep"}, RunTask(id, point),
         QueuesOK', started' \subseteq Number', Partition', Order',
         delayed_time' \in 0 .. MaxTime, recent_time' \in 0 .. now
  PROVE  IInv'
<1>1. TypesOK
  BY DEF IInv
<1>2. PICK n : /\ stack' = [stack EXCEPT ![Loop] = n] /\ StackOK(Loop, n) /\ PostsKnown(n)
               /\ n # <<>> /\ n[Len(n)] = Task(id)
  BY <1>1, RunTaskChanges
<1>3. UNCHANGED <<now, eventVars, tasks, keep_running, left>> /\ nestable_allowed' = FALSE
  BY DEF RunTask
<1>4. EventTypeOK' /\ UNCHANGED <<starts, cancel_flag>>
  BY <1>1, <1>3, CallbackTyped DEF RunTask
<1>5. TasksOK' /\ LeftOK'
  BY <1>1, <1>3, <1>4 DEF TypesOK, TasksOK, LeftOK, Number
<1>6. waiters' = waiters
  BY <1>3 DEF eventVars
<1>7. nestable_allowed' \in BOOLEAN /\ keep_running' \in BOOLEAN /\ recent_time' \in 0 .. now'
  BY <1>1, <1>3 DEF TypesOK
<1>8. Loop \in Thread
  BY LoopConstantsOK
<1>9. TypesOK'
  BY <1>1, <1>2, <1>4, <1>5, <1>6, <1>7, <1>8, TypesKept
<1>10. PumpTold'
  BY <1>3 DEF PumpTold
<1> QED
  BY <1>9, <1>10 DEF IInv

\* A step of Run that changes its frame and no queue.
LEMMA RunKeeps ==
  ASSUME IInv, NEW n, stack' = [stack EXCEPT ![Loop] = n], StackOK(Loop, n), PostsKnown(n),
         UNCHANGED <<now, eventVars, watchVars, tasks, queueVars, started, left>>,
         nestable_allowed' \in BOOLEAN, keep_running' \in BOOLEAN,
         delayed_time' \in 0 .. MaxTime, recent_time' \in 0 .. now
  PROVE  TypesOK' /\ Partition' /\ Order' /\ stack'[Loop] = n
<1>1. TypesOK
  BY DEF IInv
<1>2. UNCHANGED <<now, lock, signaled, waiters, fired, given, taken, cancel_flag, kernel,
                  set_flags, starts, watched, heard, tasks, incoming, work, delayed, deferred,
                  started, left>>
  BY DEF eventVars, watchVars, queueVars
<1>3. EventTypeOK'
  BY <1>1, <1>2 DEF TypesOK, EventTypeOK
<1>4. TasksOK' /\ LeftOK' /\ QueuesOK' /\ started' \subseteq Number'
  BY <1>1, <1>2 DEF TypesOK, TasksOK, LeftOK, QueuesOK, Number
<1>5. Loop \in Thread
  BY LoopConstantsOK
<1>6. TypesOK' /\ stack'[Loop] = n
  BY <1>1, <1>2, <1>3, <1>4, <1>5, TypesKept
<1>7. Partition' /\ Order'
  BY <1>2 DEF IInv, Partition, Order, Number
<1> QED
  BY <1>6, <1>7

LEMMA AtRun ==
  ASSUME NEW point, At(point)
  PROVE  In(Loop, "run") /\ Top(Loop).op = "run" /\ Top(Loop).point = point
         /\ stack[Loop] # <<>>
  BY DEF At, In

\* The pump, unless Run has looked for delayed tasks or a thread waits.
LEMMA PumpElsewhere ==
  ASSUME NEW n, stack'[Loop] = n,
         n # <<>> => /\ n[Len(n)].op = "wait" => n[Len(n)].ev # Pump
                     /\ n[Len(n)].op = "run" =>
                          n[Len(n)].point \in {"work", "delayed"} \/ n[Len(n)].did_work
  PROVE  PumpTold'
  BY DEF PumpTold, Top

LEMMA ReloadKeeps ==
  ASSUME IInv, ReloadWorkQueue
  PROVE  IInv'
<1>1. TypesOK /\ Partition /\ Order /\ TasksOK /\ QueuesOK /\ started \subseteq Number
  BY DEF IInv, TypesOK
<1>2. /\ work = <<>> /\ work' = incoming /\ incoming' = <<>>
      /\ UNCHANGED <<stack, now, eventVars, watchVars, tasks, delayed, deferred, runVars,
                     timeVars, started, left>>
  BY DEF ReloadWorkQueue
<1>3. QueuesOK' /\ Partition' /\ Order'
  BY <1>1, <1>2, ReloadQueues
<1>4. UNCHANGED <<stack, now, lock, signaled, waiters, fired, given, taken, cancel_flag, kernel,
                  set_flags, starts, watched, heard, tasks, delayed, nestable_allowed,
                  keep_running, delayed_time, recent_time, started, left>>
  BY <1>2 DEF eventVars, watchVars, runVars, timeVars
<1>5. EventTypeOK' /\ StacksOK' /\ FlagsOK' /\ TasksOK' /\ LeftOK'
  BY <1>1, <1>4 DEF TypesOK, EventTypeOK, StacksOK, FlagsOK, TasksOK, LeftOK, Number
<1>6. TypesOK'
  BY <1>1, <1>3, <1>4, <1>5 DEF TypesOK, Number
<1>7. PumpTold'
  BY <1>4 DEF IInv, PumpTold, Top
<1> QED
  BY <1>3, <1>6, <1>7 DEF IInv

LEMMA MoveDelayedKeeps ==
  ASSUME IInv, MoveDelayedTask
  PROVE  IInv'
<1> DEFINE id == Head(work)
<1>1. TypesOK /\ Partition /\ Order /\ TasksOK /\ QueuesOK /\ started \subseteq Number
  BY DEF IInv, TypesOK
<1>2. /\ work # <<>> /\ work' = Tail(work) /\ tasks[id].time # 0
      /\ delayed' = InsertByTime(id)
      /\ delayed_time' \in {tasks[id].time, delayed_time}
      /\ UNCHANGED <<stack, now, eventVars, watchVars, tasks, incoming, deferred, runVars,
                     recent_time, started, left>>
  BY DEF MoveDelayedTask
<1>3. QueuesOK' /\ started' \subseteq Number' /\ Partition' /\ Order'
  BY <1>1, <1>2, TakeWork
<1>4. UNCHANGED <<stack, now, lock, signaled, waiters, fired, given, taken, cancel_flag, kernel,
                  set_flags, starts, watched, heard, tasks, nestable_allowed,
                  keep_running, recent_time, started, left>>
  BY <1>2 DEF eventVars, watchVars, runVars
<1>5. EventTypeOK' /\ StacksOK' /\ FlagsOK' /\ TasksOK' /\ LeftOK'
  BY <1>1, <1>4 DEF TypesOK, EventTypeOK, StacksOK, FlagsOK, TasksOK, LeftOK, Number
<1>6. delayed_time' \in 0 .. MaxTime
  <2>1. id \in Number
    BY <1>1, <1>2, ElementsOfTail DEF QueuesOK
  <2>2. tasks[id] \in PostedTask
    BY <1>1, <2>1, ElementOfSeq DEF TasksOK, Number
  <2>3. tasks[id].time \in 0 .. MaxTime
    BY <2>2 DEF PostedTask
  <2> QED
    BY <1>1, <1>2, <2>3 DEF TypesOK
<1>7. TypesOK'
  BY <1>1, <1>3, <1>4, <1>5, <1>6 DEF TypesOK, Number
<1>8. PumpTold'
  <2>1. Top(Loop).op = "run" /\ Top(Loop).point = "work"
    BY AtRun DEF MoveDelayedTask, InDoWork
  <2> QED
    BY <1>4, <2>1, PumpElsewhere DEF Top
<1> QED
  BY <1>3, <1>7, <1>8 DEF IInv

\* DeferTask: the task waits for the outermost Run.
LEMMA DoWorkKeeps ==
  ASSUME IInv, DoWork
  PROVE  IInv'
<1> DEFINE id == Head(work)
<1>1. TypesOK /\ Partition /\ Order /\ TasksOK /\ QueuesOK /\ started \subseteq Number
  BY DEF IInv, TypesOK
<1>2. work # <<>> /\ work' = Tail(work) /\ UNCHANGED <<delayed, timeVars>>
  BY DEF DoWork
<1>3. id \in Number
  BY <1>1, <1>2, ElementsOfTail DEF QueuesOK
<1>4. In(Loop, "run") /\ Top(Loop).op = "run" /\ Top(Loop).point = "work"
  BY AtRun DEF DoWork, InDoWork
<1>5. CASE MustDefer(id) /\ DeferTask(id) /\ UNCHANGED stack
  <2>1. /\ ~tasks[id].nestable /\ deferred' = Append(deferred, id)
        /\ UNCHANGED <<stack, now, eventVars, watchVars, tasks, incoming, runVars, started, left>>
    BY <1>5 DEF MustDefer, DeferTask
  <2>2. QueuesOK' /\ started' \subseteq Number' /\ Partition' /\ Order'
    BY <1>1, <1>2, <2>1, TakeWork
  <2>3. UNCHANGED <<stack, now, lock, signaled, waiters, fired, given, taken, cancel_flag, kernel,
                    set_flags, starts, watched, heard, tasks, nestable_allowed,
                    keep_running, delayed, delayed_time, recent_time, started, left>>
    BY <1>2, <2>1 DEF eventVars, watchVars, runVars, timeVars
  <2>4. EventTypeOK' /\ StacksOK' /\ FlagsOK' /\ TasksOK' /\ LeftOK'
    BY <1>1, <2>3 DEF TypesOK, EventTypeOK, StacksOK, FlagsOK, TasksOK, LeftOK, Number
  <2>5. TypesOK'
    BY <1>1, <2>2, <2>3, <2>4 DEF TypesOK, Number
  <2>6. PumpTold'
    BY <2>3 DEF IInv, PumpTold, Top
  <2> QED
    BY <2>2, <2>5, <2>6 DEF IInv
<1>6. CASE RunTask(id, "delayed") /\ UNCHANGED deferred
  <2>1. UNCHANGED <<tasks, incoming, now>> /\ started' = started \cup {id}
    BY <1>6 DEF RunTask
  <2>2. QueuesOK' /\ started' \subseteq Number' /\ Partition' /\ Order'
    BY <1>1, <1>2, <1>6, <2>1, TakeWork
  <2>3. delayed_time' \in 0 .. MaxTime /\ recent_time' \in 0 .. now
    BY <1>1, <1>2 DEF TypesOK, timeVars
  <2> HIDE DEF id
  <2> QED
    BY <1>3, <1>4, <1>6, <2>2, <2>3, RunTaskKeeps
<1> QED
  BY <1>5, <1>6 DEF DoWork

LEMMA DoNoWorkKeeps ==
  ASSUME IInv, DoNoWork
  PROVE  IInv'
<1>1. TypesOK /\ In(Loop, "run") /\ Proceed("delayed", FALSE)
      /\ UNCHANGED <<now, eventVars, watchVars, loopVars, left>>
  BY AtRun DEF DoNoWork, IInv
<1>2. PICK f, n :
        /\ f \in RunFrame
        /\ stack' = [stack EXCEPT ![Loop] = n] /\ StackOK(Loop, n) /\ PostsKnown(n)
        /\ n # <<>> /\ n[Len(n)] = f
        /\ f.point = "delayed"
  BY <1>1, ProceedChanges
<1>3. UNCHANGED <<tasks, queueVars, started, nestable_allowed, keep_running, delayed_time,
                  recent_time>>
  BY <1>1 DEF loopVars, runVars, timeVars
<1>4. TypesOK' /\ Partition' /\ Order' /\ stack'[Loop] = n
  <2>1. /\ nestable_allowed' \in BOOLEAN /\ keep_running' \in BOOLEAN
        /\ delayed_time' \in 0 .. MaxTime /\ recent_time' \in 0 .. now
    BY <1>1, <1>3 DEF TypesOK
  <2> QED
    BY <1>1, <1>2, <1>3, <2>1, RunKeeps
<1>5. PumpTold'
  <2>1. f.op = "run"
    BY <1>2 DEF RunFrame
  <2> QED
    BY <1>2, <1>4, <2>1, PumpElsewhere
<1> QED
  BY <1>4, <1>5 DEF IInv

LEMMA DoDelayedWorkKeeps ==
  ASSUME IInv, DoDelayedWork
  PROVE  IInv'
<1> DEFINE id == Head(delayed)
<1>1. TypesOK /\ Partition /\ Order /\ TasksOK /\ QueuesOK /\ started \subseteq Number
  BY DEF IInv, TypesOK
<1>2. /\ delayed # <<>> /\ delayed' = Tail(delayed) /\ UNCHANGED work
      /\ delayed_time' = IF delayed' # <<>> THEN tasks[Head(delayed')].time ELSE delayed_time
      /\ recent_time' \in {now, recent_time}
  BY DEF DoDelayedWork, DelayedIsDue
<1>3. id \in Number /\ delayed' \in Seq(Number)
  BY <1>1, <1>2, ElementsOfTail DEF QueuesOK
<1>4. In(Loop, "run")
  BY AtRun DEF DoDelayedWork
<1>5. delayed_time' \in 0 .. MaxTime
  <2>1. delayed' # <<>> => Head(delayed') \in Number
    BY <1>3, ElementsOfTail
  <2>2. ASSUME NEW i \in Number PROVE tasks[i].time \in 0 .. MaxTime
    <3>1. tasks[i] \in PostedTask
      BY <1>1, ElementOfSeq DEF TasksOK, Number
    <3> QED
      BY <3>1 DEF PostedTask
  <2> QED
    BY <1>1, <1>2, <2>1, <2>2 DEF TypesOK
<1>6. recent_time' \in 0 .. now
  <2>1. now \in Nat /\ recent_time \in 0 .. now
    BY <1>1 DEF TypesOK, EventTypeOK
  <2> QED
    BY <1>2, <2>1
<1>7. CASE MustDefer(id) /\ DeferTask(id) /\ Proceed("idle", FALSE)
  <2>1. /\ ~tasks[id].nestable /\ deferred' = Append(deferred, id)
        /\ UNCHANGED <<now, eventVars, watchVars, tasks, incoming, runVars, started, left>>
    BY <1>7 DEF MustDefer, DeferTask
  <2>2. QueuesOK' /\ started' \subseteq Number' /\ Partition' /\ Order'
    BY <1>1, <1>2, <2>1, TakeDelayed
  <2>3. PICK f, n :
          /\ f \in RunFrame
          /\ stack' = [stack EXCEPT ![Loop] = n] /\ StackOK(Loop, n) /\ PostsKnown(n)
          /\ n # <<>> /\ n[Len(n)] = f
          /\ f.point = "idle"
    BY <1>1, <1>4, <1>7, ProceedChanges
  <2>4. UNCHANGED <<now, lock, signaled, waiters, fired, given, taken, cancel_flag, kernel,
                    set_flags, starts, watched, heard, tasks, nestable_allowed,
                    keep_running, left>>
    BY <2>1 DEF eventVars, watchVars, runVars
  <2>5. EventTypeOK' /\ TasksOK' /\ LeftOK'
    BY <1>1, <2>4 DEF TypesOK, EventTypeOK, TasksOK, LeftOK, Number
  <2>6. nestable_allowed' \in BOOLEAN /\ keep_running' \in BOOLEAN /\ recent_time' \in 0 .. now'
    BY <1>1, <1>6, <2>4 DEF TypesOK
  <2>7. Loop \in Thread
    BY LoopConstantsOK
  <2>8. TypesOK' /\ stack'[Loop] = n
    BY <1>1, <1>5, <2>2, <2>3, <2>4, <2>5, <2>6, <2>7, TypesKept
  <2>9. PumpTold'
    <3>1. f.op = "run"
      BY <2>3 DEF RunFrame
    <3>2. delayed' # <<>> => delayed_time' = tasks'[Head(delayed')].time
      BY <1>2, <2>4
    <3> QED
      BY <2>3, <2>8, <3>1, <3>2 DEF PumpTold, Top
  <2> QED
    BY <2>2, <2>8, <2>9 DEF IInv
<1>8. CASE RunTask(id, "idle") /\ UNCHANGED deferred
  <2>1. UNCHANGED <<tasks, incoming, now>> /\ started' = started \cup {id}
    BY <1>8 DEF RunTask
  <2>2. QueuesOK' /\ started' \subseteq Number' /\ Partition' /\ Order'
    BY <1>1, <1>2, <1>8, <2>1, TakeDelayed
  <2> HIDE DEF id
  <2> QED
    BY <1>3, <1>4, <1>5, <1>6, <1>8, <2>2, RunTaskKeeps
<1> QED
  BY <1>7, <1>8 DEF DoDelayedWork

LEMMA DoNoDelayedWorkKeeps ==
  ASSUME IInv, DoNoDelayedWork
  PROVE  IInv'
<1>1. /\ TypesOK /\ In(Loop, "run") /\ Proceed("idle", FALSE)
      /\ UNCHANGED <<now, eventVars, watchVars, tasks, queueVars, runVars, started, left>>
      /\ IF ~nestable_allowed \/ delayed = <<>>
         THEN recent_time' = 0 /\ delayed_time' = 0
         ELSE recent_time' = now /\ delayed_time' = tasks[Head(delayed)].time
  BY AtRun DEF DoNoDelayedWork, IInv
<1>2. PICK f, n :
        /\ f \in RunFrame
        /\ stack' = [stack EXCEPT ![Loop] = n] /\ StackOK(Loop, n) /\ PostsKnown(n)
        /\ n # <<>> /\ n[Len(n)] = f
        /\ f.point = "idle"
  BY <1>1, ProceedChanges
<1>3. UNCHANGED <<nestable_allowed, keep_running, delayed>>
  BY <1>1 DEF runVars, queueVars
<1>4. delayed_time' \in 0 .. MaxTime
  <2>1. delayed \in Seq(Number) /\ tasks \in Seq(PostedTask) /\ MaxTime \in Nat
    BY <1>1, LoopConstantsOK DEF TypesOK, QueuesOK, TasksOK
  <2>2. CASE ~nestable_allowed \/ delayed = <<>>
    BY <1>1, <2>1, <2>2
  <2>3. CASE ~(~nestable_allowed \/ delayed = <<>>)
    <3>1. Head(delayed) \in Number
      BY <2>1, <2>3, ElementsOfTail
    <3>2. tasks[Head(delayed)] \in PostedTask
      BY <2>1, <3>1, ElementOfSeq DEF Number
    <3>3. tasks[Head(delayed)].time \in 0 .. MaxTime
      BY <3>2 DEF PostedTask
    <3> QED
      BY <1>1, <2>3, <3>3
  <2> QED
    BY <2>2, <2>3
<1>5. recent_time' \in 0 .. now
  <2>1. now \in Nat
    BY <1>1 DEF TypesOK, EventTypeOK
  <2> QED
    BY <1>1, <2>1
<1>6. TypesOK' /\ Partition' /\ Order' /\ stack'[Loop] = n
  <2>1. nestable_allowed' \in BOOLEAN /\ keep_running' \in BOOLEAN
    BY <1>1, <1>3 DEF TypesOK
  <2> QED
    BY <1>1, <1>2, <1>4, <1>5, <2>1, RunKeeps
<1>7. PumpTold'
  <2>1. f.op = "run"
    BY <1>2 DEF RunFrame
  <2>2. delayed' # <<>> /\ nestable_allowed' => delayed_time' = tasks'[Head(delayed')].time
    BY <1>1, <1>3
  <2> QED
    BY <1>2, <1>6, <2>1, <2>2 DEF PumpTold, Top
<1> QED
  BY <1>6, <1>7 DEF IInv

LEMMA NextRoundKeeps ==
  ASSUME IInv, NextRound
  PROVE  IInv'
<1> DEFINE f == [Top(Loop) EXCEPT !.point = "work", !.did_work = FALSE]
<1>1. TypesOK /\ In(Loop, "run") /\ GoTo(Loop, f)
      /\ UNCHANGED <<now, eventVars, watchVars, loopVars, left>>
  BY AtRun DEF NextRound, IInv
<1>2. Top(Loop) \in RunFrame
  BY <1>1, LoopIsAt DEF In
<1>3. f \in RunFrame /\ f.op = "run" /\ f.point = "work"
  BY <1>2 DEF RunFrame
<1> HIDE DEF f
<1>4. PICK n : /\ stack' = [stack EXCEPT ![Loop] = n] /\ StackOK(Loop, n) /\ PostsKnown(n)
               /\ n # <<>> /\ n[Len(n)] = f
  BY <1>1, <1>3, RunChanges
<1>5. UNCHANGED <<tasks, queueVars, started, nestable_allowed, keep_running, delayed_time,
                  recent_time>>
  BY <1>1 DEF loopVars, runVars, timeVars
<1>6. TypesOK' /\ Partition' /\ Order' /\ stack'[Loop] = n
  <2>1. /\ nestable_allowed' \in BOOLEAN /\ keep_running' \in BOOLEAN
        /\ delayed_time' \in 0 .. MaxTime /\ recent_time' \in 0 .. now
    BY <1>1, <1>5 DEF TypesOK
  <2> QED
    BY <1>1, <1>4, <1>5, <2>1, RunKeeps
<1>7. PumpTold'
  BY <1>3, <1>4, <1>6, PumpElsewhere
<1> QED
  BY <1>6, <1>7 DEF IInv

LEMMA RunDeferredKeeps ==
  ASSUME IInv, RunDeferred
  PROVE  IInv'
<1> DEFINE id == Head(deferred)
<1>1. TypesOK /\ Partition /\ Order /\ TasksOK /\ QueuesOK /\ started \subseteq Number
  BY DEF IInv, TypesOK
<1>2. /\ deferred # <<>> /\ deferred' = Tail(deferred) /\ UNCHANGED <<work, delayed, timeVars>>
      /\ RunTask(id, "sleep") /\ In(Loop, "run")
  BY AtRun DEF RunDeferred
<1>3. id \in Number
  BY <1>1, <1>2, ElementsOfTail DEF QueuesOK
<1>4. UNCHANGED <<tasks, incoming>> /\ started' = started \cup {id}
  BY <1>2 DEF RunTask
<1>5. QueuesOK' /\ started' \subseteq Number' /\ Partition' /\ Order'
  BY <1>1, <1>2, <1>4, TakeDeferred
<1>6. delayed_time' \in 0 .. MaxTime /\ recent_time' \in 0 .. now
  BY <1>1, <1>2 DEF TypesOK, timeVars
<1> HIDE DEF id
<1> QED
  BY <1>1, <1>2, <1>3, <1>5, <1>6, RunTaskKeeps

LEMMA DoNoIdleWorkKeeps ==
  ASSUME IInv, DoNoIdleWork
  PROVE  IInv'
<1>1. /\ TypesOK /\ In(Loop, "run") /\ Proceed("sleep", FALSE)
      /\ Top(Loop).point = "idle" /\ ~Top(Loop).did_work /\ keep_running' = ~Top(Loop).quit
      /\ UNCHANGED <<now, eventVars, watchVars, tasks, queueVars, nestable_allowed, timeVars,
                     started, left>>
  BY AtRun DEF DoNoIdleWork, IInv
<1>2. PICK f, n :
        /\ f \in RunFrame
        /\ stack' = [stack EXCEPT ![Loop] = n] /\ StackOK(Loop, n) /\ PostsKnown(n)
        /\ n # <<>> /\ n[Len(n)] = f
        /\ f.point = "sleep"
  BY <1>1, ProceedChanges
<1>3. UNCHANGED <<delayed, delayed_time, recent_time>>
  BY <1>1 DEF timeVars, queueVars
<1>4. Top(Loop) \in RunFrame /\ stack[Loop] # <<>>
  BY <1>1, LoopIsAt DEF In
<1>5. TypesOK' /\ Partition' /\ Order' /\ stack'[Loop] = n
  <2>1. keep_running' \in BOOLEAN
    BY <1>1, <1>4
  <2>2. /\ nestable_allowed' \in BOOLEAN
        /\ delayed_time' \in 0 .. MaxTime /\ recent_time' \in 0 .. now
    BY <1>1, <1>3 DEF TypesOK
  <2> QED
    BY <1>1, <1>2, <2>1, <2>2, RunKeeps
<1>6. PumpTold'
  <2>1. f.op = "run" /\ Top(Loop).op = "run"
    BY <1>2, <1>4 DEF RunFrame
  <2>2. delayed # <<>> /\ nestable_allowed => delayed_time = tasks[Head(delayed)].time
    BY <1>1, <1>4, <2>1 DEF IInv, PumpTold
  <2> QED
    BY <1>1, <1>2, <1>3, <1>5, <2>1, <2>2 DEF PumpTold, Top
<1> QED
  BY <1>5, <1>6 DEF IInv

\* TimedWait changes no type.
LEMMA TimedWaitTyped ==
  ASSUME EventTypeOK, NEW t \in Thread, NEW e \in Event, NEW until \in Nat,
         TimedWait(t, e, until)
  PROVE  /\ EventTypeOK' /\ UNCHANGED <<now, starts, cancel_flag>>
         /\ \A d \in Event : \A x \in ToSet(waiters'[d]) :
              x \in ToSet(waiters[d]) \/ x.flag = 0
<1>0. EventsTyped /\ waiters \in [Event -> Seq(Waiter)]
  BY DEF EventTypeOK, EventsTyped
<1>1. UNCHANGED <<now, lock, given, cancel_flag, kernel, set_flags, starts, watched, heard>>
  BY DEF TimedWait, watchVars
<1>2. waiters' = waiters \/ waiters' = [waiters EXCEPT ![e] = Append(@, SyncWaiter(t))]
  BY DEF TimedWait
<1>3. /\ waiters' \in [Event -> Seq(Waiter)]
      /\ \A d \in Event : ToSet(waiters'[d]) \subseteq ToSet(waiters[d]) \cup {SyncWaiter(t)}
  BY <1>2, WaitersTyped, SyncWaiterIsWaiter
<1>4. signaled' \in [Event -> BOOLEAN] /\ taken' \in [Event -> Nat]
  <2>1. Consume(e) \/ UNCHANGED <<signaled, taken>>
    BY DEF TimedWait
  <2>2. CASE Consume(e)
    BY <1>0, <2>2, ConsumeTyped
  <2>3. CASE UNCHANGED <<signaled, taken>>
    BY <1>0, <2>3 DEF EventsTyped
  <2> QED
    BY <2>1, <2>2, <2>3
<1>5. fired' \in [Thread -> Event \cup {Waiting, Disabled}]
  <2>1. fired' = fired \/ fired' = [fired EXCEPT ![t] = Waiting]
    BY DEF TimedWait
  <2> QED
    BY <1>0, <2>1 DEF EventsTyped
<1>6. EventTypeOK'
  BY <1>1, <1>3, <1>4, <1>5 DEF EventTypeOK
<1> QED
  BY <1>1, <1>3, <1>6, SyncWaiterIsWaiter

LEMMA SleepKeeps ==
  ASSUME IInv, Sleep
  PROVE  IInv'
<1> DEFINE awake == [Top(Loop) EXCEPT !.point = "work"]
           s == stack[Loop]
           m == Append(SubSeq(s, 1, Len(s) - 1), awake)
           w == TimedWaiting(Pump, delayed_time)
<1>1. /\ TypesOK /\ In(Loop, "run") /\ Top(Loop).point = "sleep" /\ ~Top(Loop).did_work
      /\ UNCHANGED <<tasks, queueVars, runVars, recent_time, started, left>>
      /\ s # <<>> /\ Top(Loop).op = "run" /\ Loop \in Thread
  BY AtRun, LoopConstantsOK DEF Sleep, IInv
<1>2. /\ Top(Loop) \in RunFrame /\ StackOK(Loop, s) /\ PostsKnown(s)
      /\ Top(Loop) = s[Len(s)]
  BY <1>1, LoopIsAt
<1>3. awake \in RunFrame /\ awake.op = "run" /\ awake.point = "work"
  BY <1>2 DEF RunFrame
<1>4. awake \in Frame
  BY <1>3 DEF Frame
<1>5. \/ /\ GoTo(Loop, awake) /\ UNCHANGED <<now, eventVars, watchVars>> /\ delayed_time' = 0
      \/ /\ ~(delayed_time # 0 /\ delayed_time <= now)
         /\ TimedWait(Loop, Pump, delayed_time) /\ UNCHANGED delayed_time
         /\ stack' = [stack EXCEPT ![Loop] = m \o IF signaled[Pump] THEN <<>> ELSE <<w>>]
  BY DEF Sleep, Below
<1>6. UNCHANGED <<incoming, work, delayed, deferred, nestable_allowed, keep_running>>
  BY <1>1 DEF queueVars, runVars
<1>7. Partition' /\ Order'
  BY <1>1, <1>6 DEF IInv, Partition, Order, Number
<1>8. QueuesOK' /\ LeftOK' /\ started' \subseteq Number'
  BY <1>1, <1>6 DEF TypesOK, QueuesOK, LeftOK, Number
<1>9. MaxTime \in Nat /\ delayed_time \in 0 .. MaxTime /\ recent_time \in 0 .. now
      /\ now \in Nat /\ nestable_allowed \in BOOLEAN /\ keep_running \in BOOLEAN
      /\ EventTypeOK
  BY <1>1, LoopConstantsOK DEF TypesOK, EventTypeOK
<1> HIDE DEF awake
<1>10. StackOK(Loop, m) /\ PostsKnown(m) /\ m # <<>> /\ m[Len(m)] = awake
  <2>1. awake.op = s[Len(s)].op /\ awake.op # "post"
    BY <1>1, <1>2, <1>3
  <2> QED
    BY <1>1, <1>2, <1>4, <2>1, ChangeStack
<1>11. m \in Seq(Frame)
  BY <1>10 DEF StackOK
<1>12. CASE GoTo(Loop, awake) /\ UNCHANGED <<now, eventVars, watchVars>> /\ delayed_time' = 0
  <2>1. stack' = [stack EXCEPT ![Loop] = m]
    BY <1>12 DEF GoTo, Below
  <2>2. delayed_time' \in 0 .. MaxTime /\ recent_time' \in 0 .. now
        /\ nestable_allowed' \in BOOLEAN /\ keep_running' \in BOOLEAN
    BY <1>1, <1>6, <1>9, <1>12
  <2> HIDE DEF m
  <2>3. TypesOK' /\ stack'[Loop] = m
    BY <1>1, <1>10, <1>12, <2>1, <2>2, RunKeeps
  <2>4. PumpTold'
    BY <1>3, <1>10, <2>3, PumpElsewhere
  <2> QED
    BY <1>7, <2>3, <2>4 DEF IInv
<1>13. CASE /\ ~(delayed_time # 0 /\ delayed_time <= now)
            /\ TimedWait(Loop, Pump, delayed_time) /\ UNCHANGED delayed_time
            /\ stack' = [stack EXCEPT ![Loop] = m \o IF signaled[Pump] THEN <<>> ELSE <<w>>]
  <2>1. Pump \in Event /\ delayed_time \in Nat
    BY <1>9, LoopConstantsOK
  <2>2. /\ EventTypeOK' /\ UNCHANGED <<now, starts, cancel_flag>>
        /\ \A d \in Event : \A x \in ToSet(waiters'[d]) :
             x \in ToSet(waiters[d]) \/ x.flag = 0
    BY <1>1, <1>9, <1>13, <2>1, TimedWaitTyped
  <2>3. w \in CallFrame /\ w \in Frame /\ w.op = "wait" /\ w.until = delayed_time
    BY <2>1 DEF TimedWaiting, CallFrame, Frame
  <2> HIDE DEF m, w
  <2>4. /\ TasksOK'
        /\ nestable_allowed' \in BOOLEAN /\ keep_running' \in BOOLEAN
        /\ delayed_time' \in 0 .. MaxTime /\ recent_time' \in 0 .. now'
    BY <1>1, <1>6, <1>9, <1>13, <2>2 DEF TypesOK, TasksOK, Number
  <2>5. ASSUME NEW n, stack' = [stack EXCEPT ![Loop] = n], StackOK(Loop, n), PostsKnown(n)
        PROVE  TypesOK' /\ stack'[Loop] = n
    BY <1>1, <1>8, <2>2, <2>4, <2>5, TypesKept
  <2>6. CASE signaled[Pump]
    <3>1. stack' = [stack EXCEPT ![Loop] = m]
      BY <1>11, <1>13, <2>6, PushIsConcat
    <3>2. TypesOK' /\ stack'[Loop] = m
      BY <1>10, <2>5, <3>1
    <3>3. PumpTold'
      BY <1>3, <1>10, <3>2, PumpElsewhere
    <3> QED
      BY <1>7, <3>2, <3>3 DEF IInv
  <2>7. CASE ~signaled[Pump]
    <3> DEFINE n == Append(m, w)
    <3>0. m \o <<w>> = n
      BY <1>11, <2>3, PushIsConcat
    <3>1. stack' = [stack EXCEPT ![Loop] = n]
      BY <1>13, <2>7, <3>0
    <3>2. Calls(awake, w)
      BY <1>3, <2>3 DEF Calls
    <3>3. StackOK(Loop, n) /\ PostsKnown(n) /\ n # <<>> /\ n[Len(n)] = w
      BY <1>10, <2>3, <3>2, CallStack
    <3> HIDE DEF n
    <3>4. TypesOK' /\ stack'[Loop] = n
      BY <2>5, <3>1, <3>3
    <3>5. delayed # <<>> /\ nestable_allowed => delayed_time = tasks[Head(delayed)].time
      BY <1>1 DEF IInv, PumpTold
    <3>6. delayed # <<>> =>
            tasks[Head(delayed)].time # 0 /\ tasks[Head(delayed)].time \in Nat
      <4> SUFFICES ASSUME delayed # <<>>
                   PROVE  tasks[Head(delayed)].time # 0 /\ tasks[Head(delayed)].time \in Nat
        OBVIOUS
      <4>1. Order /\ delayed \in Seq(Number) /\ tasks \in Seq(PostedTask)
        BY DEF IInv, TypesOK, QueuesOK, TasksOK
      <4>2. Head(delayed) \in ToSet(delayed) /\ Head(delayed) \in Number
        BY <4>1, ElementsOfTail
      <4>3. tasks[Head(delayed)] \in PostedTask
        BY <4>1, <4>2, ElementOfSeq DEF Number
      <4>4. tasks[Head(delayed)].time \in Nat
        BY <1>9, <4>3 DEF PostedTask
      <4> QED
        BY <4>1, <4>2, <4>4 DEF Order
    <3>7. PumpTold'
      BY <1>1, <1>6, <2>3, <3>3, <3>4, <3>5, <3>6 DEF PumpTold, Top
    <3> QED
      BY <1>7, <3>4, <3>7 DEF IInv
  <2> QED
    BY <2>6, <2>7
<1> QED
  BY <1>5, <1>12, <1>13

\* Run and tasks return.
LEMMA EndKeeps ==
  ASSUME IInv, EndRun \/ EndTask
  PROVE  IInv'
<1> DEFINE s == stack[Loop]
           n == SubSeq(s, 1, Len(s) - 1)
<1>1. /\ TypesOK /\ s # <<>> /\ Return(Loop)
      /\ UNCHANGED <<now, eventVars, watchVars, tasks, queueVars, timeVars, started, left>>
      /\ Top(Loop).op \in {"run", "task"}
  BY DEF IInv, EndRun, EndTask, In
<1>2. /\ StackOK(Loop, s) /\ PostsKnown(s) /\ Top(Loop) = s[Len(s)]
  BY <1>1, LoopIsAt
<1>3. StackOK(Loop, n) /\ PostsKnown(n) /\ (n # <<>> => Calls(n[Len(n)], s[Len(s)]))
  BY <1>1, <1>2, ReturnStack
<1>4. stack' = [stack EXCEPT ![Loop] = n]
  BY <1>1 DEF Return, Below
<1> HIDE DEF n
<1>5. nestable_allowed' \in BOOLEAN /\ keep_running' \in BOOLEAN
  BY <1>1 DEF EndRun, EndTask, TypesOK
<1>6. delayed_time' \in 0 .. MaxTime /\ recent_time' \in 0 .. now
  BY <1>1 DEF TypesOK, timeVars
<1>7. TypesOK' /\ Partition' /\ Order' /\ stack'[Loop] = n
  BY <1>1, <1>3, <1>4, <1>5, <1>6, RunKeeps
<1>8. PumpTold'
  <2> SUFFICES ASSUME n # <<>>
               PROVE  /\ n[Len(n)].op # "wait"
                      /\ n[Len(n)].op = "run" =>
                           n[Len(n)].point \in {"work", "delayed"} \/ n[Len(n)].did_work
    BY <1>7, PumpElsewhere
  <2> QED
    BY <1>3 DEF Calls
<1> QED
  BY <1>7, <1>8 DEF IInv

LEMMA LoopStepKeeps ==
  ASSUME IInv, LoopStep
  PROVE  IInv'
  BY ReloadKeeps, MoveDelayedKeeps, DoWorkKeeps, DoNoWorkKeeps, DoDelayedWorkKeeps,
     DoNoDelayedWorkKeeps, RunDeferredKeeps, DoNoIdleWorkKeeps, NextRoundKeeps, SleepKeeps,
     EndKeeps DEF LoopStep

----------------------------------------------------------------------------
(* The calls of tasks and of the other threads.                            *)

LEMMA MayCallTyped ==
  ASSUME LeftOK, NEW t \in Thread, NEW kind, MayCall(t, kind)
  PROVE  LeftOK'
<1>1. PICK b \in Budgets : \A u \in Thread : left[u] \in [DOMAIN b[u] -> Nat]
  BY DEF LeftOK
<1>2. /\ kind \in DOMAIN left[t] /\ left[t][kind] > 0
      /\ left' = [left EXCEPT ![t][kind] = @ - 1]
  BY DEF MayCall
<1>3. left'[t] = [left[t] EXCEPT ![kind] = @ - 1] /\ DOMAIN left' = Thread
      /\ \A u \in Thread : u # t => left'[u] = left[u]
  BY <1>2 DEF LeftOK
<1>4. left'[t] \in [DOMAIN b[t] -> Nat]
  <2>1. left[t] \in [DOMAIN b[t] -> Nat] /\ kind \in DOMAIN b[t]
    BY <1>1, <1>2
  <2>2. left[t][kind] \in Nat /\ left[t][kind] - 1 \in Nat
    BY <1>2, <2>1
  <2> QED
    BY <1>3, <2>1, <2>2
<1> QED
  BY <1>1, <1>3, <1>4 DEF LeftOK

\* Who may call has a task on top, or nothing.
LEMMA CallerStack ==
  ASSUME TypesOK, NEW t \in Thread, NEW kind, MayCall(t, kind), NEW f \in CallFrame,
         f.op = "post" => f.task.flag <= starts
  PROVE  LET n == Append(stack[t], f)
         IN  StackOK(t, n) /\ PostsKnown(n) /\ n # <<>> /\ n[Len(n)] = f
<1> DEFINE s == stack[t]
<1>1. StackOK(t, s) /\ PostsKnown(s) /\ f \in Frame
  BY DEF TypesOK, StacksOK, FlagsOK, PostsKnown, Frame
<1>2. t = Loop => s # <<>> /\ s[Len(s)].op = "task"
  BY DEF MayCall, In, Top
<1>3. t # Loop => s = <<>>
  BY DEF MayCall
<1>4. s # <<>> => Calls(s[Len(s)], f)
  <2>1. f.op \notin {"run", "task"}
    BY <1>1, FrameFields
  <2> QED
    BY <1>2, <1>3, <2>1 DEF Calls
<1> QED
  BY <1>1, <1>2, <1>4, CallStack

\* Steps that change no queue and nothing of the loop but the stacks.
LEMMA CallKeeps ==
  ASSUME IInv, NEW t \in Thread, NEW n, stack' = [stack EXCEPT ![t] = n],
         StackOK(t, n), PostsKnown(n), EventTypeOK', LeftOK',
         UNCHANGED <<now, starts, cancel_flag, loopVars>>,
         \A d \in Event : \A x \in ToSet(waiters'[d]) : x \in ToSet(waiters[d]) \/ x.flag = 0,
         t = Loop /\ n # <<>> => /\ n[Len(n)].op # "run"
                                 /\ n[Len(n)].op = "wait" => n[Len(n)].ev # Pump
  PROVE  IInv'
<1>1. UNCHANGED <<tasks, incoming, work, delayed, deferred, nestable_allowed, keep_running,
                  delayed_time, recent_time, started>>
  BY DEF loopVars, queueVars, runVars, timeVars
<1>2. TasksOK' /\ QueuesOK' /\ started' \subseteq Number'
  BY <1>1 DEF IInv, TypesOK, TasksOK, QueuesOK, Number
<1>3. /\ nestable_allowed' \in BOOLEAN /\ keep_running' \in BOOLEAN
      /\ delayed_time' \in 0 .. MaxTime /\ recent_time' \in 0 .. now'
  BY <1>1 DEF IInv, TypesOK
<1>4. TypesOK' /\ stack'[t] = n /\ \A u \in Thread : u # t => stack'[u] = stack[u]
  BY <1>2, <1>3, TypesKept DEF IInv
<1>5. Partition' /\ Order'
  BY <1>1 DEF IInv, Partition, Order, Number
<1>6. PumpTold'
  <2>1. CASE t = Loop
    BY <1>4, <2>1, PumpElsewhere
  <2>2. CASE t # Loop
    <3>1. stack'[Loop] = stack[Loop]
      BY <1>4, <2>2, LoopConstantsOK
    <3> QED
      BY <1>1, <3>1 DEF IInv, PumpTold, Top
  <2> QED
    BY <2>1, <2>2
<1> QED
  BY <1>4, <1>5, <1>6 DEF IInv

LEMMA EventsKept ==
  ASSUME TypesOK, UNCHANGED <<now, eventVars, watchVars>>
  PROVE  /\ EventTypeOK' /\ UNCHANGED <<starts, cancel_flag>>
         /\ \A d \in Event : \A x \in ToSet(waiters'[d]) :
              x \in ToSet(waiters[d]) \/ x.flag = 0
<1>1. UNCHANGED <<now, lock, signaled, waiters, fired, given, taken, cancel_flag, kernel,
                  set_flags, starts, watched, heard>>
  BY DEF eventVars, watchVars
<1> QED
  BY <1>1 DEF TypesOK, EventTypeOK

\* CallPost and CallSignal
LEMMA CallPushKeeps ==
  ASSUME IInv, NEW t \in Thread, NEW kind, MayCall(t, kind), NEW f \in CallFrame,
         f.op = "post" => f.task.flag <= starts,
         f.op \notin {"run", "wait"}, Call(t, f),
         UNCHANGED <<now, eventVars, watchVars, loopVars>>
  PROVE  IInv'
<1> DEFINE n == Append(stack[t], f)
<1>1. TypesOK /\ LeftOK
  BY DEF IInv, TypesOK
<1>2. StackOK(t, n) /\ PostsKnown(n) /\ n # <<>> /\ n[Len(n)] = f
  BY <1>1, CallerStack
<1>3. stack' = [stack EXCEPT ![t] = n]
  BY DEF Call
<1>4. LeftOK'
  BY <1>1, MayCallTyped
<1>5. /\ EventTypeOK' /\ UNCHANGED <<starts, cancel_flag>>
      /\ \A d \in Event : \A x \in ToSet(waiters'[d]) : x \in ToSet(waiters[d]) \/ x.flag = 0
  BY <1>1, EventsKept
<1> HIDE DEF n
<1> QED
  BY <1>2, <1>3, <1>4, <1>5, CallKeeps

LEMMA CallPostKeeps ==
  ASSUME IInv, NEW t \in Thread, NEW nestable \in Nestable, NEW delay \in Delays,
         CallPost(t, nestable, delay)
  PROVE  IInv'
<1> DEFINE task == [nestable |-> nestable, time |-> IF delay = 0 THEN 0 ELSE now + delay,
                    flag |-> 0]
<1>1. now \in Nat /\ starts \in Nat /\ MaxTime \in Nat /\ delay \in Nat /\ nestable \in BOOLEAN
  BY LoopConstantsOK DEF IInv, TypesOK, EventTypeOK
<1>2. now + delay <= MaxTime
  BY DEF CallPost
<1>3. (IF delay = 0 THEN 0 ELSE now + delay) \in 0 .. MaxTime
  BY <1>1, <1>2
<1>4. task \in PostedTask /\ task.flag <= starts
  BY <1>1, <1>3 DEF PostedTask
<1>5. /\ MayCall(t, "post") /\ Call(t, Posting(task))
      /\ UNCHANGED <<now, eventVars, watchVars, loopVars>>
  BY DEF CallPost
<1> HIDE DEF task
<1>6. /\ Posting(task) \in CallFrame /\ Posting(task).op = "post"
      /\ Posting(task).task.flag <= starts
  BY <1>4 DEF Posting, CallFrame
<1> QED
  BY <1>5, <1>6, CallPushKeeps

LEMMA CallSignalKeeps ==
  ASSUME IInv, NEW t \in Thread, NEW e \in Event, CallSignal(t, e)
  PROVE  IInv'
<1>1. /\ MayCall(t, "signal") /\ Call(t, Signaling(e))
      /\ UNCHANGED <<now, eventVars, watchVars, loopVars>>
  BY DEF CallSignal
<1>2. Signaling(e) \in CallFrame /\ Signaling(e).op = "signal"
  BY DEF Signaling, CallFrame
<1> QED
  BY <1>1, <1>2, CallPushKeeps

LEMMA CallResetKeeps ==
  ASSUME IInv, NEW t \in Thread, NEW e \in Event, CallReset(t, e)
  PROVE  IInv'
<1>1. MayCall(t, "reset") /\ Reset(t, e) /\ UNCHANGED loopVars
  BY DEF CallReset
<1>2. UNCHANGED <<stack, now, lock, waiters, fired, given, cancel_flag, kernel, set_flags,
                  starts, watched, heard, tasks, incoming, work, delayed, deferred,
                  nestable_allowed, keep_running, delayed_time, recent_time, started>>
  BY <1>1 DEF Reset, watchVars, loopVars, queueVars, runVars, timeVars
<1>3. LeftOK'
  BY <1>1, MayCallTyped DEF IInv, TypesOK
<1>4. EventTypeOK'
  <2>1. EventTypeOK
    BY DEF IInv, TypesOK
  <2>2. signaled' \in [Event -> BOOLEAN] /\ taken' \in [Event -> Nat]
    BY <1>1, <2>1 DEF Reset, Take, EventTypeOK
  <2> QED
    BY <1>2, <2>1, <2>2 DEF EventTypeOK
<1>5. StacksOK' /\ FlagsOK' /\ TasksOK' /\ QueuesOK'
  BY <1>2 DEF IInv, TypesOK, StacksOK, FlagsOK, TasksOK, QueuesOK, Number
<1>6. TypesOK'
  BY <1>2, <1>3, <1>4, <1>5 DEF IInv, TypesOK, Number
<1>7. Partition' /\ Order' /\ PumpTold'
  BY <1>2 DEF IInv, Partition, Order, PumpTold, Number, Top
<1> QED
  BY <1>6, <1>7 DEF IInv

LEMMA CallWaitKeeps ==
  ASSUME IInv, NEW t \in Thread, NEW e \in Event \ {Pump}, NEW until \in Nat,
         CallWait(t, e, until)
  PROVE  IInv'
<1>1. /\ MayCall(t, "wait") /\ TimedWait(t, e, until) /\ UNCHANGED loopVars
      /\ stack' = stack \/ Call(t, TimedWaiting(e, until))
  BY DEF CallWait
<1>2. TypesOK /\ LeftOK /\ EventTypeOK /\ StacksOK /\ FlagsOK
  BY DEF IInv, TypesOK
<1>3. LeftOK'
  BY <1>1, <1>2, MayCallTyped
<1>4. /\ EventTypeOK' /\ UNCHANGED <<now, starts, cancel_flag>>
      /\ \A d \in Event : \A x \in ToSet(waiters'[d]) : x \in ToSet(waiters[d]) \/ x.flag = 0
  BY <1>1, <1>2, TimedWaitTyped
<1>5. ASSUME NEW n, stack' = [stack EXCEPT ![t] = n], StackOK(t, n), PostsKnown(n),
             t = Loop /\ n # <<>> => /\ n[Len(n)].op # "run"
                                     /\ n[Len(n)].op = "wait" => n[Len(n)].ev # Pump
      PROVE  IInv'
  BY <1>1, <1>3, <1>4, <1>5, CallKeeps
<1>6. CASE stack' = stack
  <2>1. stack' = [stack EXCEPT ![t] = stack[t]]
    BY <1>2, <1>6 DEF StacksOK
  <2>2. StackOK(t, stack[t]) /\ PostsKnown(stack[t])
    BY <1>2 DEF StacksOK, FlagsOK, PostsKnown
  <2>3. t = Loop => stack[t][Len(stack[t])].op = "task"
    BY <1>1 DEF MayCall, In, Top
  <2> QED
    BY <1>5, <2>1, <2>2, <2>3
<1>7. CASE Call(t, TimedWaiting(e, until))
  <2>1. /\ TimedWaiting(e, until) \in CallFrame
        /\ TimedWaiting(e, until).op = "wait" /\ TimedWaiting(e, until).ev = e
    BY DEF TimedWaiting, CallFrame
  <2> DEFINE n == Append(stack[t], TimedWaiting(e, until))
  <2>2. StackOK(t, n) /\ PostsKnown(n) /\ n[Len(n)] = TimedWaiting(e, until)
    BY <1>1, <1>2, <2>1, CallerStack
  <2>3. stack' = [stack EXCEPT ![t] = n]
    BY <1>7 DEF Call
  <2> HIDE DEF n
  <2> QED
    BY <1>5, <2>1, <2>2, <2>3
<1> QED
  BY <1>1, <1>6, <1>7

\* WaitMany sorts the two events.
LEMMA SortedTyped ==
  ASSUME NEW d \in Event, NEW e \in Event, d # e
  PROVE  /\ Sorted(<<d, e>>) \in Seq(Event) /\ Len(Sorted(<<d, e>>)) = 2
         /\ \A i \in 1 .. 2 : Sorted(<<d, e>>)[i] \in {d, e}
<1> DEFINE S == [DOMAIN <<d, e>> -> {<<d, e>>[i] : i \in DOMAIN <<d, e>>}]
           InOrder(s) == \A i, j \in DOMAIN s : i < j => Address[s[i]] < Address[s[j]]
<1>1. DOMAIN <<d, e>> = 1 .. 2 /\ {<<d, e>>[i] : i \in 1 .. 2} = {d, e}
  OBVIOUS
<1>2. S = [1 .. 2 -> {d, e}]
  BY <1>1
<1>3. Address[d] \in Nat /\ Address[e] \in Nat /\ Address[d] # Address[e]
  BY EventConstantsOK
<1>4. \E s \in S : InOrder(s)
  <2>1. CASE Address[d] < Address[e]
    <3>1. <<d, e>> \in S /\ InOrder(<<d, e>>)
      BY <1>2, <2>1
    <3> QED
      BY <3>1
  <2>2. CASE Address[e] < Address[d]
    <3>1. <<e, d>> \in S /\ InOrder(<<e, d>>)
      BY <1>2, <2>2
    <3> QED
      BY <3>1
  <2> QED
    BY <1>3, <2>1, <2>2
<1>5. Sorted(<<d, e>>) = CHOOSE s \in S : InOrder(s)
  BY DEF Sorted
<1>6. Sorted(<<d, e>>) \in [1 .. 2 -> {d, e}]
  <2> HIDE DEF InOrder
  <2>1. Sorted(<<d, e>>) \in S
    BY <1>4, <1>5
  <2> QED
    BY <1>2, <2>1
<1> HIDE DEF S, InOrder
<1> DEFINE q == Sorted(<<d, e>>)
<1>7. q \in [1 .. 2 -> {d, e}]
  BY <1>6
<1> HIDE DEF q
<1>8. q \in Seq({d, e}) /\ Len(q) = 2
  <2>1. q \in Seq({d, e})
    BY <1>7, SeqDef
  <2>2. DOMAIN q = 1 .. Len(q) /\ Len(q) \in Nat
    BY <2>1, LenProperties
  <2>3. DOMAIN q = 1 .. 2
    BY <1>7
  <2>4. 1 .. Len(q) = 1 .. 2
    BY <2>2, <2>3
  <2>5. Len(q) = 2
    BY <2>2, <2>4
  <2> QED
    BY <2>1, <2>5
<1>9. q \in Seq(Event)
  <2>1. {d, e} \subseteq Event
    OBVIOUS
  <2> QED
    BY <1>8, <2>1, SeqMonotonic
<1> QED
  BY <1>7, <1>8, <1>9 DEF q

LEMMA CallWaitManyKeeps ==
  ASSUME IInv, NEW t \in Thread, NEW d \in Event, NEW e \in Event, d # e,
         CallWaitMany(t, <<d, e>>)
  PROVE  IInv'
<1> DEFINE f == Locking(Sorted(<<d, e>>))
<1>1. /\ MayCall(t, "many") /\ Call(t, f)
      /\ UNCHANGED <<now, eventVars, watchVars, loopVars>>
  BY DEF CallWaitMany, WaitMany
<1>2. f \in CallFrame /\ f.op = "many"
  <2>1. <<>> \in Seq(Event)
    BY EmptySeq
  <2> QED
    BY <2>1, SortedTyped DEF Locking, CallFrame
<1> HIDE DEF f
<1> QED
  BY <1>1, <1>2, CallPushKeeps

\* StartWatching: the new Flag is the largest.
LEMMA StartWatchingKeeps ==
  ASSUME IInv, NEW w \in Watcher, NEW e \in Event, CallStart(w, e)
  PROVE  IInv'
<1> DEFINE f == starts + 1
           x == AsyncWaiter(f)
           s == stack[Loop]
           a == Starting(e)
           b == Posting([nestable |-> TRUE, time |-> 0, flag |-> f])
<1>1. /\ MayCall(Loop, "watch") /\ StartWatching(Loop, w, e) /\ UNCHANGED loopVars
      /\ Loop \in Thread
  BY LoopConstantsOK DEF CallStart
<1>2. TypesOK /\ LeftOK /\ EventTypeOK /\ StacksOK /\ FlagsOK /\ EventsTyped
  BY DEF IInv, TypesOK, EventTypeOK, EventsTyped
<1>3. LeftOK'
  BY <1>1, <1>2, MayCallTyped
<1>4. /\ starts' = f /\ starts \in Nat
      /\ cancel_flag' = [cancel_flag EXCEPT ![w] = f] /\ watched' = [watched EXCEPT ![w] = f]
      /\ UNCHANGED <<now, fired, given, set_flags, heard>>
  BY <1>1, <1>2 DEF StartWatching, EventTypeOK
<1>5. f \in Nat /\ starts <= f /\ \A i \in Nat : i <= starts => i <= f
  BY <1>4
<1>6. UNCHANGED <<tasks, incoming, work, delayed, deferred, nestable_allowed, keep_running,
                  delayed_time, recent_time, started>>
  BY <1>1 DEF loopVars, queueVars, runVars, timeVars
<1>7. \/ /\ Consume(e) /\ lock' = [lock EXCEPT ![e] = Loop]
         /\ stack' = [stack EXCEPT ![Loop] = s \o <<a, b>>] /\ UNCHANGED <<waiters, kernel>>
      \/ /\ waiters' = [waiters EXCEPT ![e] = Append(@, x)]
         /\ kernel' = [kernel EXCEPT ![w] = e] /\ UNCHANGED <<stack, lock, signaled, taken>>
  BY <1>1, <1>4 DEF StartWatching
<1>8. x \in Waiter /\ x.flag = f
  BY <1>5 DEF AsyncWaiter, Waiter
<1>9. /\ a \in CallFrame /\ a.op = "start"
      /\ b \in CallFrame /\ b.op = "post" /\ b.task.flag = f
  <2>1. 0 \in 0 .. MaxTime
    BY LoopConstantsOK
  <2>2. [nestable |-> TRUE, time |-> 0, flag |-> f] \in PostedTask
    BY <1>5, <2>1 DEF PostedTask
  <2> QED
    BY <2>2 DEF Starting, Posting, CallFrame
<1>10. lock' \in [Event -> Thread \cup {Nobody}] /\ kernel' \in [Watcher -> Event \cup {Nobody}]
  BY <1>1, <1>2, <1>7 DEF EventTypeOK
<1>11. signaled' \in [Event -> BOOLEAN] /\ taken' \in [Event -> Nat]
  <2>1. CASE Consume(e)
    BY <1>2, <2>1, ConsumeTyped
  <2>2. CASE UNCHANGED <<signaled, taken>>
    BY <1>2, <2>2 DEF EventTypeOK
  <2> QED
    BY <1>7, <2>1, <2>2
<1> HIDE DEF f, x, a, b
<1>12. /\ waiters' \in [Event -> Seq(Waiter)]
       /\ \A d \in Event : ToSet(waiters'[d]) \subseteq ToSet(waiters[d]) \cup {x}
  BY <1>2, <1>7, <1>8, WaitersTyped
<1>13. EventTypeOK'
  <2>1. cancel_flag' \in [Watcher -> Nat] /\ watched' \in [Watcher -> Nat]
    BY <1>2, <1>4, <1>5 DEF EventTypeOK
  <2>2. set_flags' \subseteq 1 .. starts' /\ heard' \subseteq set_flags' /\ starts' \in Nat
    BY <1>2, <1>4, <1>5 DEF EventTypeOK
  <2> QED
    BY <1>2, <1>4, <1>10, <1>11, <1>12, <2>1, <2>2 DEF EventTypeOK
<1>14. stack' = stack \/ stack' = [stack EXCEPT ![Loop] = s \o <<a, b>>]
  BY <1>7
<1> DEFINE m == Append(s, a)
           n == Append(m, b)
<1>15. StackOK(Loop, m) /\ m # <<>> /\ m[Len(m)] = a
  BY <1>1, <1>2, <1>9, CallerStack
<1>16. a \in Frame /\ b \in Frame /\ s \in Seq(Frame)
  BY <1>1, <1>2, <1>9 DEF Frame, StacksOK
<1>17. s \o <<a, b>> = n
  BY <1>16, PushIsConcat
<1>18. m \in Seq(Frame) /\ Len(m) \in Nat /\ Len(m) = Len(s) + 1 /\ Len(s) \in Nat
       /\ \A i \in 1 .. Len(s) : m[i] = s[i]
  BY <1>16, PushProperties
<1> HIDE DEF m
<1>19. StackOK(Loop, n)
  <2>1. Calls(m[Len(m)], b)
    BY <1>9, <1>15 DEF Calls
  <2> QED
    BY <1>9, <1>15, <1>16, <2>1, StackPush
<1>20. /\ n # <<>> /\ n[Len(n)] = b /\ Len(n) = Len(m) + 1
       /\ \A i \in 1 .. Len(m) : n[i] = m[i]
  BY <1>16, <1>18, PushProperties
<1>21. \A i \in 1 .. Len(n) : n[i].op = "post" => n[i].task.flag <= f
  <2> SUFFICES ASSUME NEW i \in 1 .. Len(n), n[i].op = "post"
               PROVE  n[i].task.flag <= f
    OBVIOUS
  <2>1. CASE i = Len(n)
    BY <1>5, <1>9, <1>20, <2>1
  <2>2. CASE i \in 1 .. Len(s)
    <3>1. n[i] = s[i]
      BY <1>18, <1>20, <2>2
    <3>2. s[i].op = "post" /\ s[i].task.flag <= starts
      BY <1>1, <1>2, <2>2, <3>1 DEF FlagsOK
    <3>3. s[i] \in Frame
      BY <1>16, <2>2, ElementOfSeq
    <3>4. s[i].task \in PostedTask
      BY <3>2, <3>3, FrameFields
    <3>5. s[i].task.flag \in Nat
      BY <3>4 DEF PostedTask
    <3> QED
      BY <1>5, <3>1, <3>2, <3>5
  <2>3. CASE i = Len(m)
    <3>1. n[i] = a
      BY <1>15, <1>18, <1>20, <2>3
    <3> QED
      BY <1>9, <3>1
  <2> QED
    BY <1>18, <1>20, <2>1, <2>2, <2>3
<1> HIDE DEF n
<1>22. StacksOK' /\ \A u \in Thread : \/ stack'[u] = stack[u]
                                      \/ u = Loop /\ stack'[u] = n
  <2>1. CASE stack' = stack
    BY <1>2, <2>1 DEF StacksOK
  <2>2. CASE stack' = [stack EXCEPT ![Loop] = n]
    BY <1>1, <1>2, <1>19, <2>2, EventMoveStacks
  <2> QED
    BY <1>14, <1>17, <2>1, <2>2
<1>23. FlagsOK'
  <2>1. \A v \in Watcher : cancel_flag'[v] <= starts'
    BY <1>2, <1>4, <1>5 DEF FlagsOK, EventTypeOK
  <2>2. ASSUME NEW d \in Event, NEW i \in 1 .. Len(waiters'[d])
        PROVE  waiters'[d][i].flag <= starts'
    <3>1. waiters'[d] \in Seq(Waiter) /\ waiters[d] \in Seq(Waiter)
      BY <1>2, <1>12 DEF EventTypeOK
    <3>2. waiters'[d][i] \in ToSet(waiters'[d])
      BY <3>1, ElementsAre
    <3>3. \A y \in ToSet(waiters[d]) : y.flag <= starts /\ y.flag \in Nat
      <4> TAKE y \in ToSet(waiters[d])
      <4>1. PICK k \in 1 .. Len(waiters[d]) : waiters[d][k] = y
        BY <3>1, ElementsAre
      <4>2. waiters[d][k].flag <= starts
        BY <1>2 DEF FlagsOK
      <4>3. waiters[d][k] \in Waiter
        BY <3>1, ElementOfSeq
      <4> QED
        BY <4>1, <4>2, <4>3 DEF Waiter
    <3> QED
      BY <1>4, <1>5, <1>8, <1>12, <3>2, <3>3
  <2>3. ASSUME NEW u \in Thread, NEW i \in 1 .. Len(stack'[u]), stack'[u][i].op = "post"
        PROVE  stack'[u][i].task.flag <= starts'
    <3>1. CASE stack'[u] = stack[u]
      <4>1. stack[u] \in Seq(Frame)
        BY <1>2 DEF StacksOK
      <4>2. stack[u][i] \in Frame /\ stack[u][i].op = "post"
        BY <2>3, <3>1, <4>1, ElementOfSeq
      <4>3. stack[u][i].task \in PostedTask
        BY <4>2, FrameFields
      <4>4. stack[u][i].task.flag \in Nat /\ stack[u][i].task.flag <= starts
        BY <1>2, <2>3, <3>1, <4>3 DEF FlagsOK, PostedTask
      <4> QED
        BY <1>4, <1>5, <3>1, <4>4
    <3>2. CASE stack'[u] = n
      BY <1>4, <1>21, <2>3, <3>2
    <3> QED
      BY <1>22, <3>1, <3>2
  <2> QED
    BY <2>1, <2>2, <2>3 DEF FlagsOK
<1>24. TasksOK'
  <2>1. tasks \in Seq(PostedTask) /\ \A i \in Number : tasks[i].flag <= starts
    BY <1>2 DEF TypesOK, TasksOK
  <2>2. \A i \in Number : tasks[i] \in PostedTask
    BY <2>1, ElementOfSeq DEF Number
  <2>3. \A i \in Number : tasks[i].flag \in Nat
    BY <2>2 DEF PostedTask
  <2>4. \A i \in Number : tasks[i].flag <= f
    BY <1>5, <2>1, <2>3
  <2> QED
    BY <1>4, <1>6, <2>1, <2>4 DEF TasksOK, Number
<1>25. TypesOK'
  BY <1>2, <1>3, <1>4, <1>6, <1>13, <1>22, <1>23, <1>24 DEF TypesOK, QueuesOK, Number
<1>26. Partition' /\ Order'
  BY <1>6 DEF IInv, Partition, Order, Number
<1>27. PumpTold'
  <2>1. CASE stack'[Loop] = stack[Loop]
    BY <1>6, <2>1 DEF IInv, PumpTold, Top
  <2>2. CASE stack'[Loop] = n
    BY <1>9, <1>20, <2>2, PumpElsewhere
  <2> QED
    BY <1>1, <1>22, <2>1, <2>2
<1> QED
  BY <1>25, <1>26, <1>27 DEF IInv

\* StopWatching: a Flag that is set was given out.
LEMMA CancelTyped ==
  ASSUME TypesOK, NEW w \in Watcher, StopWatching(w)
  PROVE  /\ set_flags \subseteq set_flags' /\ set_flags' \subseteq 1 .. starts
         /\ waiters' \in [Event -> Seq(Waiter)]
         /\ \A d \in Event : \A x \in ToSet(waiters'[d]) : x \in ToSet(waiters[d])
<1> DEFINE f == cancel_flag[w]
           k == kernel[w]
<1>1. EventTypeOK /\ FlagsOK
  BY DEF TypesOK
<1>2. f \in Nat /\ f <= starts /\ f # 0 /\ starts \in Nat /\ set_flags \subseteq 1 .. starts
      /\ waiters \in [Event -> Seq(Waiter)] /\ k \in Event \cup {Nobody}
  BY <1>1 DEF EventTypeOK, FlagsOK, StopWatching
<1>3. f \in 1 .. starts
  BY <1>2
<1>4. \/ UNCHANGED <<waiters, set_flags>>
      \/ set_flags' = set_flags \cup {f} /\ UNCHANGED waiters
      \/ /\ k # Nobody
         /\ waiters' = [waiters EXCEPT ![k] = Without(@, AsyncWaiter(f))] /\ UNCHANGED set_flags
  BY DEF StopWatching, Cancel
<1> HIDE DEF f, k
<1>5. CASE UNCHANGED waiters
  BY <1>2, <1>3, <1>4, <1>5
<1>6. CASE /\ k # Nobody /\ UNCHANGED set_flags
           /\ waiters' = [waiters EXCEPT ![k] = Without(@, AsyncWaiter(f))]
  <2>1. k \in Event /\ waiters[k] \in Seq(Waiter)
    BY <1>2, <1>6
  <2>2. /\ Without(waiters[k], AsyncWaiter(f)) \in Seq(Waiter)
        /\ ToSet(Without(waiters[k], AsyncWaiter(f))) \subseteq ToSet(waiters[k])
    BY <2>1, ElementsWithout
  <2>3. waiters' \in [Event -> Seq(Waiter)]
    BY <1>2, <1>6, <2>1, <2>2
  <2>4. \A d \in Event : ToSet(waiters'[d]) \subseteq ToSet(waiters[d])
    BY <1>2, <1>6, <2>1, <2>2
  <2> QED
    BY <1>2, <1>6, <2>3, <2>4
<1> QED
  BY <1>4, <1>5, <1>6

LEMMA CallStopKeeps ==
  ASSUME IInv, NEW w \in Watcher, CallStop(w)
  PROVE  IInv'
<1>1. MayCall(Loop, "watch") /\ StopWatching(w) /\ UNCHANGED loopVars /\ Loop \in Thread
  BY LoopConstantsOK DEF CallStop
<1>2. TypesOK /\ LeftOK /\ EventTypeOK /\ FlagsOK
  BY DEF IInv, TypesOK
<1>3. /\ cancel_flag' = [cancel_flag EXCEPT ![w] = 0]
      /\ watched' = [watched EXCEPT ![w] = 0]
      /\ UNCHANGED <<stack, now, lock, signaled, fired, given, taken, kernel, starts, heard>>
  BY <1>1 DEF StopWatching
<1>4. UNCHANGED <<tasks, incoming, work, delayed, deferred, nestable_allowed, keep_running,
                  delayed_time, recent_time, started>>
  BY <1>1 DEF loopVars, queueVars, runVars, timeVars
<1>5. /\ set_flags \subseteq set_flags' /\ set_flags' \subseteq 1 .. starts
      /\ waiters' \in [Event -> Seq(Waiter)]
      /\ \A d \in Event : \A x \in ToSet(waiters'[d]) : x \in ToSet(waiters[d])
  BY <1>1, <1>2, CancelTyped
<1>6. LeftOK'
  BY <1>1, <1>2, MayCallTyped
<1>7. cancel_flag' \in [Watcher -> Nat] /\ watched' \in [Watcher -> Nat]
      /\ \A v \in Watcher : cancel_flag'[v] <= starts
  BY <1>2, <1>3 DEF EventTypeOK, FlagsOK
<1>8. EventTypeOK'
  BY <1>2, <1>3, <1>5, <1>7 DEF EventTypeOK
<1>9. FlagsOK'
  <2>1. ASSUME NEW d \in Event, NEW i \in 1 .. Len(waiters'[d])
        PROVE  waiters'[d][i].flag <= starts
    <3>1. waiters'[d] \in Seq(Waiter) /\ waiters[d] \in Seq(Waiter)
      BY <1>2, <1>5 DEF EventTypeOK
    <3>2. waiters'[d][i] \in ToSet(waiters[d])
      BY <1>5, <3>1, ElementsAre
    <3> QED
      BY <1>2, <3>1, <3>2, ElementsAre DEF FlagsOK
  <2> QED
    BY <1>2, <1>3, <1>7, <2>1 DEF FlagsOK
<1>10. StacksOK' /\ TasksOK' /\ QueuesOK'
  BY <1>2, <1>3, <1>4 DEF TypesOK, StacksOK, TasksOK, QueuesOK, Number
<1>11. TypesOK'
  BY <1>2, <1>3, <1>4, <1>6, <1>8, <1>9, <1>10 DEF TypesOK, Number
<1>12. Partition' /\ Order' /\ PumpTold'
  BY <1>3, <1>4 DEF IInv, Partition, Order, PumpTold, Number, Top
<1> QED
  BY <1>11, <1>12 DEF IInv

\* CallRun: the new Run is to look for work, or wakes the pump first.
LEMMA CallRunKeeps ==
  ASSUME IInv, NEW allow \in BOOLEAN, NEW quit \in BOOLEAN, CallRun(allow, quit)
  PROVE  IInv'
<1> DEFINE s == stack[Loop]
           r == Running(quit)
           g == Signaling(Pump)
           m == Append(s, r)
<1>1. /\ MayCall(Loop, "run") /\ nestable_allowed' = allow
      /\ UNCHANGED <<now, eventVars, watchVars, tasks, queueVars, keep_running, timeVars, started>>
      /\ stack' = [stack EXCEPT ![Loop] = m \o IF allow THEN <<g>> ELSE <<>>]
  BY DEF CallRun
<1>2. TypesOK /\ LeftOK /\ Loop \in Thread /\ In(Loop, "task") /\ s # <<>>
      /\ s[Len(s)].op = "task" /\ StackOK(Loop, s) /\ PostsKnown(s) /\ s \in Seq(Frame)
  BY <1>1, LoopIsAt, LoopConstantsOK DEF IInv, TypesOK, MayCall, In, Top, StackOK
<1>3. LeftOK'
  BY <1>1, <1>2, MayCallTyped
<1>4. r \in Frame /\ r.op = "run" /\ r.point = "work"
  BY DEF Running, RunFrame, Frame
<1>5. g \in CallFrame /\ g \in Frame /\ g.op = "signal"
  BY LoopConstantsOK DEF Signaling, CallFrame, Frame
<1>6. Calls(s[Len(s)], r) /\ Calls(r, g)
  BY <1>2, <1>4, <1>5 DEF Calls
<1> HIDE DEF r, g
<1>7. StackOK(Loop, m) /\ PostsKnown(m) /\ m # <<>> /\ m[Len(m)] = r
  <2>1. r.op = "post" => r.task.flag <= starts
    BY <1>4
  <2> QED
    BY <1>2, <1>4, <1>6, <2>1, CallStack
<1>8. m \in Seq(Frame) /\ m \o <<>> = m /\ m \o <<g>> = Append(m, g)
  BY <1>5, <1>7, PushIsConcat DEF StackOK
<1> HIDE DEF m
<1>9. StackOK(Loop, Append(m, g)) /\ PostsKnown(Append(m, g)) /\ Append(m, g) # <<>>
      /\ Append(m, g)[Len(Append(m, g))] = g
  <2>1. g.op = "post" => g.task.flag <= starts
    BY <1>5
  <2>2. Calls(m[Len(m)], g)
    BY <1>6, <1>7
  <2> QED
    BY <1>5, <1>7, <2>1, <2>2, CallStack
<1>10. PICK n : /\ stack' = [stack EXCEPT ![Loop] = n] /\ StackOK(Loop, n) /\ PostsKnown(n)
                /\ n # <<>>
                /\ n[Len(n)].op \in {"signal", "run"}
                /\ n[Len(n)].op = "run" => n[Len(n)].point = "work"
  <2>1. CASE allow
    <3>1. stack' = [stack EXCEPT ![Loop] = Append(m, g)]
      BY <1>1, <1>8, <2>1
    <3> QED
      BY <1>5, <1>9, <3>1
  <2>2. CASE ~allow
    <3>1. stack' = [stack EXCEPT ![Loop] = m]
      BY <1>1, <1>8, <2>2
    <3> QED
      BY <1>4, <1>7, <3>1
  <2> QED
    BY <2>1, <2>2
<1>11. /\ EventTypeOK' /\ UNCHANGED <<starts, cancel_flag>>
       /\ \A d \in Event : \A x \in ToSet(waiters'[d]) : x \in ToSet(waiters[d]) \/ x.flag = 0
  BY <1>1, <1>2, EventsKept
<1>12. UNCHANGED <<now, tasks, incoming, work, delayed, deferred, keep_running, delayed_time,
                   recent_time, started>>
  BY <1>1 DEF queueVars, timeVars
<1>13. TasksOK' /\ QueuesOK' /\ started' \subseteq Number'
  BY <1>2, <1>11, <1>12 DEF TypesOK, TasksOK, QueuesOK, Number
<1>14. /\ nestable_allowed' \in BOOLEAN /\ keep_running' \in BOOLEAN
       /\ delayed_time' \in 0 .. MaxTime /\ recent_time' \in 0 .. now'
  BY <1>1, <1>2, <1>12 DEF TypesOK
<1>15. TypesOK' /\ stack'[Loop] = n
  BY <1>2, <1>3, <1>10, <1>11, <1>13, <1>14, TypesKept
<1>16. Partition' /\ Order'
  BY <1>12 DEF IInv, Partition, Order, Number
<1>17. PumpTold'
  BY <1>10, <1>15, PumpElsewhere
<1> QED
  BY <1>15, <1>16, <1>17 DEF IInv

\* Quit is called by a task, whose caller is the innermost Run.
LEMMA QuitRun ==
  ASSUME IInv, CallQuit
  PROVE  LET s == stack[Loop]
         IN  \E inner \in 1 .. Len(s) :
               /\ s[inner].op = "run"
               /\ stack' = [stack EXCEPT ![Loop] =
                              [s EXCEPT ![inner] = [s[inner] EXCEPT !.quit = TRUE]]]
<1> DEFINE s == stack[Loop]
           inner == CHOOSE i \in RunFrames : \A j \in RunFrames : j <= i
           f == [s[inner] EXCEPT !.quit = TRUE]
           n == [s EXCEPT ![inner] = f]
<1>1. MayCall(Loop, "quit") /\ stack' = [stack EXCEPT ![Loop][inner].quit = TRUE]
  BY DEF CallQuit
<1>2. TypesOK /\ LeftOK /\ Loop \in Thread /\ In(Loop, "task") /\ s # <<>>
      /\ s[Len(s)].op = "task" /\ StackOK(Loop, s) /\ PostsKnown(s) /\ s \in Seq(Frame)
  BY <1>1, LoopIsAt, LoopConstantsOK DEF IInv, TypesOK, MayCall, In, Top, StackOK
<1>3. Len(s) \in Nat /\ Len(s) # 0 /\ DOMAIN s = 1 .. Len(s)
  BY <1>2, EmptySeq, LenProperties
<1>4. inner \in RunFrames
  <2>1. RunFrames = {i \in 1 .. Len(s) : s[i].op = "run"}
    BY <1>3 DEF RunFrames
  <2>2. 1 \in 1 .. Len(s)
    BY <1>3
  <2>3. s[1].op = "run"
    BY <1>2 DEF StackOK
  <2>4. Len(s) # 1
    BY <1>2, <2>3
  <2> DEFINE k == Len(s) - 1
  <2>5. k \in 1 .. Len(s) /\ Len(s) \in 1 .. Len(s) /\ Len(s) = k + 1
    <3>1. \A l \in Nat : l # 0 /\ l # 1 => l - 1 \in 1 .. l /\ l \in 1 .. l /\ l = l - 1 + 1
      OBVIOUS
    <3> QED
      BY <1>3, <2>4, <3>1
  <2>6. Calls(s[k], s[Len(s)])
    BY <1>2, <2>5 DEF StackOK
  <2>7. s[k].op = "run"
    BY <1>2, <2>6 DEF Calls
  <2>8. k \in RunFrames
    BY <2>1, <2>5, <2>7
  <2>9. \A j \in RunFrames : j <= k
    <3> SUFFICES ASSUME NEW j \in RunFrames PROVE j <= k
      OBVIOUS
    <3>1. j \in 1 .. Len(s) /\ s[j].op = "run"
      BY <2>1
    <3>2. j # Len(s)
      BY <1>2, <3>1
    <3> QED
      BY <1>3, <3>1, <3>2
  <2> HIDE DEF k
  <2> QED
    BY <2>8, <2>9
<1>5. inner \in 1 .. Len(s) /\ s[inner].op = "run"
  BY <1>3, <1>4 DEF RunFrames
<1>6. stack' = [stack EXCEPT ![Loop] = n]
  BY <1>1
<1> HIDE DEF inner
<1> QED
  BY <1>5, <1>6

LEMMA CallQuitKeeps ==
  ASSUME IInv, CallQuit
  PROVE  IInv'
<1> DEFINE s == stack[Loop]
<1>1. MayCall(Loop, "quit") /\ UNCHANGED <<now, eventVars, watchVars, loopVars>>
  BY DEF CallQuit
<1>2. TypesOK /\ LeftOK /\ Loop \in Thread /\ In(Loop, "task") /\ s # <<>>
      /\ s[Len(s)].op = "task" /\ StackOK(Loop, s) /\ PostsKnown(s) /\ s \in Seq(Frame)
  BY <1>1, LoopIsAt, LoopConstantsOK DEF IInv, TypesOK, MayCall, In, Top, StackOK
<1>3. Len(s) \in Nat /\ Len(s) # 0
  BY <1>2, EmptySeq, LenProperties
<1>5. PICK inner \in 1 .. Len(s) :
        /\ s[inner].op = "run"
        /\ stack' = [stack EXCEPT ![Loop] =
                       [s EXCEPT ![inner] = [s[inner] EXCEPT !.quit = TRUE]]]
  BY QuitRun
<1> DEFINE f == [s[inner] EXCEPT !.quit = TRUE]
           n == [s EXCEPT ![inner] = f]
<1>6. stack' = [stack EXCEPT ![Loop] = n]
  BY <1>5
<1>7. s[inner] \in RunFrame
  <2>1. s[inner] \in Frame
    BY <1>2, <1>5, ElementOfSeq
  <2> QED
    BY <1>5, <2>1, FrameFields
<1>8. /\ f \in RunFrame /\ f.op = "run" /\ f.did_work = s[inner].did_work
      /\ f.point = s[inner].point
  BY <1>7 DEF RunFrame
<1>9. f \in Frame
  BY <1>8 DEF Frame
<1> HIDE DEF f
<1>10. /\ n \in Seq(Frame) /\ Len(n) = Len(s) /\ n[inner] = f
       /\ \A j \in 1 .. Len(s) : j # inner => n[j] = s[j]
  BY <1>2, <1>5, <1>9, ExceptSeq
<1> HIDE DEF n
<1>11. \A j \in 1 .. Len(s) : /\ n[j].op = s[j].op
                              /\ s[j].op = "run" => /\ n[j].did_work = s[j].did_work
                                                    /\ n[j].point = s[j].point
  BY <1>5, <1>8, <1>10
<1>12. StackOK(Loop, n)
  <2>1. ASSUME NEW i \in 1 .. Len(n), NEW j \in 1 .. Len(n), j = i + 1
        PROVE  Calls(n[i], n[j])
    <3>1. i \in 1 .. Len(s) /\ j \in 1 .. Len(s)
      BY <1>10
    <3>2. Calls(s[i], s[j])
      BY <1>2, <2>1, <3>1 DEF StackOK
    <3> QED
      BY <1>11, <3>1, <3>2 DEF Calls
  <2>2. n = <<>> \/ n[1].op = "run"
    <3>1. 1 \in 1 .. Len(s)
      BY <1>3
    <3> QED
      BY <1>2, <1>11, <3>1 DEF StackOK
  <2> QED
    BY <1>10, <2>1, <2>2 DEF StackOK
<1>13. PostsKnown(n)
  <2> SUFFICES ASSUME NEW j \in 1 .. Len(n), n[j].op = "post"
               PROVE  n[j].task.flag <= starts
    BY DEF PostsKnown
  <2>1. j \in 1 .. Len(s) /\ j # inner
    BY <1>8, <1>10
  <2>2. n[j] = s[j]
    BY <1>10, <2>1
  <2> QED
    BY <1>2, <2>1, <2>2 DEF PostsKnown
<1>14. n[Len(n)].op = "task"
  <2>1. Len(s) \in 1 .. Len(s)
    BY <1>3
  <2> QED
    BY <1>2, <1>10, <1>11, <2>1
<1>15. LeftOK'
  BY <1>1, <1>2, MayCallTyped
<1>16. /\ EventTypeOK' /\ UNCHANGED <<starts, cancel_flag>>
       /\ \A d \in Event : \A x \in ToSet(waiters'[d]) : x \in ToSet(waiters[d]) \/ x.flag = 0
  BY <1>1, <1>2, EventsKept
<1> QED
  BY <1>1, <1>2, <1>6, <1>12, <1>13, <1>14, <1>15, <1>16, CallKeeps

LEMMA CallQuitNowKeeps ==
  ASSUME IInv, CallQuitNow
  PROVE  IInv'
<1>1. MayCall(Loop, "quit") /\ keep_running' = FALSE /\ Loop \in Thread
  BY LoopConstantsOK DEF CallQuitNow
<1>2. UNCHANGED <<stack, now, lock, signaled, waiters, fired, given, taken, cancel_flag, kernel,
                  set_flags, starts, watched, heard, tasks, incoming, work, delayed, deferred,
                  nestable_allowed, delayed_time, recent_time, started>>
  BY DEF CallQuitNow, eventVars, watchVars, queueVars, timeVars
<1>3. LeftOK'
  BY <1>1, MayCallTyped DEF IInv, TypesOK
<1>4. EventTypeOK' /\ StacksOK' /\ FlagsOK' /\ TasksOK' /\ QueuesOK'
  BY <1>2 DEF IInv, TypesOK, EventTypeOK, StacksOK, FlagsOK, TasksOK, QueuesOK, Number
<1>5. TypesOK'
  BY <1>1, <1>2, <1>3, <1>4 DEF IInv, TypesOK, Number
<1>6. Partition' /\ Order' /\ PumpTold'
  BY <1>2 DEF IInv, Partition, Order, PumpTold, Number, Top
<1> QED
  BY <1>5, <1>6 DEF IInv

LEMMA TickKeeps ==
  ASSUME IInv, Tick
  PROVE  IInv'
<1>1. now' = now + 1
  BY DEF Tick
<1>2. UNCHANGED <<stack, lock, signaled, waiters, fired, given, taken, cancel_flag, kernel,
                  set_flags, starts, watched, heard, tasks, incoming, work, delayed, deferred,
                  nestable_allowed, keep_running, delayed_time, recent_time, started, left>>
  BY DEF Tick, eventVars, watchVars, loopVars, queueVars, runVars, timeVars
<1>3. now \in Nat /\ recent_time \in 0 .. now
  BY DEF IInv, TypesOK, EventTypeOK
<1>4. now' \in Nat /\ recent_time' \in 0 .. now'
  BY <1>1, <1>2, <1>3
<1>5. EventTypeOK'
  BY <1>2, <1>4 DEF IInv, TypesOK, EventTypeOK
<1>6. StacksOK' /\ FlagsOK' /\ TasksOK' /\ QueuesOK' /\ LeftOK'
  BY <1>2 DEF IInv, TypesOK, StacksOK, FlagsOK, TasksOK, QueuesOK, LeftOK, Number
<1>7. TypesOK'
  BY <1>2, <1>4, <1>5, <1>6 DEF IInv, TypesOK, Number
<1>8. Partition' /\ Order' /\ PumpTold'
  BY <1>2 DEF IInv, Partition, Order, PumpTold, Number, Top
<1> QED
  BY <1>7, <1>8 DEF IInv

----------------------------------------------------------------------------
(* The invariant.                                                          *)

\* PostTask_Helper: the new task is the last.
LEMMA PostKeeps ==
  ASSUME IInv, NEW t \in Thread, Post(t)
  PROVE  IInv'
<1>1. TypesOK /\ Partition /\ Order /\ PumpTold
  BY DEF IInv
<1>2. EventTypeOK /\ StacksOK /\ FlagsOK /\ TasksOK /\ QueuesOK /\ LeftOK /\ started \subseteq Number
  BY <1>1 DEF TypesOK
<1>3. /\ In(t, "post")
      /\ tasks' = Append(tasks, Top(t).task) /\ incoming' = Append(incoming, Len(tasks'))
      /\ UNCHANGED <<now, eventVars, watchVars, work, delayed, deferred, runVars, timeVars,
                     started, left>>
  BY DEF Post
<1>4. UNCHANGED <<now, lock, signaled, waiters, fired, given, taken, cancel_flag, kernel,
                  set_flags, starts, watched, heard, work, delayed, deferred, nestable_allowed,
                  keep_running, delayed_time, recent_time, started, left>>
  BY <1>3 DEF eventVars, watchVars, runVars, timeVars
<1>5. Top(t).task \in PostedTask /\ Top(t).task.flag <= starts
  <2>1. stack[t] # <<>> /\ Top(t) \in Frame /\ Top(t).op = "post"
    BY <1>2, <1>3, InCall
  <2>2. Top(t) \in [op : {"post"}, task : PostedTask]
    BY <2>1, FrameFields
  <2>3. Len(stack[t]) \in 1 .. Len(stack[t])
    BY <1>2, <2>1, TopIsFrame
  <2> QED
    BY <1>2, <2>1, <2>2, <2>3 DEF FlagsOK, Top
<1>6. /\ TasksOK' /\ QueuesOK' /\ started' \subseteq Number' /\ Partition' /\ Order'
      /\ \A i \in Number : tasks'[i] = tasks[i]
  BY <1>1, <1>2, <1>3, <1>4, <1>5, PostQueues
<1>7. PICK n : stack' = [stack EXCEPT ![t] = n] /\ EventMove(stack[t], n)
  BY <1>2, PostMoves
<1>8. StackOK(t, n)
  BY <1>2, <1>7, EventMoveKeepsStack DEF StacksOK
<1>9. PostsKnown(n)
  <2>1. stack[t] \in Seq(Frame)
    BY <1>2 DEF StacksOK
  <2>2. \A i \in 1 .. Len(n) : n[i].op = "post" => n[i].task.flag <= starts
    BY <1>2, <1>7, <1>8, <2>1, EventMoveFlags DEF FlagsOK
  <2> QED
    BY <2>2 DEF PostsKnown
<1>10. EventTypeOK' /\ LeftOK'
  BY <1>2, <1>4 DEF EventTypeOK, LeftOK
<1>11. /\ nestable_allowed' \in BOOLEAN /\ keep_running' \in BOOLEAN
       /\ delayed_time' \in 0 .. MaxTime /\ recent_time' \in 0 .. now'
  BY <1>1, <1>4 DEF TypesOK
<1>12. TypesOK' /\ stack'[t] = n /\ \A u \in Thread : u # t => stack'[u] = stack[u]
  BY <1>1, <1>4, <1>6, <1>7, <1>8, <1>9, <1>10, <1>11, TypesKept
<1>13. PumpTold'
  <2>1. stack'[Loop] = stack[Loop] \/ EventMove(stack[Loop], stack'[Loop])
    BY <1>7, <1>12, LoopConstantsOK
  <2>2. delayed # <<>> => tasks'[Head(delayed)].time = tasks[Head(delayed)].time
    <3>1. delayed # <<>> => Head(delayed) \in Number
      BY <1>2, ElementsOfTail DEF QueuesOK
    <3> QED
      BY <1>6, <3>1
  <2> QED
    BY <1>1, <1>2, <1>4, <2>1, <2>2, PumpKept
<1> QED
  BY <1>6, <1>12, <1>13 DEF IInv

LEMMA EventStepKeeps ==
  ASSUME IInv, NEW t \in Thread, EventStep(t), UNCHANGED <<loopVars, left>>
  PROVE  IInv'
<1>1. TypesOK' /\ (stack'[Loop] = stack[Loop] \/ EventMove(stack[Loop], stack'[Loop]))
  BY EventStepTypes DEF IInv
<1>2. UNCHANGED <<tasks, incoming, work, delayed, deferred, nestable_allowed, delayed_time,
                  started>>
  BY DEF loopVars, queueVars, runVars, timeVars
<1>3. Partition' /\ Order'
  BY <1>2 DEF IInv, Partition, Order, Number
<1>4. PumpTold'
  BY <1>1, <1>2, PumpKept DEF IInv, TypesOK
<1> QED
  BY <1>1, <1>3, <1>4 DEF IInv

LEMMA MakeCallKeeps ==
  ASSUME IInv, MakeCall
  PROVE  IInv'
<1>1. now \in Nat /\ now + 1 \in Nat
  BY DEF IInv, TypesOK, EventTypeOK
<1>2. CASE \E t \in Thread, nestable \in Nestable, delay \in Delays : CallPost(t, nestable, delay)
  BY <1>2, CallPostKeeps
<1>3. CASE \E t \in Thread, e \in Event \ {Pump} :
             CallSignal(t, e) \/ CallReset(t, e) \/ CallWait(t, e, 0) \/ CallWait(t, e, now + 1)
  BY <1>1, <1>3, CallSignalKeeps, CallResetKeeps, CallWaitKeeps
<1>4. CASE \E t \in Thread, d, e \in Event \ {Pump} : d # e /\ CallWaitMany(t, <<d, e>>)
  BY <1>4, CallWaitManyKeeps
<1>5. CASE \E w \in Watcher : CallStop(w) \/ \E e \in Event \ {Pump} : CallStart(w, e)
  BY <1>5, CallStopKeeps, StartWatchingKeeps
<1>6. CASE \E allow, quit \in BOOLEAN : CallRun(allow, quit)
  BY <1>6, CallRunKeeps
<1>7. CASE CallQuit \/ CallQuitNow
  BY <1>7, CallQuitKeeps, CallQuitNowKeeps
<1> QED
  BY <1>2, <1>3, <1>4, <1>5, <1>6, <1>7 DEF MakeCall

LEMMA NextInv ==
  ASSUME IInv, [Next]_vars
  PROVE  IInv'
<1>1. CASE \E t \in Thread : Step(t)
  BY <1>1, EventStepKeeps, PostKeeps, LoopStepKeeps DEF Step
<1>2. CASE MakeCall
  BY <1>2, MakeCallKeeps
<1>3. CASE Tick
  BY <1>3, TickKeeps
<1>4. CASE UNCHANGED vars
  <2>1. UNCHANGED <<stack, now, lock, signaled, waiters, fired, given, taken, cancel_flag,
                    kernel, set_flags, starts, watched, heard, tasks, incoming, work, delayed,
                    deferred, nestable_allowed, keep_running, delayed_time, recent_time,
                    started, left>>
    BY <1>4 DEF vars, eventVars, watchVars, loopVars, queueVars, runVars, timeVars
  <2>2. EventTypeOK' /\ StacksOK' /\ FlagsOK' /\ TasksOK' /\ QueuesOK' /\ LeftOK'
    BY <2>1 DEF IInv, TypesOK, EventTypeOK, StacksOK, FlagsOK, TasksOK, QueuesOK, LeftOK,
                Number
  <2>3. TypesOK'
    BY <2>1, <2>2 DEF IInv, TypesOK, Number
  <2>4. Partition' /\ Order' /\ PumpTold'
    BY <2>1 DEF IInv, Partition, Order, PumpTold, Number, Top
  <2> QED
    BY <2>3, <2>4 DEF IInv
<1> QED
  BY <1>1, <1>2, <1>3, <1>4 DEF Next

\* The loop begins in Run, on a stack of its own, with one task.
LEMMA InitInv ==
  ASSUME Init
  PROVE  IInv
<1> DEFINE task == [nestable |-> TRUE, time |-> 0, flag |-> 0]
<1>1. /\ EventInit
      /\ stack = [t \in Thread |-> IF t = Loop THEN <<Running(FALSE)>> ELSE <<>>]
      /\ tasks = <<task>> /\ incoming = <<1>> /\ work = <<>> /\ delayed = <<>>
      /\ deferred = <<>> /\ nestable_allowed = TRUE /\ keep_running = TRUE
      /\ delayed_time = 0 /\ recent_time = 0 /\ started = {} /\ left \in Budgets
  BY DEF Init
<1>2. MaxTime \in Nat /\ Loop \in Thread
  BY LoopConstantsOK
<1>3. EventTypeOK
  <2>1. waiters = [e \in Event |-> <<>>] /\ waiters \in [Event -> Seq(Waiter)]
    BY <1>1, EmptySeq DEF EventInit
  <2> QED
    BY <1>1, <2>1 DEF EventInit, EventTypeOK
<1>4. Running(FALSE) \in RunFrame /\ Running(FALSE) \in Frame /\ Running(FALSE).op = "run"
      /\ Running(FALSE).point = "work"
  BY DEF Running, RunFrame, Frame
<1>5. \A t \in Thread : stack[t] \in Seq(Frame) /\ StackOK(t, stack[t])
  <2> TAKE t \in Thread
  <2> DEFINE r == Running(FALSE)
  <2>1. CASE t = Loop
    <3>1. stack[t] = <<r>>
      BY <1>1, <2>1
    <3> HIDE DEF r
    <3>2. <<r>> \in Seq(Frame) /\ Len(<<r>>) = 1 /\ <<r>>[1] = r
      <4>1. r \in Frame
        BY <1>4 DEF r
      <4> QED
        BY <4>1
    <3>3. r.op = "run"
      BY <1>4 DEF r
    <3> QED
      BY <2>1, <3>1, <3>2, <3>3 DEF StackOK
  <2>2. CASE t # Loop
    <3>1. stack[t] = <<>>
      BY <1>1, <2>2
    <3> QED
      BY <2>2, <3>1, EmptySeq DEF StackOK
  <2> QED
    BY <2>1, <2>2
<1>6. StacksOK
  BY <1>1, <1>5 DEF StacksOK
<1>7. FlagsOK
  <2>1. \A t \in Thread : \A i \in 1 .. Len(stack[t]) : stack[t][i].op # "post"
    <3> SUFFICES ASSUME NEW t \in Thread, NEW i \in 1 .. Len(stack[t])
                 PROVE  stack[t][i].op # "post"
      OBVIOUS
    <3>1. CASE t = Loop
      <4> DEFINE r == Running(FALSE)
      <4>1. stack[t] = <<r>>
        BY <1>1, <3>1
      <4>2. stack[t][i] = r
        <5> HIDE DEF r
        <5>1. Len(<<r>>) = 1 /\ <<r>>[1] = r
          OBVIOUS
        <5>2. i = 1
          BY <4>1, <5>1
        <5> QED
          BY <4>1, <5>1, <5>2
      <4> QED
        BY <1>4, <4>2
    <3>2. CASE t # Loop
      BY <1>1, <3>2, EmptySeq
    <3> QED
      BY <3>1, <3>2
  <2>2. \A e \in Event : waiters[e] = <<>>
    BY <1>1 DEF EventInit
  <2>3. starts = 0 /\ \A w \in Watcher : cancel_flag[w] = 0
    BY <1>1 DEF EventInit
  <2> QED
    BY <2>1, <2>2, <2>3, EmptySeq DEF FlagsOK
<1>8. task \in PostedTask /\ task.flag = 0
  BY <1>2 DEF PostedTask
<1> HIDE DEF task
<1>9. Len(tasks) = 1 /\ tasks[1] = task /\ tasks \in Seq(PostedTask) /\ Number = {1}
  BY <1>1, <1>8 DEF Number
<1>10. TasksOK
  BY <1>1, <1>8, <1>9 DEF TasksOK, EventInit
<1>11. QueuesOK
  BY <1>1, <1>9, EmptySeq DEF QueuesOK
<1>12. LeftOK
  BY <1>1, LoopConstantsOK DEF LeftOK
<1>13. TypesOK
  BY <1>1, <1>2, <1>3, <1>6, <1>7, <1>10, <1>11, <1>12 DEF TypesOK, EventInit
<1>14. ToSet(incoming) = {1} /\ Distinct(incoming) /\ Increasing(incoming)
  BY <1>1 DEF ToSet, Distinct, Increasing
<1>15. Partition
  BY <1>1, <1>9, <1>14, ElementsOfNone DEF Partition
<1>16. Order
  BY <1>1, <1>14, ElementsOfNone DEF Order
<1>17. PumpTold
  BY <1>1 DEF PumpTold
<1> QED
  BY <1>13, <1>15, <1>16, <1>17 DEF IInv

LEMMA Invariance ==
  Spec => []IInv
  BY InitInv, NextInv, PTL DEF Spec

----------------------------------------------------------------------------
(* Theorems.                                                               *)

LEMMA TypesInvariant ==
  ASSUME IInv
  PROVE  TypeOK
<1>1. EventTypeOK /\ FlagsOK /\ TasksOK /\ QueuesOK /\ LeftOK
  BY DEF IInv, TypesOK
<1>2. \A i \in Number : tasks[i] \in [nestable : BOOLEAN, time : 0 .. MaxTime, flag : 0 .. starts]
  <2> TAKE i \in Number
  <2>1. tasks[i] \in PostedTask
    BY <1>1, ElementOfSeq DEF TasksOK, Number
  <2>2. tasks[i].flag \in Nat /\ tasks[i].flag <= starts /\ starts \in Nat
    BY <1>1, <2>1 DEF TasksOK, PostedTask, EventTypeOK
  <2>3. tasks[i].flag \in 0 .. starts
    BY <2>2
  <2> QED
    BY <2>1, <2>3 DEF PostedTask
<1> QED
  BY <1>1, <1>2 DEF TypeOK, IInv, TypesOK, QueuesOK, LeftOK

\* Types: tasks carry Flags that were given out, the queues hold numbers of
\* posted tasks and recent_time_ is not ahead of the time (message_loop.cc,
\* DoDelayedWork; waitable_event_watcher_posix.cc, StartWatching).
THEOREM TypeCorrect == Spec => []TypeOK
<1>1. IInv => TypeOK
  BY TypesInvariant
<1> QED
  BY <1>1, Invariance, PTL

LEMMA OneQueue ==
  ASSUME IInv
  PROVE  TaskIsInOneQueue
<1> DEFINE c == incoming \o work
           d == c \o delayed
           q == d \o deferred
           places == ToSet(incoming) \cup ToSet(work) \cup ToSet(delayed) \cup ToSet(deferred)
<1>1. Partition /\ QueuesOK
  BY DEF IInv, TypesOK
<1>2. c \in Seq(Number) /\ ToSet(c) = ToSet(incoming) \cup ToSet(work) /\ Distinct(c)
  BY <1>1, ElementsOfConcat DEF Partition, QueuesOK
<1> HIDE DEF c
<1>3. d \in Seq(Number) /\ ToSet(d) = ToSet(c) \cup ToSet(delayed) /\ Distinct(d)
  <2>1. ToSet(c) \cap ToSet(delayed) = {}
    BY <1>1, <1>2 DEF Partition
  <2> QED
    BY <1>1, <1>2, <2>1, ElementsOfConcat DEF Partition, QueuesOK
<1> HIDE DEF d
<1>4. q \in Seq(Number) /\ ToSet(q) = ToSet(d) \cup ToSet(deferred) /\ Distinct(q)
  <2>1. ToSet(d) \cap ToSet(deferred) = {}
    BY <1>1, <1>2, <1>3 DEF Partition
  <2> QED
    BY <1>1, <1>3, <2>1, ElementsOfConcat DEF Partition, QueuesOK
<1> HIDE DEF q
<1>5. ToSet(q) = places
  BY <1>2, <1>3, <1>4
<1>6. ASSUME NEW id \in Number
      PROVE  Cardinality({i \in DOMAIN q : q[i] = id}) = IF id \in started THEN 0 ELSE 1
  <2> DEFINE at == {i \in DOMAIN q : q[i] = id}
  <2>1. DOMAIN q = 1 .. Len(q)
    BY <1>4, LenProperties
  <2>2. CASE id \in started
    <3>1. id \notin ToSet(q)
      BY <1>1, <1>5, <2>2 DEF Partition
    <3>a. \A i \in 1 .. Len(q) : q[i] \in ToSet(q)
      BY <1>4, ElementsAre
    <3>2. at = {}
      BY <2>1, <3>1, <3>a
    <3>3. Cardinality(at) = 0
      BY <3>2, FS_EmptySet
    <3> QED
      BY <2>2, <3>3
  <2>3. CASE id \notin started
    <3>1. id \in ToSet(q)
      BY <1>1, <1>5, <1>6, <2>3 DEF Partition
    <3>2. PICK i \in 1 .. Len(q) : q[i] = id
      BY <1>4, <3>1, ElementsAre
    <3>a. \A j \in 1 .. Len(q) : q[j] = id => j = i
      BY <1>4, <3>2 DEF Distinct
    <3>3. at = {i}
      BY <2>1, <3>2, <3>a
    <3>4. Cardinality(at) = 1
      BY <3>3, FS_Singleton
    <3> QED
      BY <2>3, <3>4
  <2> QED
    BY <2>2, <2>3
<1> QED
  BY <1>6 DEF TaskIsInOneQueue, q, d, c

\* No task is lost or run twice: until it is run it is in one of the queues,
\* once, whatever tasks and other threads post, defer, delay or quit
\* (message_loop.cc, PostTask_Helper, ReloadWorkQueue, DeferOrRunPendingTask,
\* AddToDelayedWorkQueue, DoWork, DoDelayedWork, DoIdleWork).
THEOREM TasksAreInOneQueue == Spec => []TaskIsInOneQueue
<1>1. IInv => TaskIsInOneQueue
  BY OneQueue
<1> QED
  BY <1>1, Invariance, PTL

LEMMA OldestFirst ==
  ASSUME IInv
  PROVE  TasksRunInOrder
<1>1. Partition /\ Order /\ QueuesOK
  BY DEF IInv, TypesOK
<1> SUFFICES ASSUME NEW i \in Number, NEW j \in Number, i < j, tasks[i].time = 0,
                    tasks[j].time = 0, j \in started, i \notin started
             PROVE  ~tasks[i].nestable /\ IsIn(deferred, i)
  BY DEF TasksRunInOrder
<1>2. i \in Int /\ j \in Int /\ ~(j < i)
  BY DEF Number
<1>3. i \notin ToSet(incoming) /\ i \notin ToSet(work)
  BY <1>1, <1>2 DEF Order
<1>4. i \notin ToSet(delayed)
  BY <1>1 DEF Order
<1>5. i \in ToSet(deferred)
  BY <1>1, <1>3, <1>4 DEF Partition
<1>6. \E k \in DOMAIN deferred : deferred[k] = i
  BY <1>5 DEF ToSet
<1> QED
  BY <1>1, <1>5, <1>6 DEF Order, IsIn

\* Tasks that are not delayed are run in the order posted, but for those that
\* may not run nested and wait for the outermost loop (message_loop.h,
\* "tasks are invoked in FIFO order").
THEOREM TasksInOrder == Spec => []TasksRunInOrder
<1>1. IInv => TasksRunInOrder
  BY OldestFirst
<1> QED
  BY <1>1, Invariance, PTL

\* The pump does not sleep past the next delayed task: it was told when the
\* task is due, and nothing put another before it since (message_loop.cc,
\* DoDelayedWork; message_pump_default.cc, Run).
THEOREM PumpWakes == Spec => []PumpSleepsUntilDue
<1>1. IInv => PumpSleepsUntilDue
  BY DEF IInv, PumpTold, PumpSleepsUntilDue, In
<1> QED
  BY <1>1, Invariance, PTL
=============================================================================
