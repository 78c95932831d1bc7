------------------------ MODULE WaitableEventsProofs ------------------------
(***************************************************************************)
(* Theorems about the WaitableEvents of MessageLoops, for every value of   *)
(* its constants: what is in an event's list waits, a Signal is received   *)
(* once, and a delegate is called only for the watch that is on.  They are *)
(* one induction, on EInv, beside that of MessageLoopsProofs.              *)
(***************************************************************************)
EXTENDS MessageLoopsProofs

----------------------------------------------------------------------------
(* What the proofs need to know of a thread's stack of calls, s.           *)

\* The frame is of a call that holds the event's lock.
Holds(frame, e) ==
  \/ frame.op \in {"fire", "start"} /\ frame.ev = e
  \/ frame.op = "many" /\ frame.point = "lock" /\ e \in ToSet(frame.held)

\* It waits for the event, maybe among others.
Awaits(frame, e) ==
  \/ frame.op = "wait" /\ frame.ev = e
  \/ frame.op = "many" /\ frame.point # "lock" /\ e \in ToSet(frame.held)

\* What may have fired the SyncWaiter of the thread that is in the frame.
MayBeFiredBy(frame, ev) ==
  /\ frame.op \notin {"wait", "many"} => ev = Disabled
  /\ frame.op = "wait" =>
       /\ frame.point = "asleep" => ev \in {Waiting, frame.ev}
       /\ frame.point = "woken" => ev = frame.ev
       /\ frame.point = "timed out" => ev = Disabled
  /\ frame.op = "many" =>
       /\ frame.point = "lock" => ev = Disabled
       /\ frame.point = "asleep" => ev # Disabled
       /\ frame.point = "leave" => ev \in Event

\* A call on the stack holds the event's lock; one does; one that has found it
\* not signaled does.
Held(s, e) == \E i \in 1 .. Len(s) : Holds(s[i], e)
HeldOnce(s, e) == \A i, j \in 1 .. Len(s) : Holds(s[i], e) /\ Holds(s[j], e) => i = j
Finds(s, e) == \E i \in 1 .. Len(s) : Holds(s[i], e) /\ s[i].op # "start"

\* A Signal has woken nobody yet.
Fires(s, e) == \E i \in 1 .. Len(s) : s[i].op = "fire" /\ s[i].ev = e /\ ~s[i].woke

\* A task with the Flag is being posted.
Posts(s, f) == \E i \in 1 .. Len(s) : s[i].op = "post" /\ s[i].task.flag = f

WaitsFor(s, e) == s # <<>> /\ Awaits(s[Len(s)], e)
FiredAt(s, ev) == IF s = <<>> THEN ev = Disabled ELSE MayBeFiredBy(s[Len(s)], ev)

\* The thread waits for nothing.
Idle(s) ==
  /\ \A e : ~WaitsFor(s, e)
  /\ \A ev : FiredAt(s, ev) <=> ev = Disabled

----------------------------------------------------------------------------
(* The inductive invariant.                                                *)

\* One call holds an event's lock.  A Signal in progress, or a WaitMany that locks
\* its events, has found the event not signaled.
LocksOK ==
  \A t \in Thread, e \in Event :
    /\ Held(stack[t], e) => lock[e] = t
    /\ HeldOnce(stack[t], e)
    /\ Finds(stack[t], e) => ~signaled[e]

FiredOK == \A t \in Thread : FiredAt(stack[t], fired[t])

\* A waiter in an event's list is of a thread that waits, and was not fired by the
\* event; or of the watch that is on, and not canceled.
WaiterOK(e, x) ==
  /\ x.flag = 0 => x.thread \in Thread /\ WaitsFor(stack[x.thread], e) /\ fired[x.thread] # e
  /\ x.flag # 0 => /\ x.thread = Nobody /\ x.flag \notin set_flags
                   /\ \E w \in Watcher : watched[w] = x.flag /\ kernel[w] = e

\* The list is empty if the event is signaled.
WaitersOK ==
  \A e \in Event :
    /\ Distinct(waiters[e])
    /\ signaled[e] => waiters[e] = <<>>
    /\ \A x \in ToSet(waiters[e]) : WaiterOK(e, x)

\* A watcher's Flag is its own.
WatchersOK ==
  /\ cancel_flag = watched
  /\ \A v, w \in Watcher : watched[v] = watched[w] /\ watched[v] # 0 => v = w

\* A task with the Flag was posted, or is being posted.
Posted(f) ==
  \/ \E i \in Number : tasks[i].flag = f
  \/ \E t \in Thread : Posts(stack[t], f)

\* The Flag is then of a watch that is on, or set; and no waiter has it any more.
PostedOK ==
  /\ \A f \in 1 .. starts : Posted(f) /\ f \notin set_flags => \E w \in Watcher : watched[w] = f
  /\ \A e \in Event : \A x \in ToSet(waiters[e]) : x.flag # 0 => ~Posted(x.flag)

\* The threads that the event has fired, and those that signal it.
Woke(e) == {t \in Thread : fired[t] = e}
Firing(e) == {t \in Thread : Fires(stack[t], e)}

Pending(e) == IF signaled[e] THEN 1 ELSE 0

Received(e) ==
  given[e] = taken[e] + Pending(e) + Cardinality(Woke(e)) + Cardinality(Firing(e))

ReceivedOK == \A e \in Event \ Manual : Received(e)

EInv == LocksOK /\ FiredOK /\ WaitersOK /\ WatchersOK /\ PostedOK /\ ReceivedOK

----------------------------------------------------------------------------
(* Stacks: what a call that begins or ends changes.                        *)

LEMMA OnTop ==
  ASSUME NEW p \in Seq(Frame), NEW f \in Frame
  PROVE  LET s == Append(p, f)
         IN  /\ \A e : Held(s, e) <=> Held(p, e) \/ Holds(f, e)
             /\ \A e : HeldOnce(s, e) <=> HeldOnce(p, e) /\ (Holds(f, e) => ~Held(p, e))
             /\ \A e : Finds(s, e) <=> Finds(p, e) \/ (Holds(f, e) /\ f.op # "start")
             /\ \A e : Fires(s, e) <=> Fires(p, e) \/ (f.op = "fire" /\ f.ev = e /\ ~f.woke)
             /\ \A g : Posts(s, g) <=> Posts(p, g) \/ (f.op = "post" /\ f.task.flag = g)
             /\ \A e : WaitsFor(s, e) <=> Awaits(f, e)
             /\ \A ev : FiredAt(s, ev) <=> MayBeFiredBy(f, ev)
             /\ s \in Seq(Frame) /\ s # <<>> /\ s[Len(s)] = f
<1> DEFINE s == Append(p, f)
<1>1. /\ s \in Seq(Frame) /\ Len(s) = Len(p) + 1 /\ Len(p) \in Nat /\ s # <<>>
      /\ s[Len(p) + 1] = f
      /\ \A i \in 1 .. Len(p) : s[i] = p[i]
  BY PushProperties
<1> HIDE DEF s
<1>2. \A i : i \in 1 .. Len(s) <=> i \in 1 .. Len(p) \/ i = Len(s)
  BY <1>1
<1>3. s[Len(s)] = f /\ Len(s) \notin 1 .. Len(p)
  BY <1>1
<1>4. \A e : Held(s, e) <=> Held(p, e) \/ Holds(f, e)
  BY <1>1, <1>2, <1>3 DEF Held
<1>5. \A e : HeldOnce(s, e) <=> HeldOnce(p, e) /\ (Holds(f, e) => ~Held(p, e))
  BY <1>1, <1>2, <1>3 DEF HeldOnce, Held
<1>6. \A e : Finds(s, e) <=> Finds(p, e) \/ (Holds(f, e) /\ f.op # "start")
  BY <1>1, <1>2, <1>3 DEF Finds
<1>7. \A e : Fires(s, e) <=> Fires(p, e) \/ (f.op = "fire" /\ f.ev = e /\ ~f.woke)
  BY <1>1, <1>2, <1>3 DEF Fires
<1>8. \A g : Posts(s, g) <=> Posts(p, g) \/ (f.op = "post" /\ f.task.flag = g)
  BY <1>1, <1>2, <1>3 DEF Posts
<1>9. /\ \A e : WaitsFor(s, e) <=> Awaits(f, e)
      /\ \A ev : FiredAt(s, ev) <=> MayBeFiredBy(f, ev)
  BY <1>1, <1>3 DEF WaitsFor, FiredAt
<1> QED
  BY <1>1, <1>3, <1>4, <1>5, <1>6, <1>7, <1>8, <1>9 DEF s

LEMMA OnNone ==
  /\ Idle(<<>>)
  /\ \A e : ~Held(<<>>, e) /\ HeldOnce(<<>>, e) /\ ~Finds(<<>>, e) /\ ~Fires(<<>>, e)
            /\ ~WaitsFor(<<>>, e)
  /\ \A g : ~Posts(<<>>, g)
  /\ \A ev : FiredAt(<<>>, ev) <=> ev = Disabled
<1>1. \A i : i \notin 1 .. Len(<<>>)
  OBVIOUS
<1> QED
  BY <1>1 DEF Held, HeldOnce, Finds, Fires, WaitsFor, Posts, FiredAt, Idle

LEMMA TopOff ==
  ASSUME NEW S, NEW s \in Seq(S), s # <<>>
  PROVE  s = Append(SubSeq(s, 1, Len(s) - 1), s[Len(s)])
<1> DEFINE p == SubSeq(s, 1, Len(s) - 1)
           u == Append(p, s[Len(s)])
<1>1. p \in Seq(S) /\ Len(p) = Len(s) - 1 /\ Len(s) \in Nat \ {0}
      /\ \A i \in 1 .. Len(p) : p[i] = s[i]
  BY PopProperties
<1>2. s[Len(s)] \in S
  BY <1>1, ElementOfSeq
<1> HIDE DEF p
<1>3. /\ u \in Seq(S) /\ Len(u) = Len(p) + 1 /\ u[Len(p) + 1] = s[Len(s)]
      /\ \A i \in 1 .. Len(p) : u[i] = p[i]
  BY <1>1, <1>2, PushProperties
<1> HIDE DEF u
<1>4. Len(u) = Len(s)
  BY <1>1, <1>3
<1>5. \A i \in 1 .. Len(s) : s[i] = u[i]
  <2> TAKE i \in 1 .. Len(s)
  <2>1. i = Len(p) + 1 \/ i \in 1 .. Len(p)
    BY <1>1
  <2>2. Len(p) + 1 = Len(s)
    BY <1>1
  <2> QED
    BY <1>1, <1>3, <2>1, <2>2
<1>6. s = u
  BY <1>3, <1>4, <1>5, SeqEqual
<1> QED
  BY <1>6 DEF u, p

\* A thread's calls: what is below the call on top does not wait.
LEMMA BelowTop ==
  ASSUME StacksOK, NEW t \in Thread, stack[t] # <<>>
  PROVE  /\ Below(t) \in Seq(Frame) /\ Top(t) \in Frame
         /\ stack[t] = Append(Below(t), Top(t))
         /\ Idle(Below(t))
<1>1. stack[t] \in Seq(Frame) /\ StackOK(t, stack[t])
  BY DEF StacksOK
<1>2. stack[t] = Append(Below(t), Top(t))
  BY <1>1, TopOff DEF Below, Top
<1>3. Below(t) \in Seq(Frame) /\ Top(t) \in Frame
  BY <1>1, PopProperties, TopIsFrame DEF Below
<1>4. Idle(Below(t))
  <2>1. CASE Below(t) = <<>>
    BY <2>1, OnNone DEF Idle
  <2>2. CASE Below(t) # <<>>
    <3> DEFINE p == Below(t)
    <3>2. Calls(p[Len(p)], Top(t))
      <4>1. /\ Len(p) = Len(stack[t]) - 1 /\ Len(stack[t]) \in Nat \ {0}
            /\ \A i \in 1 .. Len(p) : p[i] = stack[t][i]
        BY <1>1, PopProperties DEF Below
      <4>2. Len(p) # 0
        BY <1>3, <2>2, EmptySeq
      <4>a. \A k, l : l \in Nat \ {0} /\ k = l - 1 /\ k # 0 =>
              k \in 1 .. k /\ k \in 1 .. l /\ l \in 1 .. l /\ l = k + 1
        OBVIOUS
      <4> HIDE DEF p
      <4>3. /\ Len(p) \in 1 .. Len(p) /\ Len(p) \in 1 .. Len(stack[t])
            /\ Len(stack[t]) \in 1 .. Len(stack[t]) /\ Len(stack[t]) = Len(p) + 1
        BY <4>1, <4>2, <4>a
      <4> QED
        BY <1>1, <4>1, <4>3 DEF StackOK, Top
    <3>3. p[Len(p)].op \notin {"wait", "many"}
      BY <3>2 DEF Calls
    <3> HIDE DEF p
    <3>4. Idle(p)
      BY <2>2, <3>3 DEF Idle, WaitsFor, Awaits, FiredAt, MayBeFiredBy
    <3> QED
      BY <3>4 DEF p
  <2> QED
    BY <2>1, <2>2
<1> QED
  BY <1>2, <1>3, <1>4

\* Nothing that matters for events is on the one stack and not on the other.
Same(s, n) ==
  /\ \A e : /\ Held(s, e) <=> Held(n, e)
            /\ HeldOnce(s, e) <=> HeldOnce(n, e)
            /\ Finds(s, e) <=> Finds(n, e)
            /\ Fires(s, e) <=> Fires(n, e)
  /\ \A f \in Nat \ {0} : Posts(s, f) <=> Posts(n, f)

\* The frame holds no lock and posts no Flag.
Plain(frame) ==
  /\ \A e : ~Holds(frame, e)
  /\ frame.op = "post" => frame.task.flag = 0

LEMMA SamePush ==
  ASSUME NEW p \in Seq(Frame), NEW f \in Frame, Plain(f)
  PROVE  Same(p, Append(p, f)) /\ Same(Append(p, f), p)
<1> DEFINE s == Append(p, f)
<1>1. \A e : ~Holds(f, e) /\ ~(f.op = "fire" /\ f.ev = e /\ ~f.woke)
  BY DEF Plain, Holds
<1>2. \A g \in Nat \ {0} : ~(f.op = "post" /\ f.task.flag = g)
  BY DEF Plain
<1>3. /\ \A e : Held(s, e) <=> Held(p, e) \/ Holds(f, e)
      /\ \A e : HeldOnce(s, e) <=> HeldOnce(p, e) /\ (Holds(f, e) => ~Held(p, e))
      /\ \A e : Finds(s, e) <=> Finds(p, e) \/ (Holds(f, e) /\ f.op # "start")
      /\ \A e : Fires(s, e) <=> Fires(p, e) \/ (f.op = "fire" /\ f.ev = e /\ ~f.woke)
      /\ \A g : Posts(s, g) <=> Posts(p, g) \/ (f.op = "post" /\ f.task.flag = g)
  BY OnTop
<1> QED
  BY <1>1, <1>2, <1>3 DEF Same

LEMMA SameTransitive ==
  ASSUME NEW s, NEW m, NEW n, Same(s, m), Same(m, n)
  PROVE  Same(s, n) /\ Same(m, s)
  BY DEF Same

\* The frames of the loop, and of calls that have not begun.
LEMMA PlainFrames ==
  ASSUME NEW f \in Frame
  PROVE  /\ f.op \in {"run", "task", "signal", "wait"} => Plain(f)
         /\ f.op = "post" /\ f.task.flag = 0 => Plain(f)
         /\ f.op = "many" /\ (f.point # "lock" \/ f.held = <<>>) => Plain(f)
         /\ f.op \in {"run", "task", "signal", "post", "start", "fire"} =>
              /\ \A e : ~Awaits(f, e)
              /\ MayBeFiredBy(f, Disabled)
              /\ \A ev : MayBeFiredBy(f, ev) => ev = Disabled
<1>1. ToSet(<<>>) = {}
  BY ElementsOfNone
<1> QED
  BY <1>1 DEF Plain, Holds, Awaits, MayBeFiredBy

----------------------------------------------------------------------------
(* What keeps the parts of the invariant.                                  *)

LEMMA Typed ==
  ASSUME IInv
  PROVE  /\ StacksOK /\ stack \in [Thread -> Seq(Frame)]
         /\ lock \in [Event -> Thread \cup {Nobody}] /\ signaled \in [Event -> BOOLEAN]
         /\ waiters \in [Event -> Seq(Waiter)]
         /\ fired \in [Thread -> Event \cup {Waiting, Disabled}]
         /\ cancel_flag \in [Watcher -> Nat] /\ watched \in [Watcher -> Nat]
         /\ kernel \in [Watcher -> Event \cup {Nobody}]
         /\ starts \in Nat /\ set_flags \subseteq 1 .. starts
         /\ given \in [Event -> Nat] /\ taken \in [Event -> Nat]
         /\ Nobody \notin Thread /\ Nobody \notin Event
         /\ Waiting \notin Event /\ Disabled \notin Event /\ Waiting # Disabled
         /\ Loop \in Thread /\ Pump \in Event /\ IsFiniteSet(Thread)
<1>1. TypesOK /\ EventTypeOK /\ StacksOK
  BY DEF IInv, TypesOK
<1> QED
  BY <1>1, EventConstantsOK, LoopConstantsOK, FiredByAnEvent
     DEF EventTypeOK, StacksOK, Waiting, Disabled

\* The stack of one thread changes: what it holds now is locked by it, and the
\* locks of others are left alone.
LEMMA LocksKept ==
  ASSUME IInv, LocksOK, NEW t \in Thread, NEW n, stack' = [stack EXCEPT ![t] = n],
         \A e \in Event : /\ Held(n, e) => lock'[e] = t
                          /\ HeldOnce(n, e)
                          /\ Finds(n, e) => ~signaled'[e],
         \A e \in Event : lock[e] \notin {t, Nobody} =>
           lock'[e] = lock[e] /\ (signaled'[e] => signaled[e])
  PROVE  LocksOK'
<1> SUFFICES ASSUME NEW u \in Thread, NEW e \in Event
             PROVE  /\ Held(stack'[u], e) => lock'[e] = u
                    /\ HeldOnce(stack'[u], e)
                    /\ Finds(stack'[u], e) => ~signaled'[e]
  BY DEF LocksOK
<1>1. stack'[t] = n /\ \A v \in Thread : v # t => stack'[v] = stack[v]
  BY Typed
<1>2. CASE u = t
  BY <1>1, <1>2
<1>3. CASE u # t
  <2>1. /\ Held(stack[u], e) => lock[e] = u
        /\ HeldOnce(stack[u], e)
        /\ Finds(stack[u], e) => ~signaled[e]
    BY DEF LocksOK
  <2>2. Finds(stack[u], e) => Held(stack[u], e)
    BY DEF Finds, Held
  <2>3. u # Nobody
    BY Typed
  <2> QED
    BY <1>1, <1>3, <2>1, <2>2, <2>3
<1> QED
  BY <1>2, <1>3

LEMMA FiredKept ==
  ASSUME IInv, FiredOK, NEW t \in Thread, NEW n, stack' = [stack EXCEPT ![t] = n],
         FiredAt(n, fired'[t]), \A u \in Thread : u # t => fired'[u] = fired[u]
  PROVE  FiredOK'
<1>1. stack'[t] = n /\ \A v \in Thread : v # t => stack'[v] = stack[v]
  BY Typed
<1> QED
  BY <1>1 DEF FiredOK

\* A waiter that was there, of another thread or of one that still waits.
LEMMA WaiterKept ==
  ASSUME IInv, WaitersOK, NEW t \in Thread, NEW n, stack' = [stack EXCEPT ![t] = n],
         NEW e \in Event, NEW x \in ToSet(waiters[e]),
         x.flag = 0 => /\ x.thread = t => WaitsFor(n, e)
                       /\ fired'[x.thread] # e,
         x.flag # 0 => UNCHANGED <<watched, kernel, set_flags>>
  PROVE  WaiterOK(e, x)'
<1>1. stack'[t] = n /\ \A v \in Thread : v # t => stack'[v] = stack[v]
  BY Typed
<1>2. WaiterOK(e, x)
  BY DEF WaitersOK
<1> QED
  BY <1>1, <1>2 DEF WaiterOK

LEMMA NotListed ==
  ASSUME WaitersOK, NEW t \in Thread, \A e \in Event : ~WaitsFor(stack[t], e)
  PROVE  \A e \in Event : \A x \in ToSet(waiters[e]) : x.flag = 0 => x.thread # t
  BY DEF WaitersOK, WaiterOK

\* A thread that did not wait changes its stack.
LEMMA WaitersKept ==
  ASSUME IInv, WaitersOK, NEW t \in Thread, NEW n, stack' = [stack EXCEPT ![t] = n],
         \A e \in Event : ~WaitsFor(stack[t], e),
         \A u \in Thread : u # t => fired'[u] = fired[u],
         \A e \in Event : signaled'[e] => signaled[e] \/ waiters[e] = <<>>,
         UNCHANGED <<waiters, watched, kernel, set_flags>>
  PROVE  WaitersOK'
<1>1. \A e \in Event : \A x \in ToSet(waiters[e]) : WaiterOK(e, x)'
  <2> SUFFICES ASSUME NEW e \in Event, NEW x \in ToSet(waiters[e])
               PROVE  WaiterOK(e, x)'
    OBVIOUS
  <2>1. WaiterOK(e, x)
    BY DEF WaitersOK
  <2>2. x.flag = 0 => x.thread # t /\ x.thread \in Thread /\ fired[x.thread] # e
    BY <2>1, NotListed DEF WaiterOK
  <2>3. x.flag = 0 => fired'[x.thread] # e
    BY <2>2
  <2> QED
    BY <2>2, <2>3, WaiterKept
<1> QED
  BY <1>1 DEF WaitersOK

\* Of the tasks and of the stack that changes only tasks are posted that were.
LEMMA PostedKept ==
  ASSUME IInv, PostedOK, NEW t \in Thread, NEW n, stack' = [stack EXCEPT ![t] = n],
         \A f \in 1 .. starts : Posts(n, f) => Posted(f),
         \A f \in 1 .. starts : (\E i \in Number' : tasks'[i].flag = f) => Posted(f),
         UNCHANGED <<starts, watched>>, set_flags \subseteq set_flags',
         \A e \in Event : \A x \in ToSet(waiters'[e]) : x.flag # 0 => x \in ToSet(waiters[e])
  PROVE  PostedOK'
<1>1. stack'[t] = n /\ \A v \in Thread : v # t => stack'[v] = stack[v]
  BY Typed
<1>2. ASSUME NEW f \in 1 .. starts, Posted(f)'
      PROVE  Posted(f)
  <2>1. CASE \E i \in Number' : tasks'[i].flag = f
    BY <2>1
  <2>2. ASSUME NEW u \in Thread, Posts(stack'[u], f)
        PROVE  Posted(f)
    <3>1. CASE u = t
      BY <1>1, <2>2, <3>1
    <3>2. CASE u # t
      BY <1>1, <2>2, <3>2 DEF Posted
    <3> QED
      BY <3>1, <3>2
  <2> QED
    BY <1>2, <2>1, <2>2 DEF Posted
<1>3. \A f \in 1 .. starts : Posted(f)' /\ f \notin set_flags' => \E w \in Watcher : watched[w] = f
  BY <1>2 DEF PostedOK
<1>4. ASSUME NEW e \in Event, NEW x \in ToSet(waiters'[e]), x.flag # 0
      PROVE  ~Posted(x.flag)'
  <2>1. x \in ToSet(waiters[e])
    BY <1>4
  <2>2. x.flag \in 1 .. starts
    <3>1. FlagsOK /\ waiters[e] \in Seq(Waiter) /\ starts \in Nat
      BY Typed DEF IInv, TypesOK
    <3>2. PICK i \in 1 .. Len(waiters[e]) : waiters[e][i] = x
      BY <2>1, <3>1, ElementsAre
    <3>3. waiters[e][i].flag <= starts
      BY <3>1 DEF FlagsOK
    <3>4. x \in Waiter
      BY <2>1, <3>1, ElementsAre
    <3>5. x.flag \in Nat /\ x.flag <= starts
      BY <3>2, <3>3, <3>4 DEF Waiter
    <3> QED
      BY <1>4, <3>1, <3>5
  <2>3. ~Posted(x.flag)
    BY <1>4, <2>1 DEF PostedOK
  <2> QED
    BY <1>2, <2>2, <2>3
<1> QED
  BY <1>3, <1>4 DEF PostedOK

----------------------------------------------------------------------------
(* Counting threads.                                                       *)

LEMMA OneMore ==
  ASSUME IInv, NEW A, A \subseteq Thread, NEW u \in Thread, u \notin A
  PROVE  /\ Cardinality(A) \in Nat /\ Cardinality(A \cup {u}) = Cardinality(A) + 1
<1>1. IsFiniteSet(A)
  BY Typed, FS_Subset
<1>2. Cardinality(A) \in Nat
  BY <1>1, FS_CardinalityType
<1>3. Cardinality(A \cup {u}) = Cardinality(A) + 1
  BY <1>1, FS_AddElement
<1> QED
  BY <1>2, <1>3

LEMMA Counts ==
  ASSUME IInv, NEW e
  PROVE  Cardinality(Woke(e)) \in Nat /\ Cardinality(Firing(e)) \in Nat /\ Pending(e) \in Nat
<1>1. IsFiniteSet(Woke(e)) /\ IsFiniteSet(Firing(e))
  <2>1. Woke(e) \subseteq Thread /\ Firing(e) \subseteq Thread
    BY DEF Woke, Firing
  <2> QED
    BY <2>1, Typed, FS_Subset
<1> QED
  BY <1>1, FS_CardinalityType DEF Pending

LEMMA FiringChanges ==
  ASSUME IInv, NEW t \in Thread, NEW n, stack' = [stack EXCEPT ![t] = n], NEW e
  PROVE  /\ (Fires(n, e) <=> Fires(stack[t], e)) => Firing(e)' = Firing(e)
         /\ Fires(n, e) /\ ~Fires(stack[t], e) =>
              Cardinality(Firing(e)') = Cardinality(Firing(e)) + 1
         /\ ~Fires(n, e) /\ Fires(stack[t], e) =>
              Cardinality(Firing(e)') = Cardinality(Firing(e)) - 1
<1>1. stack'[t] = n /\ \A v \in Thread : v # t => stack'[v] = stack[v]
  BY Typed
<1>2. (Fires(n, e) <=> Fires(stack[t], e)) => Firing(e)' = Firing(e)
  BY <1>1 DEF Firing
<1>3. ASSUME Fires(n, e), ~Fires(stack[t], e)
      PROVE  Cardinality(Firing(e)') = Cardinality(Firing(e)) + 1
  <2>1. Firing(e)' = Firing(e) \cup {t} /\ t \notin Firing(e) /\ Firing(e) \subseteq Thread
    BY <1>1, <1>3 DEF Firing
  <2> QED
    BY <2>1, OneMore
<1>4. ASSUME ~Fires(n, e), Fires(stack[t], e)
      PROVE  Cardinality(Firing(e)') = Cardinality(Firing(e)) - 1
  <2> DEFINE A == Firing(e) \ {t}
  <2>1. Firing(e)' = A /\ Firing(e) = A \cup {t} /\ t \notin A /\ A \subseteq Thread
    BY <1>1, <1>4 DEF Firing
  <2> HIDE DEF A
  <2> QED
    BY <2>1, OneMore
<1> QED
  BY <1>2, <1>3, <1>4

LEMMA WokeChanges ==
  ASSUME IInv, NEW u \in Thread, NEW ev, fired' = [fired EXCEPT ![u] = ev], NEW e
  PROVE  /\ (ev = e <=> fired[u] = e) => Woke(e)' = Woke(e)
         /\ ev = e /\ fired[u] # e => Cardinality(Woke(e)') = Cardinality(Woke(e)) + 1
         /\ ev # e /\ fired[u] = e => Cardinality(Woke(e)') = Cardinality(Woke(e)) - 1
<1>1. fired'[u] = ev /\ \A v \in Thread : v # u => fired'[v] = fired[v]
  BY Typed
<1>2. (ev = e <=> fired[u] = e) => Woke(e)' = Woke(e)
  BY <1>1 DEF Woke
<1>3. ASSUME ev = e, fired[u] # e
      PROVE  Cardinality(Woke(e)') = Cardinality(Woke(e)) + 1
  <2>1. Woke(e)' = Woke(e) \cup {u} /\ u \notin Woke(e) /\ Woke(e) \subseteq Thread
    BY <1>1, <1>3 DEF Woke
  <2> QED
    BY <2>1, OneMore
<1>4. ASSUME ev # e, fired[u] = e
      PROVE  Cardinality(Woke(e)') = Cardinality(Woke(e)) - 1
  <2> DEFINE A == Woke(e) \ {u}
  <2>1. Woke(e)' = A /\ Woke(e) = A \cup {u} /\ u \notin A /\ A \subseteq Thread
    BY <1>1, <1>4 DEF Woke
  <2> HIDE DEF A
  <2> QED
    BY <2>1, OneMore
<1> QED
  BY <1>2, <1>3, <1>4

\* What is given is taken, or remains to be.
LEMMA Sums ==
  ASSUME NEW g \in Nat, NEW k \in Nat, NEW p \in Nat, NEW w \in Nat, NEW f \in Nat,
         NEW g1 \in Nat, NEW k1 \in Nat, NEW p1 \in Nat, NEW w1 \in Nat, NEW f1 \in Nat,
         g = k + p + w + f,
         g1 + k + p + w + f = g + k1 + p1 + w1 + f1
  PROVE  g1 = k1 + p1 + w1 + f1
  OBVIOUS

LEMMA Balance ==
  ASSUME IInv, EInv, NEW e \in Event \ Manual, given'[e] \in Nat, taken'[e] \in Nat,
         given'[e] + taken[e] + Pending(e) + Cardinality(Woke(e)) + Cardinality(Firing(e))
           = given[e] + taken'[e] + Pending(e)' + Cardinality(Woke(e)') + Cardinality(Firing(e)')
  PROVE  Received(e)'
<1>1. given[e] = taken[e] + Pending(e) + Cardinality(Woke(e)) + Cardinality(Firing(e))
  BY DEF EInv, ReceivedOK, Received
<1>2. Cardinality(Woke(e)') \in Nat /\ Cardinality(Firing(e)') \in Nat /\ Pending(e)' \in Nat
  <2>1. Woke(e)' \subseteq Thread /\ Firing(e)' \subseteq Thread
    BY DEF Woke, Firing
  <2> QED
    BY <2>1, Typed, FS_Subset, FS_CardinalityType DEF Pending
<1>3. given[e] \in Nat /\ taken[e] \in Nat
  BY Typed
<1>4. Cardinality(Woke(e)) \in Nat /\ Cardinality(Firing(e)) \in Nat /\ Pending(e) \in Nat
  BY Counts
<1> DEFINE Sum(g, k, p, w, f) == g = k + p + w + f
           Balanced(g, g1, k, k1, p, p1, w, w1, f, f1) ==
             g1 + k + p + w + f = g + k1 + p1 + w1 + f1
<1>5. \A g, g1, k, k1, p, p1, w, w1, f, f1 \in Nat :
        Sum(g, k, p, w, f) /\ Balanced(g, g1, k, k1, p, p1, w, w1, f, f1) => Sum(g1, k1, p1, w1, f1)
  BY Sums
<1>6. Sum(given[e], taken[e], Pending(e), Cardinality(Woke(e)), Cardinality(Firing(e)))
  BY <1>1
<1>7. Balanced(given[e], given'[e], taken[e], taken'[e], Pending(e), Pending(e)',
            Cardinality(Woke(e)), Cardinality(Woke(e)'), Cardinality(Firing(e)), Cardinality(Firing(e)'))
  BY Zenon
<1> HIDE DEF Sum, Balanced
<1>8. Sum(given'[e], taken'[e], Pending(e)', Cardinality(Woke(e)'), Cardinality(Firing(e)'))
  BY <1>2, <1>3, <1>4, <1>5, <1>6, <1>7
<1> QED
  BY <1>8 DEF Received, Sum

\* An event that nothing happens to.
LEMMA ReceivedKept ==
  ASSUME NEW e, Received(e), given'[e] = given[e], taken'[e] = taken[e],
         signaled'[e] = signaled[e], Woke(e)' = Woke(e), Firing(e)' = Firing(e)
  PROVE  Received(e)'
  BY DEF Received, Pending

----------------------------------------------------------------------------
(* Steps that change a stack and nothing of the events.                    *)

LEMMA IdleTop ==
  ASSUME NEW p \in Seq(Frame), NEW f \in Frame,
         \/ f.op \in {"run", "task", "signal", "post", "start", "fire"}
         \/ f.op = "many" /\ f.point = "lock"
  PROVE  Idle(Append(p, f))
<1>1. (\A e : ~Awaits(f, e)) /\ (\A ev : MayBeFiredBy(f, ev) <=> ev = Disabled)
  BY DEF Awaits, MayBeFiredBy
<1>2. /\ \A e : WaitsFor(Append(p, f), e) <=> Awaits(f, e)
      /\ \A ev : FiredAt(Append(p, f), ev) <=> MayBeFiredBy(f, ev)
  BY OnTop
<1> QED
  BY <1>1, <1>2 DEF Idle

LEMMA StackKeeps ==
  ASSUME IInv, EInv, NEW t \in Thread, NEW n, stack' = [stack EXCEPT ![t] = n],
         Idle(stack[t]), Idle(n),
         \A e : /\ Held(n, e) => Held(stack[t], e)
                /\ HeldOnce(stack[t], e) => HeldOnce(n, e)
                /\ Finds(n, e) => Finds(stack[t], e)
                /\ Fires(n, e) <=> Fires(stack[t], e),
         \A f \in 1 .. starts : Posts(n, f) => Posted(f),
         \A f \in 1 .. starts : (\E i \in Number' : tasks'[i].flag = f) => Posted(f),
         UNCHANGED <<lock, signaled, waiters, fired, given, taken, cancel_flag, kernel, starts,
                     watched>>,
         set_flags' = set_flags
  PROVE  EInv'
<1>0. LocksOK /\ FiredOK /\ WaitersOK /\ WatchersOK /\ PostedOK /\ ReceivedOK
  BY DEF EInv
<1>1. LocksOK'
  <2>1. \A e \in Event : /\ Held(n, e) => lock'[e] = t
                         /\ HeldOnce(n, e)
                         /\ Finds(n, e) => ~signaled'[e]
    BY <1>0 DEF LocksOK
  <2> QED
    BY <1>0, <2>1, LocksKept
<1>2. FiredOK'
  <2>1. fired[t] = Disabled
    BY <1>0 DEF FiredOK, Idle
  <2>2. FiredAt(n, fired'[t])
    BY <2>1 DEF Idle
  <2> QED
    BY <1>0, <2>2, FiredKept
<1>3. WaitersOK'
  BY <1>0, WaitersKept DEF Idle
<1>4. WatchersOK'
  BY <1>0 DEF WatchersOK
<1>5. PostedOK'
  BY <1>0, PostedKept
<1>6. ReceivedOK'
  <2> SUFFICES ASSUME NEW e \in Event \ Manual PROVE Received(e)'
    BY DEF ReceivedOK
  <2>1. Firing(e)' = Firing(e)
    BY FiringChanges
  <2>2. Woke(e)' = Woke(e)
    BY DEF Woke
  <2> QED
    BY <1>0, <2>1, <2>2, ReceivedKept DEF ReceivedOK
<1> QED
  BY <1>1, <1>2, <1>3, <1>4, <1>5, <1>6 DEF EInv

\* No task that is new has a Flag.
LEMMA SameKeeps ==
  ASSUME IInv, EInv, NEW t \in Thread, NEW n, stack' = [stack EXCEPT ![t] = n],
         Idle(stack[t]), Idle(n), Same(stack[t], n), UNCHANGED <<eventVars, watchVars, tasks>>
  PROVE  EInv'
<1>1. UNCHANGED <<lock, signaled, waiters, fired, given, taken, cancel_flag, kernel, starts,
                  watched, set_flags, tasks>>
  BY DEF eventVars, watchVars
<1>2. \A f \in 1 .. starts : Posts(n, f) => Posted(f)
  BY DEF Same, Posted
<1>3. \A f \in 1 .. starts : (\E i \in Number' : tasks'[i].flag = f) => Posted(f)
  BY <1>1 DEF Posted, Number
<1> QED
  BY <1>1, <1>2, <1>3, StackKeeps DEF Same

----------------------------------------------------------------------------
(* The steps of the loop.                                                  *)

LEMMA LoopIn ==
  ASSUME IInv, NEW op \in {"run", "task"}, In(Loop, op)
  PROVE  /\ Loop \in Thread /\ Below(Loop) \in Seq(Frame)
         /\ stack[Loop] = Append(Below(Loop), Top(Loop))
         /\ Idle(stack[Loop]) /\ Idle(Below(Loop)) /\ Same(stack[Loop], Below(Loop))
<1>1. StacksOK /\ Loop \in Thread /\ stack[Loop] # <<>> /\ Top(Loop).op \in {"run", "task"}
  BY Typed DEF In
<1>2. /\ Below(Loop) \in Seq(Frame) /\ Top(Loop) \in Frame
      /\ stack[Loop] = Append(Below(Loop), Top(Loop)) /\ Idle(Below(Loop))
  BY <1>1, BelowTop
<1>3. Plain(Top(Loop))
  BY <1>1, <1>2, PlainFrames
<1>4. Same(Append(Below(Loop), Top(Loop)), Below(Loop))
  BY <1>2, <1>3, SamePush
<1>5. Idle(Append(Below(Loop), Top(Loop)))
  BY <1>1, <1>2, IdleTop
<1> QED
  BY <1>1, <1>2, <1>4, <1>5

\* Run goes on, or Run or the task returns.
LEMMA LoopStackKeeps ==
  ASSUME IInv, EInv, NEW op \in {"run", "task"}, In(Loop, op),
         stack' = stack \/ Return(Loop) \/ \E f \in RunFrame : GoTo(Loop, f),
         UNCHANGED <<eventVars, watchVars, tasks>>
  PROVE  EInv'
<1> DEFINE p == Below(Loop)
<1>1. Loop \in Thread /\ p \in Seq(Frame) /\ Idle(stack[Loop]) /\ Idle(p) /\ Same(stack[Loop], p)
  BY LoopIn
<1>2. CASE stack' = stack
  <2>1. stack' = [stack EXCEPT ![Loop] = stack[Loop]]
    BY <1>2, Typed
  <2>2. Same(stack[Loop], stack[Loop])
    BY DEF Same
  <2> QED
    BY <1>1, <2>1, <2>2, SameKeeps
<1>3. CASE Return(Loop)
  BY <1>1, <1>3, SameKeeps DEF Return
<1>4. ASSUME NEW f \in RunFrame, GoTo(Loop, f)
      PROVE  EInv'
  <2>1. f \in Frame /\ f.op = "run"
    BY DEF Frame, RunFrame
  <2>2. Plain(f)
    BY <2>1, PlainFrames
  <2> HIDE DEF p
  <2> DEFINE n == Append(p, f)
  <2>3. Same(p, n) /\ Idle(n)
    BY <1>1, <2>1, <2>2, SamePush, IdleTop
  <2>4. stack' = [stack EXCEPT ![Loop] = n]
    BY <1>4 DEF GoTo, p
  <2> HIDE DEF n
  <2>5. Same(stack[Loop], n)
    BY <1>1, <2>3, SameTransitive
  <2> QED
    BY <1>1, <2>3, <2>4, <2>5, SameKeeps
<1> QED
  BY <1>2, <1>3, <1>4

\* A task is run: if it has a Flag, no waiter has it.
LEMMA RunTaskEvents ==
  ASSUME IInv, EInv, In(Loop, "run"), NEW id \in Number,
         NEW point \in {"work", "delayed", "idle", "sleep"}, RunTask(id, point)
  PROVE  EInv'
<1> DEFINE p == Below(Loop)
           f == [Top(Loop) EXCEPT !.point = point, !.did_work = TRUE]
           m == Append(p, f)
           k == Task(id)
           n == Append(m, k)
           flag == tasks[id].flag
<1>0. LocksOK /\ FiredOK /\ WaitersOK /\ WatchersOK /\ PostedOK /\ ReceivedOK
  BY DEF EInv
<1>1. Loop \in Thread /\ p \in Seq(Frame) /\ Idle(stack[Loop]) /\ Idle(p) /\ Same(stack[Loop], p)
  BY LoopIn
<1>2. f \in Frame /\ f.op = "run"
  <2>1. Top(Loop) \in RunFrame
    BY LoopIsAt DEF In, IInv
  <2>2. f \in RunFrame /\ f.op = "run"
    BY <2>1 DEF RunFrame
  <2> QED
    BY <2>2 DEF Frame
<1>3. k \in Frame /\ k.op = "task"
  <2>1. id \in Nat
    BY DEF Number
  <2> QED
    BY <2>1 DEF Task, TaskFrame, Frame
<1>4. Plain(f) /\ Plain(k)
  BY <1>2, <1>3, PlainFrames
<1>5. stack' = [stack EXCEPT ![Loop] = m \o <<k>>]
  BY DEF RunTask
<1> HIDE DEF p, f, k
<1>6. m \in Seq(Frame)
  BY <1>1, <1>2, PushProperties
<1>7. m \o <<k>> = n
  <2> HIDE DEF m
  <2> QED
    BY <1>3, <1>6, PushIsConcat
<1>8. stack' = [stack EXCEPT ![Loop] = n]
  BY <1>5, <1>7
<1>9. Same(p, m)
  BY <1>1, <1>2, <1>4, SamePush
<1> HIDE DEF m
<1>10. Same(m, n) /\ Idle(n)
  BY <1>3, <1>4, <1>6, SamePush, IdleTop
<1> HIDE DEF n
<1>11. Same(stack[Loop], n)
  BY <1>1, <1>9, <1>10, SameTransitive
<1>12. /\ UNCHANGED <<lock, signaled, waiters, fired, given, taken, tasks, cancel_flag, kernel,
                      starts, watched>>
       /\ set_flags' = set_flags \/ (flag # 0 /\ set_flags' = set_flags \cup {flag})
  BY DEF RunTask, RunCallback, eventVars
<1>13. Posted(flag)
  BY DEF Posted
<1>14. LocksOK'
  <2>1. \A e \in Event : /\ Held(n, e) => lock'[e] = Loop
                         /\ HeldOnce(n, e)
                         /\ Finds(n, e) => ~signaled'[e]
    BY <1>0, <1>1, <1>11, <1>12 DEF LocksOK, Same
  <2> QED
    BY <1>0, <1>1, <1>8, <1>12, <2>1, LocksKept
<1>15. FiredOK'
  <2>1. fired[Loop] = Disabled
    BY <1>0, <1>1 DEF FiredOK, Idle
  <2>2. FiredAt(n, fired'[Loop])
    BY <1>10, <1>12, <2>1 DEF Idle
  <2> QED
    BY <1>0, <1>1, <1>8, <1>12, <2>2, FiredKept
<1>16. WaitersOK'
  <2> SUFFICES ASSUME NEW e \in Event, NEW x \in ToSet(waiters[e])
               PROVE  WaiterOK(e, x)'
    BY <1>0, <1>12 DEF WaitersOK
  <2>1. WaiterOK(e, x)
    BY <1>0 DEF WaitersOK
  <2>2. x.flag = 0 => x.thread # Loop /\ x.thread \in Thread
    BY <1>0, <1>1, <2>1, NotListed DEF Idle, WaiterOK
  <2>3. stack'[Loop] = n /\ \A v \in Thread : v # Loop => stack'[v] = stack[v]
    BY <1>1, <1>8, Typed
  <2>4. x.flag # 0 => x.flag # flag
    BY <1>0, <1>13 DEF PostedOK
  <2> QED
    BY <1>12, <2>1, <2>2, <2>3, <2>4 DEF WaiterOK
<1>17. WatchersOK'
  BY <1>0, <1>12 DEF WatchersOK
<1>18. PostedOK'
  <2>1. \A g \in 1 .. starts : Posts(n, g) => Posted(g)
    BY <1>1, <1>11 DEF Same, Posted
  <2>2. \A g \in 1 .. starts : (\E i \in Number' : tasks'[i].flag = g) => Posted(g)
    BY <1>12 DEF Posted, Number
  <2> QED
    BY <1>0, <1>1, <1>8, <1>12, <2>1, <2>2, PostedKept
<1>19. ReceivedOK'
  <2> SUFFICES ASSUME NEW e \in Event \ Manual PROVE Received(e)'
    BY DEF ReceivedOK
  <2>1. Firing(e)' = Firing(e)
    BY <1>1, <1>8, <1>11, FiringChanges DEF Same
  <2>2. Woke(e)' = Woke(e)
    BY <1>12 DEF Woke
  <2> QED
    BY <1>0, <1>12, <2>1, <2>2, ReceivedKept DEF ReceivedOK
<1> QED
  BY <1>14, <1>15, <1>16, <1>17, <1>18, <1>19 DEF EInv

----------------------------------------------------------------------------
(* TimedWait.                                                              *)

\* The signal of an auto-reset event is taken.
LEMMA SignalTaken ==
  ASSUME IInv, EInv, NEW d \in Event \ Manual, signaled[d], ~signaled'[d],
         taken'[d] = taken[d] + 1, given'[d] = given[d], Woke(d)' = Woke(d),
         Firing(d)' = Firing(d)
  PROVE  Received(d)'
<1>1. Received(d) /\ taken[d] \in Nat
  BY Typed DEF EInv, ReceivedOK
<1>2. Pending(d)' = 0 /\ Pending(d) = 1
  BY DEF Pending
<1>3. Cardinality(Woke(d)) \in Nat /\ Cardinality(Firing(d)) \in Nat
  BY Counts
<1>4. given[d] = taken[d] + 1 + Cardinality(Woke(d)) + Cardinality(Firing(d))
  BY <1>1, <1>2 DEF Received
<1>5. Cardinality(Woke(d)') = Cardinality(Woke(d))
      /\ Cardinality(Firing(d)') = Cardinality(Firing(d))
  OBVIOUS
<1>6. given'[d] = taken'[d] + 0 + Cardinality(Woke(d)') + Cardinality(Firing(d)')
  BY <1>1, <1>3, <1>4, <1>5
<1> QED
  BY <1>2, <1>6 DEF Received

\* A call that finds the event signaled takes the signal.
LEMMA ConsumeProperties ==
  ASSUME IInv, EInv, NEW e \in Event, Consume(e), signaled[e]
  PROVE  /\ \A d : signaled'[d] => signaled[d] \/ d \notin Event
         /\ \A d \in Event \ Manual : given'[d] = given[d] /\ Woke(d)' = Woke(d)
                                   /\ Firing(d)' = Firing(d) => Received(d)'
<1>1. /\ signaled' = [signaled EXCEPT ![e] = e \in Manual]
      /\ IF e \in Manual THEN UNCHANGED taken ELSE Take(e)
  BY DEF Consume
<1>2. \A d \in Event : signaled'[d] => signaled[d]
  BY <1>1, Typed
<1>3. ASSUME NEW d \in Event \ Manual, given'[d] = given[d], Woke(d)' = Woke(d),
             Firing(d)' = Firing(d)
      PROVE  Received(d)'
  <2>1. Received(d)
    BY DEF EInv, ReceivedOK
  <2>2. CASE d # e
    <3>1. taken'[d] = taken[d] /\ signaled'[d] = signaled[d]
      BY <1>1, <2>2, Typed DEF Take
    <3> QED
      BY <1>3, <2>1, <3>1, ReceivedKept
  <2>3. CASE d = e
    <3>1. taken'[d] = taken[d] + 1
      BY <1>1, <2>3, Typed DEF Take
    <3>2. ~signaled'[d] /\ signaled[d]
      <4>1. signaled'[e] = (e \in Manual)
        BY <1>1, Typed
      <4> QED
        BY <2>3, <4>1
    <3> QED
      BY <1>3, <3>1, <3>2, SignalTaken
  <2> QED
    BY <2>2, <2>3
<1> QED
  BY <1>2, <1>3

\* A thread is put in an event's list.
LEMMA Enlisted ==
  ASSUME IInv, NEW e \in Event, NEW x \in Waiter, x \notin ToSet(waiters[e]), Distinct(waiters[e])
  PROVE  LET l == Append(waiters[e], x)
         IN  Distinct(l) /\ ToSet(l) = ToSet(waiters[e]) \cup {x}
<1>1. waiters[e] \in Seq(Waiter)
  BY Typed
<1> QED
  BY <1>1, ElementsOfAppend

LEMMA TimedWaitKeeps ==
  ASSUME IInv, EInv, NEW t \in Thread, NEW e \in Event, NEW until \in Nat,
         TimedWait(t, e, until), NEW m \in Seq(Frame), NEW n,
         Idle(stack[t]), Idle(m), Same(stack[t], m),
         stack' = [stack EXCEPT ![t] = n],
         n = IF signaled[e] THEN m ELSE Append(m, TimedWaiting(e, until)),
         tasks' = tasks
  PROVE  EInv'
<1> DEFINE f == TimedWaiting(e, until)
           x == SyncWaiter(t)
<1>0. LocksOK /\ FiredOK /\ WaitersOK /\ WatchersOK /\ PostedOK /\ ReceivedOK
  BY DEF EInv
<1>1. /\ UNCHANGED <<lock, given, tasks, cancel_flag, kernel, set_flags, starts, watched>>
      /\ lock[e] = Nobody
  BY DEF TimedWait, watchVars, Free
<1>2. CASE signaled[e]
  <2>1. Consume(e) /\ UNCHANGED <<waiters, fired>> /\ n = m
    BY <1>2 DEF TimedWait
  <2>2. \A d \in Event : signaled'[d] => signaled[d]
    BY <1>2, <2>1, ConsumeProperties
  <2>3. LocksOK'
    <3>1. \A d \in Event : /\ Held(n, d) => lock'[d] = t
                           /\ HeldOnce(n, d)
                           /\ Finds(n, d) => ~signaled'[d]
      BY <1>0, <1>1, <2>1, <2>2 DEF LocksOK, Same
    <3> QED
      BY <1>0, <1>1, <2>2, <3>1, LocksKept
  <2>4. FiredOK'
    <3>1. fired[t] = Disabled
      BY <1>0 DEF FiredOK, Idle
    <3>2. FiredAt(n, fired'[t])
      BY <2>1, <3>1 DEF Idle
    <3> QED
      BY <1>0, <2>1, <3>2, FiredKept
  <2>5. WaitersOK'
    BY <1>0, <1>1, <2>1, <2>2, WaitersKept DEF Idle
  <2>6. WatchersOK'
    BY <1>0, <1>1 DEF WatchersOK
  <2>7. PostedOK'
    <3>1. \A g \in 1 .. starts : Posts(n, g) => Posted(g)
      BY <2>1 DEF Same, Posted
    <3>2. \A g \in 1 .. starts : (\E i \in Number' : tasks'[i].flag = g) => Posted(g)
      BY <1>1 DEF Posted, Number
    <3> QED
      BY <1>0, <1>1, <2>1, <3>1, <3>2, PostedKept
  <2>8. ReceivedOK'
    <3> SUFFICES ASSUME NEW d \in Event \ Manual PROVE Received(d)'
      BY DEF ReceivedOK
    <3>1. Firing(d)' = Firing(d)
      BY <2>1, FiringChanges DEF Same
    <3>2. Woke(d)' = Woke(d)
      BY <2>1 DEF Woke
    <3> QED
      BY <1>1, <1>2, <2>1, <3>1, <3>2, ConsumeProperties
  <2> QED
    BY <2>3, <2>4, <2>5, <2>6, <2>7, <2>8 DEF EInv
<1>3. CASE ~signaled[e]
  <2>1. /\ waiters' = [waiters EXCEPT ![e] = Append(@, x)]
        /\ fired' = [fired EXCEPT ![t] = Waiting]
        /\ UNCHANGED <<signaled, taken>> /\ n = Append(m, f)
    BY <1>3 DEF TimedWait
  <2>2. f \in Frame /\ f.op = "wait" /\ f.ev = e /\ f.point = "asleep"
    BY DEF TimedWaiting, CallFrame, Frame
  <2>3. x \in Waiter /\ x.flag = 0 /\ x.thread = t
    BY DEF SyncWaiter, Waiter
  <2> HIDE DEF f, x
  <2>4. Same(m, n)
    BY <2>1, <2>2, PlainFrames, SamePush
  <2>5. Same(stack[t], n)
    BY <2>4, SameTransitive
  <2>6. WaitsFor(n, e) /\ FiredAt(n, Waiting)
    <3>1. Awaits(f, e) /\ MayBeFiredBy(f, Waiting)
      BY <2>2 DEF Awaits, MayBeFiredBy
    <3> QED
      BY <2>1, <2>2, <3>1, OnTop
  <2>7. fired[t] = Disabled /\ fired'[t] = Waiting /\ \A u \in Thread : u # t => fired'[u] = fired[u]
    BY <1>0, <2>1, Typed DEF FiredOK, Idle
  <2>8. LocksOK'
    <3>1. \A d \in Event : /\ Held(n, d) => lock'[d] = t
                           /\ HeldOnce(n, d)
                           /\ Finds(n, d) => ~signaled'[d]
      BY <1>0, <1>1, <2>1, <2>5 DEF LocksOK, Same
    <3> QED
      BY <1>0, <1>1, <2>1, <3>1, LocksKept
  <2>9. FiredOK'
    BY <1>0, <2>6, <2>7, FiredKept
  <2>10. \A d \in Event : \A y \in ToSet(waiters[d]) : y.flag = 0 => y.thread # t
    BY <1>0, NotListed DEF Idle
  <2>11. x \notin ToSet(waiters[e]) /\ Distinct(waiters[e])
    BY <1>0, <2>3, <2>10 DEF WaitersOK
  <2>12. /\ Distinct(waiters'[e]) /\ ToSet(waiters'[e]) = ToSet(waiters[e]) \cup {x}
         /\ \A d \in Event : d # e => waiters'[d] = waiters[d]
    BY <2>1, <2>3, <2>11, Enlisted, Typed
  <2>13. \A d \in Event : \A y \in ToSet(waiters'[d]) : y \in ToSet(waiters[d]) \/ (d = e /\ y = x)
    BY <2>12
  <2>14. ASSUME NEW d \in Event, NEW y \in ToSet(waiters'[d])
         PROVE  WaiterOK(d, y)'
    <3>1. CASE y \in ToSet(waiters[d])
      <4>1. WaiterOK(d, y)
        BY <1>0, <3>1 DEF WaitersOK
      <4>2. y.flag = 0 => y.thread # t /\ y.thread \in Thread /\ fired[y.thread] # d
        BY <2>10, <3>1, <4>1 DEF WaiterOK
      <4>3. y.flag = 0 => fired'[y.thread] # d
        BY <2>7, <4>2
      <4> QED
        BY <1>0, <1>1, <3>1, <4>2, <4>3, WaiterKept
    <3>2. CASE d = e /\ y = x
      <4>1. stack'[t] = n
        BY Typed
      <4>2. Waiting # e
        BY Typed
      <4> QED
        BY <2>3, <2>6, <2>7, <3>2, <4>1, <4>2 DEF WaiterOK
    <3> QED
      BY <2>13, <3>1, <3>2
  <2>15. WaitersOK'
    <3>1. \A d \in Event : Distinct(waiters'[d]) /\ (signaled'[d] => waiters'[d] = <<>>)
      BY <1>0, <1>3, <2>1, <2>12 DEF WaitersOK
    <3> QED
      BY <2>14, <3>1 DEF WaitersOK
  <2>16. WatchersOK'
    BY <1>0, <1>1 DEF WatchersOK
  <2>17. PostedOK'
    <3>1. \A g \in 1 .. starts : Posts(n, g) => Posted(g)
      BY <2>5 DEF Same, Posted
    <3>2. \A g \in 1 .. starts : (\E i \in Number' : tasks'[i].flag = g) => Posted(g)
      BY <1>1 DEF Posted, Number
    <3> QED
      BY <1>0, <1>1, <2>3, <2>13, <3>1, <3>2, PostedKept
  <2>18. ReceivedOK'
    <3> SUFFICES ASSUME NEW d \in Event \ Manual PROVE Received(d)'
      BY DEF ReceivedOK
    <3>1. Firing(d)' = Firing(d)
      BY <2>5, FiringChanges DEF Same
    <3>2. Woke(d)' = Woke(d)
      BY <2>1, <2>7, Typed, WokeChanges
    <3> QED
      BY <1>0, <1>1, <2>1, <3>1, <3>2, ReceivedKept DEF ReceivedOK
  <2> QED
    BY <2>8, <2>9, <2>15, <2>16, <2>17, <2>18 DEF EInv
<1> QED
  BY <1>2, <1>3

LEMMA SleepEvents ==
  ASSUME IInv, EInv, Sleep
  PROVE  EInv'
<1> DEFINE awake == [Top(Loop) EXCEPT !.point = "work"]
           p == Below(Loop)
           m == Append(p, awake)
           w == TimedWaiting(Pump, delayed_time)
<1>1. In(Loop, "run") /\ tasks' = tasks
  BY AtRun DEF Sleep
<1>2. awake \in RunFrame /\ awake \in Frame /\ awake.op = "run"
  <2>1. Top(Loop) \in RunFrame
    BY <1>1, LoopIsAt DEF In, IInv
  <2>2. awake \in RunFrame /\ awake.op = "run"
    BY <2>1 DEF RunFrame
  <2> QED
    BY <2>2 DEF Frame
<1>3. \/ GoTo(Loop, awake) /\ UNCHANGED <<eventVars, watchVars>>
      \/ /\ TimedWait(Loop, Pump, delayed_time)
         /\ stack' = [stack EXCEPT ![Loop] = m \o IF signaled[Pump] THEN <<>> ELSE <<w>>]
  BY DEF Sleep
<1>4. CASE GoTo(Loop, awake) /\ UNCHANGED <<eventVars, watchVars>>
  BY <1>1, <1>2, <1>4, LoopStackKeeps
<1>5. CASE /\ TimedWait(Loop, Pump, delayed_time)
           /\ stack' = [stack EXCEPT ![Loop] = m \o IF signaled[Pump] THEN <<>> ELSE <<w>>]
  <2>1. Loop \in Thread /\ p \in Seq(Frame) /\ Idle(stack[Loop]) /\ Same(stack[Loop], p)
    BY <1>1, LoopIn
  <2>2. Pump \in Event /\ delayed_time \in Nat
    <3>1. MaxTime \in Nat /\ delayed_time \in 0 .. MaxTime
      BY LoopConstantsOK DEF IInv, TypesOK
    <3> QED
      BY <3>1, Typed
  <2>3. w \in Frame
    BY <2>2 DEF TimedWaiting, CallFrame, Frame
  <2>4. Plain(awake)
    BY <1>2, PlainFrames
  <2> HIDE DEF awake, p, w
  <2>5. m \in Seq(Frame) /\ Same(p, m) /\ Idle(m)
    BY <1>2, <2>1, <2>4, SamePush, IdleTop, PushProperties
  <2> HIDE DEF m
  <2>6. Same(stack[Loop], m)
    BY <2>1, <2>5, SameTransitive
  <2> DEFINE n == IF signaled[Pump] THEN m ELSE Append(m, w)
  <2>7. stack' = [stack EXCEPT ![Loop] = n]
    <3>1. m \o <<>> = m /\ m \o <<w>> = Append(m, w)
      BY <2>3, <2>5, PushIsConcat
    <3>2. (m \o IF signaled[Pump] THEN <<>> ELSE <<w>>) = n
      BY <3>1
    <3> QED
      BY <1>5, <3>2
  <2>8. n = IF signaled[Pump] THEN m ELSE Append(m, TimedWaiting(Pump, delayed_time))
    BY DEF w
  <2> HIDE DEF n
  <2> QED
    BY <1>1, <1>5, <2>1, <2>2, <2>5, <2>6, <2>7, <2>8, TimedWaitKeeps
<1> QED
  BY <1>3, <1>4, <1>5

LEMMA ProceedIn ==
  ASSUME IInv, In(Loop, "run"), NEW point \in {"work", "delayed", "idle", "sleep"},
         NEW did_work \in BOOLEAN, Proceed(point, did_work)
  PROVE  \E f \in RunFrame : GoTo(Loop, f)
<1> DEFINE f == [Top(Loop) EXCEPT !.point = point, !.did_work = @ \/ did_work]
<1>1. Top(Loop) \in RunFrame
  BY LoopIsAt DEF In, IInv
<1>2. (Top(Loop).did_work \/ did_work) \in BOOLEAN
  OBVIOUS
<1>3. f \in RunFrame
  BY <1>1, <1>2 DEF RunFrame
<1> QED
  BY <1>3 DEF Proceed

LEMMA DoWorkEvents ==
  ASSUME IInv, EInv, DoWork \/ DoDelayedWork \/ RunDeferred
  PROVE  EInv'
<1>0. QueuesOK
  BY DEF IInv, TypesOK
<1>1. CASE DoWork
  <2>1. In(Loop, "run") /\ work # <<>>
    BY <1>1, AtRun DEF DoWork, InDoWork
  <2>2. Head(work) \in Number
    BY <1>0, <2>1, ElementsOfTail DEF QueuesOK
  <2>3. CASE DeferTask(Head(work)) /\ UNCHANGED stack
    BY <2>1, <2>3, LoopStackKeeps DEF DeferTask
  <2>4. CASE RunTask(Head(work), "delayed")
    BY <2>1, <2>2, <2>4, RunTaskEvents
  <2> QED
    BY <1>1, <2>3, <2>4 DEF DoWork
<1>2. CASE DoDelayedWork
  <2>1. In(Loop, "run") /\ delayed # <<>>
    BY <1>2, AtRun DEF DoDelayedWork, DelayedIsDue
  <2>2. Head(delayed) \in Number
    BY <1>0, <2>1, ElementsOfTail DEF QueuesOK
  <2>3. CASE DeferTask(Head(delayed)) /\ Proceed("idle", FALSE)
    <3>1. \E f \in RunFrame : GoTo(Loop, f)
      BY <2>1, <2>3, ProceedIn
    <3> QED
      BY <2>1, <2>3, <3>1, LoopStackKeeps DEF DeferTask
  <2>4. CASE RunTask(Head(delayed), "idle")
    BY <2>1, <2>2, <2>4, RunTaskEvents
  <2> QED
    BY <1>2, <2>3, <2>4 DEF DoDelayedWork
<1>3. CASE RunDeferred
  <2>1. In(Loop, "run") /\ deferred # <<>> /\ RunTask(Head(deferred), "sleep")
    BY <1>3, AtRun DEF RunDeferred
  <2>2. Head(deferred) \in Number
    BY <1>0, <2>1, ElementsOfTail DEF QueuesOK
  <2> QED
    BY <2>1, <2>2, RunTaskEvents
<1> QED
  BY <1>1, <1>2, <1>3

LEMMA LoopStepEvents ==
  ASSUME IInv, EInv, LoopStep
  PROVE  EInv'
<1>1. CASE ReloadWorkQueue \/ MoveDelayedTask
  <2>1. In(Loop, "run")
    BY <1>1, AtRun DEF ReloadWorkQueue, MoveDelayedTask, InDoWork
  <2> QED
    BY <1>1, <2>1, LoopStackKeeps DEF ReloadWorkQueue, MoveDelayedTask
<1>2. CASE DoNoWork \/ DoNoDelayedWork \/ DoNoIdleWork
  <2>1. In(Loop, "run") /\ UNCHANGED <<eventVars, watchVars, tasks>>
    BY <1>2, AtRun DEF DoNoWork, DoNoDelayedWork, DoNoIdleWork, loopVars
  <2>2. Proceed("delayed", FALSE) \/ Proceed("idle", FALSE) \/ Proceed("sleep", FALSE)
    BY <1>2 DEF DoNoWork, DoNoDelayedWork, DoNoIdleWork
  <2>3. \E f \in RunFrame : GoTo(Loop, f)
    BY <2>1, <2>2, ProceedIn
  <2> QED
    BY <2>1, <2>3, LoopStackKeeps
<1>3. CASE NextRound
  <2>1. In(Loop, "run") /\ UNCHANGED <<eventVars, watchVars, tasks>>
    BY <1>3, AtRun DEF NextRound, loopVars
  <2>2. Top(Loop) \in RunFrame
    BY <2>1, LoopIsAt DEF In, IInv
  <2>3. [Top(Loop) EXCEPT !.point = "work", !.did_work = FALSE] \in RunFrame
    BY <2>2 DEF RunFrame
  <2>4. \E f \in RunFrame : GoTo(Loop, f)
    BY <1>3, <2>3 DEF NextRound
  <2> QED
    BY <2>1, <2>4, LoopStackKeeps
<1>4. CASE EndRun
  BY <1>4, LoopStackKeeps DEF EndRun
<1>5. CASE EndTask
  BY <1>5, LoopStackKeeps DEF EndTask
<1> QED
  BY <1>1, <1>2, <1>3, <1>4, <1>5, DoWorkEvents, SleepEvents DEF LoopStep

----------------------------------------------------------------------------
(* The steps of calls: Signal.                                             *)

\* What the call on top of a stack adds to what is below it.
LEMMA Opened ==
  ASSUME IInv, NEW t \in Thread, NEW op, In(t, op)
  PROVE  LET s == stack[t]
             p == Below(t)
             f == Top(t)
         IN  /\ p \in Seq(Frame) /\ f \in Frame /\ f.op = op /\ s = Append(p, f) /\ Idle(p)
             /\ \A e : Held(s, e) <=> Held(p, e) \/ Holds(f, e)
             /\ \A e : HeldOnce(s, e) <=> HeldOnce(p, e) /\ (Holds(f, e) => ~Held(p, e))
             /\ \A e : Finds(s, e) <=> Finds(p, e) \/ (Holds(f, e) /\ f.op # "start")
             /\ \A e : Fires(s, e) <=> Fires(p, e) \/ (f.op = "fire" /\ f.ev = e /\ ~f.woke)
             /\ \A g : Posts(s, g) <=> Posts(p, g) \/ (f.op = "post" /\ f.task.flag = g)
             /\ \A e : WaitsFor(s, e) <=> Awaits(f, e)
             /\ \A ev : FiredAt(s, ev) <=> MayBeFiredBy(f, ev)
<1>1. StacksOK /\ stack[t] # <<>> /\ Top(t).op = op
  BY Typed DEF In
<1>2. /\ Below(t) \in Seq(Frame) /\ Top(t) \in Frame
      /\ stack[t] = Append(Below(t), Top(t)) /\ Idle(Below(t))
  BY <1>1, BelowTop
<1> QED
  BY <1>1, <1>2, OnTop

\* No call of the event module changes what is watched, but for Fire.
LEMMA WatchesKept ==
  ASSUME IInv, EInv, NEW t \in Thread, NEW n, stack' = [stack EXCEPT ![t] = n],
         UNCHANGED <<watchVars, tasks>>,
         \A f : Posts(n, f) => Posts(stack[t], f),
         \A e \in Event : \A x \in ToSet(waiters'[e]) : x.flag # 0 => x \in ToSet(waiters[e])
  PROVE  WatchersOK' /\ PostedOK'
<1>1. UNCHANGED <<cancel_flag, kernel, set_flags, starts, watched>> /\ WatchersOK /\ PostedOK
  BY DEF watchVars, EInv
<1>2. \A f \in 1 .. starts : Posts(n, f) => Posted(f)
  BY DEF Posted
<1>3. \A f \in 1 .. starts : (\E i \in Number' : tasks'[i].flag = f) => Posted(f)
  BY DEF Posted, Number
<1>4. PostedOK'
  BY <1>1, <1>2, <1>3, PostedKept
<1> QED
  BY <1>1, <1>4 DEF WatchersOK

\* A call that begins or ends where its thread did not wait.
LEMMA FiredIdle ==
  ASSUME IInv, EInv, NEW t \in Thread, NEW n, stack' = [stack EXCEPT ![t] = n],
         Idle(stack[t]), Idle(n), \A u \in Thread : fired'[u] = fired[u]
  PROVE  FiredOK' /\ fired[t] = Disabled
<1>1. FiredOK
  BY DEF EInv
<1>2. fired[t] = Disabled
  BY <1>1 DEF FiredOK, Idle
<1>3. FiredAt(n, fired'[t])
  BY <1>2 DEF Idle
<1> QED
  BY <1>1, <1>2, <1>3, FiredKept

\* A Signal that is done, begins, or wakes.
LEMMA SignalTop ==
  ASSUME IInv, EInv, NEW t \in Thread, In(t, "fire")
  PROVE  /\ Top(t).ev \in Event /\ Top(t).woke \in BOOLEAN
         /\ Holds(Top(t), Top(t).ev) /\ ~Held(Below(t), Top(t).ev) /\ ~Fires(Below(t), Top(t).ev)
         /\ lock[Top(t).ev] = t /\ ~signaled[Top(t).ev]
         /\ Idle(stack[t])
<1> DEFINE f == Top(t)
           e == f.ev
<1>1. f \in Frame /\ f.op = "fire" /\ Below(t) \in Seq(Frame) /\ stack[t] = Append(Below(t), f)
  BY Opened
<1>2. e \in Event /\ f.woke \in BOOLEAN
  BY <1>1, FrameFields
<1>3. Holds(f, e)
  BY <1>1 DEF Holds
<1>4. Held(stack[t], e) /\ Finds(stack[t], e) /\ (HeldOnce(stack[t], e) => ~Held(Below(t), e))
  BY <1>1, <1>3, Opened
<1>5. lock[e] = t /\ ~signaled[e] /\ ~Held(Below(t), e)
  BY <1>2, <1>4 DEF EInv, LocksOK
<1>6. ~Fires(Below(t), e)
  BY <1>5 DEF Fires, Held, Holds
<1>7. Idle(Append(Below(t), f))
  BY <1>1, IdleTop
<1> QED
  BY <1>1, <1>2, <1>3, <1>5, <1>6, <1>7

LEMMA BeginSignalEvents ==
  ASSUME IInv, EInv, NEW t \in Thread, BeginSignal(t), UNCHANGED <<loopVars, left>>
  PROVE  EInv'
<1> DEFINE p == Below(t)
           e == Top(t).ev
           g == [op |-> "fire", ev |-> e, woke |-> FALSE]
           n == Append(p, g)
<1>0. LocksOK /\ FiredOK /\ WaitersOK /\ WatchersOK /\ PostedOK /\ ReceivedOK
  BY DEF EInv
<1>1. In(t, "signal") /\ lock[e] = Nobody /\ tasks' = tasks
  BY DEF BeginSignal, Free, loopVars
<1>2. /\ p \in Seq(Frame) /\ Top(t) \in Frame /\ Top(t).op = "signal"
      /\ stack[t] = Append(p, Top(t)) /\ Idle(p) /\ e \in Event
  BY <1>1, Opened, FrameFields
<1>3. Plain(Top(t))
  BY <1>2, PlainFrames
<1>4. Same(Append(p, Top(t)), p) /\ Idle(Append(p, Top(t)))
  BY <1>2, <1>3, SamePush, IdleTop
<1>5. Same(stack[t], p) /\ Idle(stack[t])
  BY <1>2, <1>4
<1>6. CASE signaled[e]
  <2>1. Return(t) /\ UNCHANGED <<eventVars, watchVars, tasks>>
    BY <1>1, <1>6 DEF BeginSignal, eventVars
  <2>2. stack' = [stack EXCEPT ![t] = p]
    BY <2>1 DEF Return
  <2> QED
    BY <1>2, <1>5, <2>1, <2>2, SameKeeps
<1>7. CASE ~signaled[e]
  <2>1. /\ stack' = [stack EXCEPT ![t] = n] /\ lock' = [lock EXCEPT ![e] = t] /\ Give(e)
        /\ UNCHANGED <<signaled, waiters, fired, taken, watchVars, tasks>>
    BY <1>1, <1>7 DEF BeginSignal, GoTo
  <2>2. g \in Frame /\ g.op = "fire" /\ g.ev = e /\ ~g.woke
    BY <1>2 DEF Frame, CallFrame
  <2> HIDE DEF g
  <2>3. \A d : Holds(g, d) <=> d = e
    BY <2>2 DEF Holds
  <2>4. /\ \A d : Held(n, d) <=> Held(p, d) \/ d = e
        /\ \A d : HeldOnce(n, d) <=> HeldOnce(p, d) /\ (d = e => ~Held(p, d))
        /\ \A d : Finds(n, d) <=> Finds(p, d) \/ d = e
        /\ \A d : Fires(n, d) <=> Fires(p, d) \/ d = e
        /\ \A h : Posts(n, h) <=> Posts(p, h)
        /\ Idle(n)
    BY <1>2, <2>2, <2>3, OnTop, IdleTop
  <2> HIDE DEF n, p, e
  <2>5. /\ \A d \in Event : d # e => lock'[d] = lock[d] /\ given'[d] = given[d]
        /\ lock'[e] = t /\ given'[e] = given[e] + 1
    BY <1>2, <2>1, Typed DEF Give
  <2>6. \A d \in Event : /\ Held(p, d) => lock[d] = t /\ d # e
                         /\ HeldOnce(p, d)
                         /\ Finds(p, d) => ~signaled[d]
    BY <1>0, <1>1, <1>5, Typed DEF LocksOK, Same
  <2>7. LocksOK'
    <3>1. \A d \in Event : /\ Held(n, d) => lock'[d] = t
                           /\ HeldOnce(n, d)
                           /\ Finds(n, d) => ~signaled'[d]
      BY <1>7, <2>1, <2>4, <2>5, <2>6
    <3>2. \A d \in Event : lock[d] \notin {t, Nobody} => lock'[d] = lock[d] /\ (signaled'[d] => signaled[d])
      BY <1>1, <2>1, <2>5
    <3> QED
      BY <1>0, <2>1, <3>1, <3>2, LocksKept
  <2>8. FiredOK'
    BY <1>5, <2>1, <2>4, FiredIdle
  <2>9. WaitersOK'
    <3>1. UNCHANGED <<waiters, watched, kernel, set_flags>>
      BY <2>1 DEF watchVars
    <3> QED
      BY <1>0, <1>5, <2>1, <3>1, WaitersKept DEF Idle
  <2>10. WatchersOK' /\ PostedOK'
    <3>1. \A h : Posts(n, h) => Posts(stack[t], h)
      BY <1>1, <2>4, Opened DEF p
    <3> QED
      BY <2>1, <3>1, WatchesKept
  <2>11. ReceivedOK'
    <3> SUFFICES ASSUME NEW d \in Event \ Manual PROVE Received(d)'
      BY DEF ReceivedOK
    <3>1. Woke(d)' = Woke(d)
      BY <2>1 DEF Woke
    <3>2. CASE d # e
      <4>1. Firing(d)' = Firing(d)
        BY <1>5, <2>1, <2>4, <3>2, FiringChanges DEF Same
      <4> QED
        BY <1>0, <2>1, <2>5, <3>1, <3>2, <4>1, ReceivedKept DEF ReceivedOK
    <3>3. CASE d = e
      <4>1. ~Fires(p, d) /\ ~Fires(stack[t], d) /\ Fires(n, d)
        BY <1>2, <1>5, <2>4, <2>6, <3>3 DEF Fires, Held, Holds, Same
      <4>2. Cardinality(Firing(d)') = Cardinality(Firing(d)) + 1
        BY <2>1, <4>1, FiringChanges
      <4>3. /\ Pending(d)' = Pending(d) /\ Cardinality(Woke(d)') = Cardinality(Woke(d))
            /\ taken'[d] = taken[d] /\ given'[d] = given[d] + 1
            /\ given[d] \in Nat /\ taken[d] \in Nat
        BY <2>1, <2>5, <3>1, <3>3, Typed DEF Pending
      <4>4. /\ given'[d] \in Nat /\ taken'[d] \in Nat
            /\ given'[d] + taken[d] + Pending(d) + Cardinality(Woke(d)) + Cardinality(Firing(d))
                 = given[d] + taken'[d] + Pending(d)' + Cardinality(Woke(d)') + Cardinality(Firing(d)')
        BY <4>2, <4>3, Counts
      <4> QED
        BY <4>4, Balance
    <3> QED
      BY <3>2, <3>3
  <2> QED
    BY <2>7, <2>8, <2>9, <2>10, <2>11 DEF EInv
<1> QED
  BY <1>6, <1>7

LEMMA EndSignalEvents ==
  ASSUME IInv, EInv, NEW t \in Thread, EndSignal(t), UNCHANGED <<loopVars, left>>
  PROVE  EInv'
<1> DEFINE p == Below(t)
           e == Top(t).ev
           woke == Top(t).woke
<1>0. LocksOK /\ FiredOK /\ WaitersOK /\ WatchersOK /\ PostedOK /\ ReceivedOK
  BY DEF EInv
<1>1. /\ In(t, "fire") /\ stack' = [stack EXCEPT ![t] = p] /\ tasks' = tasks
      /\ (waiters[e] = <<>> \/ (woke /\ e \notin Manual))
      /\ signaled' = [signaled EXCEPT ![e] = e \in Manual \/ ~woke]
      /\ lock' = [lock EXCEPT ![e] = Nobody]
      /\ UNCHANGED <<waiters, fired, given, taken, watchVars>>
  BY DEF EndSignal, Woken, Return, loopVars
<1>2. /\ e \in Event /\ woke \in BOOLEAN /\ ~Held(p, e) /\ ~Fires(p, e)
      /\ lock[e] = t /\ ~signaled[e] /\ Idle(stack[t])
  BY <1>1, SignalTop
<1>3. /\ Idle(p) /\ Top(t).op = "fire"
      /\ \A d : Held(p, d) => Held(stack[t], d)
      /\ \A d : HeldOnce(stack[t], d) => HeldOnce(p, d)
      /\ \A d : Finds(p, d) => Finds(stack[t], d)
      /\ \A d : Fires(stack[t], d) <=> Fires(p, d) \/ (e = d /\ ~woke)
      /\ \A h : Posts(p, h) => Posts(stack[t], h)
  BY <1>1, Opened
<1>4. signaled'[e] = (e \in Manual \/ ~woke)
  BY <1>1, <1>2, Typed
<1>5. /\ \A d \in Event : d # e => lock'[d] = lock[d] /\ signaled'[d] = signaled[d]
      /\ lock'[e] = Nobody
  BY <1>1, <1>2, Typed
<1> HIDE DEF p, e, woke
<1>6. \A d \in Event : /\ Held(p, d) => lock[d] = t /\ d # e
                       /\ HeldOnce(p, d)
                       /\ Finds(p, d) => ~signaled[d] /\ d # e
  <2>1. \A d : Finds(p, d) => Held(p, d)
    BY DEF Finds, Held
  <2> QED
    BY <1>0, <1>2, <1>3, <2>1 DEF LocksOK
<1>7. LocksOK'
  <2>1. \A d \in Event : /\ Held(p, d) => lock'[d] = t
                         /\ HeldOnce(p, d)
                         /\ Finds(p, d) => ~signaled'[d]
    BY <1>5, <1>6
  <2>2. \A d \in Event : lock[d] \notin {t, Nobody} =>
          lock'[d] = lock[d] /\ (signaled'[d] => signaled[d])
    BY <1>2, <1>5
  <2> QED
    BY <1>0, <1>1, <2>1, <2>2, LocksKept
<1>8. FiredOK'
  BY <1>1, <1>2, <1>3, FiredIdle
<1>9. WaitersOK'
  <2>1. UNCHANGED <<waiters, watched, kernel, set_flags>>
    BY <1>1 DEF watchVars
  <2>2. signaled'[e] => waiters[e] = <<>>
    BY <1>1, <1>4
  <2>3. \A d \in Event : signaled'[d] => signaled[d] \/ waiters[d] = <<>>
    BY <1>5, <2>2
  <2> QED
    BY <1>0, <1>1, <1>2, <2>1, <2>3, WaitersKept DEF Idle
<1>10. WatchersOK' /\ PostedOK'
  BY <1>1, <1>3, WatchesKept
<1>11. ReceivedOK'
  <2> SUFFICES ASSUME NEW d \in Event \ Manual PROVE Received(d)'
    BY DEF ReceivedOK
  <2>1. Woke(d)' = Woke(d)
    BY <1>1 DEF Woke
  <2>2. CASE d # e \/ woke
    <3>1. Firing(d)' = Firing(d)
      BY <1>1, <1>3, <2>2, FiringChanges
    <3>2. signaled'[d] = signaled[d]
      <4>1. CASE d = e
        <5>1. ~signaled[e] /\ ~signaled'[e]
          BY <1>2, <1>4, <2>2, <4>1
        <5>2. signaled[e] \in BOOLEAN /\ signaled'[e] \in BOOLEAN
          BY <1>2, <1>4, Typed
        <5> QED
          BY <4>1, <5>1, <5>2
      <4> QED
        BY <1>5, <4>1
    <3> QED
      BY <1>0, <1>1, <2>1, <3>1, <3>2, ReceivedKept DEF ReceivedOK
  <2>3. CASE d = e /\ ~woke
    <3>1. ~Fires(p, d) /\ Fires(stack[t], d)
      BY <1>2, <1>3, <2>3
    <3>2. Cardinality(Firing(d)') = Cardinality(Firing(d)) - 1
      BY <1>1, <3>1, FiringChanges
    <3>3. Pending(d)' = 1 /\ Pending(d) = 0
      BY <1>2, <1>4, <2>3 DEF Pending
    <3>4. /\ Cardinality(Woke(d)') = Cardinality(Woke(d))
          /\ taken'[d] = taken[d] /\ given'[d] = given[d]
          /\ given[d] \in Nat /\ taken[d] \in Nat
      BY <1>1, <2>1, Typed
    <3>5. /\ given'[d] \in Nat /\ taken'[d] \in Nat
          /\ given'[d] + taken[d] + Pending(d) + Cardinality(Woke(d)) + Cardinality(Firing(d))
               = given[d] + taken'[d] + Pending(d)' + Cardinality(Woke(d)') + Cardinality(Firing(d)')
      BY <3>2, <3>3, <3>4, Counts
    <3> QED
      BY <3>5, Balance
  <2> QED
    BY <2>2, <2>3
<1> QED
  BY <1>7, <1>8, <1>9, <1>10, <1>11 DEF EInv

\* An event that a thread waits for may fire it.
LEMMA MayFire ==
  ASSUME IInv, NEW u \in Thread, NEW e \in Event, WaitsFor(stack[u], e),
         FiredAt(stack[u], Waiting)
  PROVE  FiredAt(stack[u], e)
<1> DEFINE s == stack[u]
           f == s[Len(s)]
<1>1. s # <<>> /\ Awaits(f, e) /\ MayBeFiredBy(f, Waiting)
  BY DEF WaitsFor, FiredAt
<1>2. f \in Frame
  BY <1>1, Typed, TopIsFrame
<1> HIDE DEF f
<1>3. e # Disabled /\ Waiting # Disabled /\ Waiting \notin Event
  BY Typed
<1>4. CASE f.op = "wait"
  <2>1. f.ev = e /\ f.ev \in Event
    BY <1>1, <1>4 DEF Awaits
  <2>2. f.point \in {"asleep", "timed out", "woken"}
    BY <1>2, <1>4, FrameFields
  <2>3. f.point = "asleep"
    BY <1>1, <1>3, <1>4, <2>1, <2>2 DEF MayBeFiredBy
  <2>4. MayBeFiredBy(f, e)
    BY <1>4, <2>1, <2>3 DEF MayBeFiredBy
  <2> QED
    BY <1>1, <2>4 DEF FiredAt, f
<1>5. CASE f.op = "many"
  <2>1. f.point # "lock"
    BY <1>1, <1>5 DEF Awaits
  <2>2. MayBeFiredBy(f, e)
    BY <1>3, <1>5, <2>1 DEF MayBeFiredBy
  <2> QED
    BY <1>1, <2>2 DEF FiredAt, f
<1> QED
  BY <1>1, <1>4, <1>5 DEF Awaits

\* The waiter that is fired leaves the list, which has it once.
LEMMA FiredLeaves ==
  ASSUME IInv, EInv, NEW t \in Thread, FireWaiter(t), NEW x, x = Head(waiters[Top(t).ev])
  PROVE  /\ x \in Waiter /\ x \in ToSet(waiters[Top(t).ev]) /\ WaiterOK(Top(t).ev, x)
         /\ \A d \in Event : Distinct(waiters'[d]) /\ (signaled[d] => waiters'[d] = <<>>)
         /\ \A d \in Event : \A y \in ToSet(waiters'[d]) :
              y \in ToSet(waiters[d]) /\ (d = Top(t).ev => y # x)
<1> DEFINE e == Top(t).ev
<1>1. /\ In(t, "fire") /\ waiters[e] # <<>>
      /\ waiters' = [waiters EXCEPT ![e] = Tail(@)]
  BY DEF FireWaiter, Woken
<1>2. e \in Event /\ ~signaled[e]
  BY <1>1, SignalTop
<1>3. WaitersOK
  BY DEF EInv
<1> HIDE DEF e
<1>4. /\ waiters[e] \in Seq(Waiter) /\ Distinct(waiters[e])
      /\ waiters'[e] = Tail(waiters[e])
      /\ \A d \in Event : d # e => waiters'[d] = waiters[d]
  BY <1>1, <1>2, <1>3, Typed DEF WaitersOK
<1>5. x = Head(waiters[e])
  BY DEF e
<1>6. /\ x \in Waiter /\ x \in ToSet(waiters[e])
      /\ ToSet(Tail(waiters[e])) \subseteq ToSet(waiters[e])
      /\ Distinct(Tail(waiters[e])) /\ x \notin ToSet(Tail(waiters[e]))
  BY <1>1, <1>4, <1>5, ElementsOfTail
<1>7. WaiterOK(e, x)
  BY <1>2, <1>3, <1>6 DEF WaitersOK
<1>8. \A d \in Event : Distinct(waiters'[d]) /\ (signaled[d] => waiters'[d] = <<>>)
  BY <1>2, <1>3, <1>4, <1>6 DEF WaitersOK
<1>9. \A d \in Event : \A y \in ToSet(waiters'[d]) : y \in ToSet(waiters[d]) /\ (d = e => y # x)
  BY <1>4, <1>6
<1> QED
  BY <1>6, <1>7, <1>8, <1>9 DEF e

\* A Signal that has woken somebody: its frame.
LEMMA WokenFields ==
  ASSUME IInv, NEW t \in Thread, In(t, "fire")
  PROVE  LET g == [Top(t) EXCEPT !.woke = TRUE]
         IN  g \in Frame /\ g.op = "fire" /\ g.ev = Top(t).ev /\ g.woke
<1> DEFINE f == Top(t)
           g == [f EXCEPT !.woke = TRUE]
<1>1. f \in Frame /\ f.op = "fire"
  BY Opened
<1>2. f \in [op : {"fire"}, ev : Event, woke : BOOLEAN]
  BY <1>1, FrameFields
<1>3. g \in [op : {"fire"}, ev : Event, woke : BOOLEAN] /\ g.op = "fire" /\ g.ev = f.ev /\ g.woke
  BY <1>2
<1> QED
  BY <1>3 DEF Frame, CallFrame

LEMMA WokenFrame ==
  ASSUME IInv, EInv, NEW t \in Thread, In(t, "fire"),
         NEW g \in Frame, g.op = "fire", g.ev = Top(t).ev, g.woke
  PROVE  LET p == Below(t)
             m == Append(p, g)
             s == stack[t]
         IN  /\ p \in Seq(Frame) /\ m \in Seq(Frame) /\ Idle(m)
             /\ \A e : /\ Held(m, e) <=> Held(s, e)
                       /\ HeldOnce(m, e) <=> HeldOnce(s, e)
                       /\ Finds(m, e) <=> Finds(s, e)
                       /\ Fires(s, e) <=> Fires(m, e) \/ (e = Top(t).ev /\ ~Top(t).woke)
             /\ ~Fires(m, Top(t).ev)
             /\ \A h : Posts(m, h) <=> Posts(s, h)
<1> DEFINE p == Below(t)
           f == Top(t)
<1>1. p \in Seq(Frame) /\ f \in Frame /\ f.op = "fire"
  BY Opened
<1>3. g.op = "fire" /\ g.ev = f.ev /\ g.woke
  OBVIOUS
<1>5. \A e : Holds(g, e) <=> Holds(f, e)
  BY <1>1, <1>3 DEF Holds
<1>6. ~Fires(p, f.ev)
  BY SignalTop
<1>7. /\ \A e : Held(stack[t], e) <=> Held(p, e) \/ Holds(f, e)
      /\ \A e : HeldOnce(stack[t], e) <=> HeldOnce(p, e) /\ (Holds(f, e) => ~Held(p, e))
      /\ \A e : Finds(stack[t], e) <=> Finds(p, e) \/ (Holds(f, e) /\ f.op # "start")
      /\ \A e : Fires(stack[t], e) <=> Fires(p, e) \/ (f.op = "fire" /\ f.ev = e /\ ~f.woke)
      /\ \A h : Posts(stack[t], h) <=> Posts(p, h) \/ (f.op = "post" /\ f.task.flag = h)
  BY Opened
<1> HIDE DEF p, f
<1> DEFINE m == Append(p, g)
<1>8. /\ \A e : Held(m, e) <=> Held(p, e) \/ Holds(g, e)
      /\ \A e : HeldOnce(m, e) <=> HeldOnce(p, e) /\ (Holds(g, e) => ~Held(p, e))
      /\ \A e : Finds(m, e) <=> Finds(p, e) \/ (Holds(g, e) /\ g.op # "start")
      /\ \A e : Fires(m, e) <=> Fires(p, e) \/ (g.op = "fire" /\ g.ev = e /\ ~g.woke)
      /\ \A h : Posts(m, h) <=> Posts(p, h) \/ (g.op = "post" /\ g.task.flag = h)
      /\ m \in Seq(Frame)
  BY <1>1, OnTop
<1>9. Idle(m)
  BY <1>1, <1>3, IdleTop
<1> HIDE DEF m
<1>10. /\ \A e : Held(m, e) <=> Held(stack[t], e)
       /\ \A e : HeldOnce(m, e) <=> HeldOnce(stack[t], e)
       /\ \A e : Finds(m, e) <=> Finds(stack[t], e)
  BY <1>1, <1>3, <1>5, <1>7, <1>8
<1>11. \A e : Fires(stack[t], e) <=> Fires(m, e) \/ (e = f.ev /\ ~f.woke)
  BY <1>1, <1>3, <1>7, <1>8
<1>12. ~Fires(m, f.ev) /\ \A h : Posts(m, h) <=> Posts(stack[t], h)
  BY <1>1, <1>3, <1>6, <1>7, <1>8
<1> QED
  BY <1>1, <1>8, <1>9, <1>10, <1>11, <1>12 DEF m, p, f

\* SyncWaiter::Fire, of a thread that waits.
LEMMA FireSyncEvents ==
  ASSUME IInv, EInv, NEW t \in Thread, FireWaiter(t), UNCHANGED <<loopVars, left>>,
         NEW x, x = Head(waiters[Top(t).ev]), FireSync(t, x), fired[x.thread] = Waiting
  PROVE  EInv'
<1> DEFINE p == Below(t)
           e == Top(t).ev
           g == [Top(t) EXCEPT !.woke = TRUE]
           n == Append(p, g)
           u == x.thread
<1>0. LocksOK /\ FiredOK /\ WaitersOK /\ WatchersOK /\ PostedOK /\ ReceivedOK
  BY DEF EInv
<1>1. /\ In(t, "fire") /\ stack' = [stack EXCEPT ![t] = n] /\ tasks' = tasks
      /\ x.flag = 0 /\ fired' = [fired EXCEPT ![u] = e]
      /\ UNCHANGED <<lock, signaled, given, taken, watchVars>>
  BY DEF FireWaiter, FireSync, GoTo, loopVars
<1>2. Top(t).woke => e \in Manual
  BY DEF FireWaiter, Woken
<1>3. e \in Event /\ Top(t).woke \in BOOLEAN /\ Idle(stack[t])
  BY <1>1, SignalTop
<1>4. /\ x \in Waiter /\ x \in ToSet(waiters[e]) /\ WaiterOK(e, x)
      /\ \A d \in Event : Distinct(waiters'[d]) /\ (signaled[d] => waiters'[d] = <<>>)
      /\ \A d \in Event : \A y \in ToSet(waiters'[d]) :
           y \in ToSet(waiters[d]) /\ (d = e => y # x)
  BY FiredLeaves
<1>5. /\ Idle(n)
      /\ \A d : /\ Held(n, d) <=> Held(stack[t], d)
                /\ HeldOnce(n, d) <=> HeldOnce(stack[t], d)
                /\ Finds(n, d) <=> Finds(stack[t], d)
                /\ Fires(stack[t], d) <=> Fires(n, d) \/ (d = e /\ ~Top(t).woke)
      /\ ~Fires(n, e)
      /\ \A h : Posts(n, h) <=> Posts(stack[t], h)
  <2>1. g \in Frame /\ g.op = "fire" /\ g.ev = e /\ g.woke
    BY <1>1, WokenFields
  <2> HIDE DEF g
  <2> QED
    BY <1>1, <2>1, WokenFrame
<1> HIDE DEF n, p, g, e
<1>6. u \in Thread /\ WaitsFor(stack[u], e) /\ u # t
  BY <1>1, <1>3, <1>4 DEF WaiterOK, Idle
<1>7. /\ fired'[u] = e /\ \A v \in Thread : v # u => fired'[v] = fired[v]
      /\ stack'[t] = n /\ \A v \in Thread : v # t => stack'[v] = stack[v]
  BY <1>1, <1>6, Typed
<1>8. LocksOK'
  <2>1. \A d \in Event : /\ Held(n, d) => lock'[d] = t
                         /\ HeldOnce(n, d)
                         /\ Finds(n, d) => ~signaled'[d]
    BY <1>0, <1>1, <1>5 DEF LocksOK
  <2> QED
    BY <1>0, <1>1, <2>1, LocksKept
<1>9. FiredOK'
  <2>1. FiredAt(stack[u], fired[u]) /\ FiredAt(stack[t], fired[t])
    BY <1>0, <1>6 DEF FiredOK
  <2>2. FiredAt(stack[u], e)
    BY <1>3, <1>6, <2>1, MayFire
  <2>3. FiredAt(n, fired[t])
    BY <1>3, <1>5, <2>1 DEF Idle
  <2> QED
    BY <1>0, <1>6, <1>7, <2>2, <2>3 DEF FiredOK
<1>10. WaitersOK'
  <2> SUFFICES ASSUME NEW d \in Event, NEW y \in ToSet(waiters'[d])
               PROVE  WaiterOK(d, y)'
    BY <1>1, <1>4 DEF WaitersOK
  <2>1. y \in ToSet(waiters[d]) /\ (d = e => y # x)
    BY <1>4
  <2>2. WaiterOK(d, y)
    BY <1>0, <2>1 DEF WaitersOK
  <2>3. ASSUME y.flag = 0
        PROVE  y.thread # t /\ fired'[y.thread] # d
    <3>1. y.thread \in Thread /\ y.thread # t /\ fired[y.thread] # d
      BY <1>3, <2>2, <2>3 DEF WaiterOK, Idle
    <3>2. CASE d = e
      <4>1. y \in Waiter
        BY <2>1, ElementsAre, Typed
      <4>2. y.thread # u
        BY <1>1, <1>4, <2>1, <2>3, <3>2, <4>1 DEF Waiter
      <4> QED
        BY <1>7, <3>1, <4>2
    <3>3. CASE d # e
      BY <1>7, <3>1, <3>3
    <3> QED
      BY <3>1, <3>2, <3>3
  <2>4. UNCHANGED <<watched, kernel, set_flags>>
    BY <1>1 DEF watchVars
  <2> QED
    BY <1>0, <1>1, <2>1, <2>3, <2>4, WaiterKept
<1>11. WatchersOK' /\ PostedOK'
  BY <1>1, <1>4, <1>5, WatchesKept
<1>12. ReceivedOK'
  <2> SUFFICES ASSUME NEW d \in Event \ Manual PROVE Received(d)'
    BY DEF ReceivedOK
  <2>0. fired[u] # d
    BY Typed
  <2>1. CASE d # e
    <3>1. Firing(d)' = Firing(d)
      BY <1>1, <1>5, <2>1, FiringChanges
    <3>2. Woke(d)' = Woke(d)
      BY <1>1, <1>6, <2>0, <2>1, WokeChanges
    <3> QED
      BY <1>0, <1>1, <3>1, <3>2, ReceivedKept DEF ReceivedOK
  <2>2. CASE d = e
    <3>1. ~Fires(n, d) /\ Fires(stack[t], d)
      BY <1>2, <1>3, <1>5, <2>2 DEF e
    <3>2. Cardinality(Firing(d)') = Cardinality(Firing(d)) - 1
      BY <1>1, <3>1, FiringChanges
    <3>3. Cardinality(Woke(d)') = Cardinality(Woke(d)) + 1
      BY <1>1, <1>6, <2>0, <2>2, WokeChanges
    <3>4. /\ Pending(d)' = Pending(d)
          /\ taken'[d] = taken[d] /\ given'[d] = given[d]
          /\ given[d] \in Nat /\ taken[d] \in Nat
      BY <1>1, Typed DEF Pending
    <3>5. /\ given'[d] \in Nat /\ taken'[d] \in Nat
          /\ given'[d] + taken[d] + Pending(d) + Cardinality(Woke(d)) + Cardinality(Firing(d))
               = given[d] + taken'[d] + Pending(d)' + Cardinality(Woke(d)') + Cardinality(Firing(d)')
      BY <3>2, <3>3, <3>4, Counts
    <3> QED
      BY <3>5, Balance
  <2> QED
    BY <2>1, <2>2
<1> QED
  BY <1>8, <1>9, <1>10, <1>11, <1>12 DEF EInv

\* A SyncWaiter that was fired already is dropped.
LEMMA FireRefusedEvents ==
  ASSUME IInv, EInv, NEW t \in Thread, FireWaiter(t), UNCHANGED <<loopVars, left>>,
         NEW x, x = Head(waiters[Top(t).ev]), FireSync(t, x), fired[x.thread] # Waiting
  PROVE  EInv'
<1> DEFINE n == stack[t]
<1>0. LocksOK /\ FiredOK /\ WaitersOK /\ WatchersOK /\ PostedOK /\ ReceivedOK
  BY DEF EInv
<1>1. /\ In(t, "fire") /\ stack' = stack /\ tasks' = tasks
      /\ UNCHANGED <<fired, lock, signaled, given, taken, watchVars>>
  BY DEF FireWaiter, FireSync, loopVars
<1>2. stack' = [stack EXCEPT ![t] = n]
  BY <1>1, Typed
<1>3. Idle(n)
  BY <1>1, SignalTop
<1>4. /\ \A d \in Event : Distinct(waiters'[d]) /\ (signaled[d] => waiters'[d] = <<>>)
      /\ \A d \in Event : \A y \in ToSet(waiters'[d]) : y \in ToSet(waiters[d])
  BY FiredLeaves
<1> HIDE DEF n
<1>5. LocksOK'
  BY <1>0, <1>1 DEF LocksOK
<1>6. FiredOK'
  BY <1>0, <1>1 DEF FiredOK
<1>7. WaitersOK'
  <2> SUFFICES ASSUME NEW d \in Event, NEW y \in ToSet(waiters'[d])
               PROVE  WaiterOK(d, y)'
    BY <1>1, <1>4 DEF WaitersOK
  <2>1. y \in ToSet(waiters[d])
    BY <1>4
  <2>2. WaiterOK(d, y)
    BY <1>0, <2>1 DEF WaitersOK
  <2> QED
    BY <1>1, <2>2 DEF WaiterOK, watchVars
<1>8. WatchersOK' /\ PostedOK'
  <2>1. \A h : Posts(n, h) => Posts(stack[t], h)
    BY DEF n
  <2>2. \A d \in Event : \A y \in ToSet(waiters'[d]) : y.flag # 0 => y \in ToSet(waiters[d])
    BY <1>4
  <2> QED
    BY <1>1, <1>2, <2>1, <2>2, WatchesKept
<1>9. ReceivedOK'
  BY <1>0, <1>1 DEF ReceivedOK, Received, Pending, Woke, Firing
<1> QED
  BY <1>5, <1>6, <1>7, <1>8, <1>9 DEF EInv

\* AsyncWaiter::Fire: its Flag is not set, so that a task is posted.
LEMMA FireAsyncEvents ==
  ASSUME IInv, EInv, NEW t \in Thread, FireWaiter(t), UNCHANGED <<loopVars, left>>,
         NEW x, x = Head(waiters[Top(t).ev]), FireAsync(t, x)
  PROVE  EInv'
<1> DEFINE p == Below(t)
           e == Top(t).ev
           g == [Top(t) EXCEPT !.woke = TRUE]
           m == Append(p, g)
           h == x.flag
           k == Posting([nestable |-> TRUE, time |-> 0, flag |-> h])
           n == Append(m, k)
<1>0. LocksOK /\ FiredOK /\ WaitersOK /\ WatchersOK /\ PostedOK /\ ReceivedOK
  BY DEF EInv
<1>1. /\ In(t, "fire") /\ tasks' = tasks /\ h # 0 /\ taken' = [taken EXCEPT ![e] = @ + 1]
      /\ stack' = [stack EXCEPT ![t] = m \o IF h \in set_flags THEN <<>> ELSE <<k>>]
      /\ UNCHANGED <<fired, lock, signaled, given, watchVars>>
  BY DEF FireWaiter, FireAsync, Take, loopVars
<1>2. Top(t).woke => e \in Manual
  BY DEF FireWaiter, Woken
<1>3. e \in Event /\ Top(t).woke \in BOOLEAN /\ Idle(stack[t])
  BY <1>1, SignalTop
<1>4. /\ x \in Waiter /\ x \in ToSet(waiters[e]) /\ WaiterOK(e, x)
      /\ \A d \in Event : Distinct(waiters'[d]) /\ (signaled[d] => waiters'[d] = <<>>)
      /\ \A d \in Event : \A y \in ToSet(waiters'[d]) :
           y \in ToSet(waiters[d]) /\ (d = e => y # x)
  BY FiredLeaves
<1>5. h \in Nat /\ h \notin set_flags /\ x.thread = Nobody
  BY <1>1, <1>4 DEF WaiterOK, Waiter
<1>6. PICK w \in Watcher : watched[w] = h /\ kernel[w] = e
  BY <1>1, <1>4 DEF WaiterOK
<1>7. k \in Frame /\ k.op = "post" /\ k.task.flag = h
  <2>1. 0 \in 0 .. MaxTime
    BY LoopConstantsOK
  <2> DEFINE task == [nestable |-> TRUE, time |-> 0, flag |-> h]
  <2>2. task \in PostedTask /\ task.flag = h
    BY <1>5, <2>1 DEF PostedTask
  <2> HIDE DEF task
  <2>3. k = [op |-> "post", task |-> task]
    BY DEF Posting, task
  <2>4. k \in [op : {"post"}, task : PostedTask] /\ k.op = "post" /\ k.task = task
    BY <2>2, <2>3
  <2> QED
    BY <2>2, <2>4 DEF Frame, CallFrame
<1>8. /\ m \in Seq(Frame)
      /\ \A d : /\ Held(m, d) <=> Held(stack[t], d)
                /\ HeldOnce(m, d) <=> HeldOnce(stack[t], d)
                /\ Finds(m, d) <=> Finds(stack[t], d)
                /\ Fires(stack[t], d) <=> Fires(m, d) \/ (d = e /\ ~Top(t).woke)
      /\ ~Fires(m, e)
      /\ \A i : Posts(m, i) <=> Posts(stack[t], i)
  <2>1. g \in Frame /\ g.op = "fire" /\ g.ev = e /\ g.woke
    BY <1>1, WokenFields
  <2> HIDE DEF g
  <2> QED
    BY <1>1, <2>1, WokenFrame
<1> HIDE DEF m, p, g, k, h
<1>9. stack' = [stack EXCEPT ![t] = n]
  <2>1. m \o <<k>> = Append(m, k)
    BY <1>7, <1>8, PushIsConcat
  <2> QED
    BY <1>1, <1>5, <2>1
<1>10. \A d : ~Holds(k, d)
  BY <1>7 DEF Holds
<1>11. /\ \A d : Held(n, d) <=> Held(m, d) \/ Holds(k, d)
       /\ \A d : HeldOnce(n, d) <=> HeldOnce(m, d) /\ (Holds(k, d) => ~Held(m, d))
       /\ \A d : Finds(n, d) <=> Finds(m, d) \/ (Holds(k, d) /\ k.op # "start")
       /\ \A d : Fires(n, d) <=> Fires(m, d) \/ (k.op = "fire" /\ k.ev = d /\ ~k.woke)
       /\ \A i : Posts(n, i) <=> Posts(m, i) \/ (k.op = "post" /\ k.task.flag = i)
  BY <1>7, <1>8, OnTop
<1>12. Idle(n)
  BY <1>7, <1>8, IdleTop
<1> HIDE DEF n, e
<1>13. /\ \A d : /\ Held(n, d) <=> Held(stack[t], d)
                 /\ HeldOnce(n, d) <=> HeldOnce(stack[t], d)
                 /\ Finds(n, d) <=> Finds(stack[t], d)
                 /\ Fires(stack[t], d) <=> Fires(n, d) \/ (d = e /\ ~Top(t).woke)
       /\ ~Fires(n, e)
       /\ \A i : Posts(n, i) <=> Posts(stack[t], i) \/ i = h
  BY <1>7, <1>8, <1>10, <1>11
<1>14. stack'[t] = n /\ \A v \in Thread : v # t => stack'[v] = stack[v]
  BY <1>9, Typed
<1>15. LocksOK'
  <2>1. \A d \in Event : /\ Held(n, d) => lock'[d] = t
                         /\ HeldOnce(n, d)
                         /\ Finds(n, d) => ~signaled'[d]
    BY <1>0, <1>1, <1>13 DEF LocksOK
  <2> QED
    BY <1>0, <1>1, <1>9, <2>1, LocksKept
<1>16. FiredOK'
  BY <1>1, <1>3, <1>9, <1>12, FiredIdle
<1>17. UNCHANGED <<watched, kernel, set_flags, starts, cancel_flag>>
  BY <1>1 DEF watchVars
<1>18. WaitersOK'
  <2> SUFFICES ASSUME NEW d \in Event, NEW y \in ToSet(waiters'[d])
               PROVE  WaiterOK(d, y)'
    BY <1>1, <1>4 DEF WaitersOK
  <2>1. y \in ToSet(waiters[d])
    BY <1>4
  <2>2. WaiterOK(d, y)
    BY <1>0, <2>1 DEF WaitersOK
  <2>3. y.flag = 0 => y.thread # t /\ fired'[y.thread] # d
    BY <1>1, <1>3, <2>2 DEF WaiterOK, Idle
  <2> QED
    BY <1>0, <1>9, <1>17, <2>1, <2>3, WaiterKept
<1>19. WatchersOK'
  BY <1>0, <1>17 DEF WatchersOK
<1>20. PostedOK'
  <2>1. ASSUME NEW i, Posted(i)'
        PROVE  Posted(i) \/ i = h
    <3>1. CASE \E j \in Number' : tasks'[j].flag = i
      BY <1>1, <3>1 DEF Posted, Number
    <3>2. ASSUME NEW v \in Thread, Posts(stack'[v], i)
          PROVE  Posted(i) \/ i = h
      <4>1. CASE v = t
        BY <1>13, <1>14, <3>2, <4>1 DEF Posted
      <4>2. CASE v # t
        BY <1>14, <3>2, <4>2 DEF Posted
      <4> QED
        BY <4>1, <4>2
    <3> QED
      BY <2>1, <3>1, <3>2 DEF Posted
  <2>2. \A i \in 1 .. starts : Posted(i)' /\ i \notin set_flags => \E v \in Watcher : watched[v] = i
    BY <1>0, <1>6, <2>1 DEF PostedOK
  <2>3. ASSUME NEW d \in Event, NEW y \in ToSet(waiters'[d]), y.flag # 0
        PROVE  ~Posted(y.flag)'
    <3>1. y \in ToSet(waiters[d]) /\ (d = e => y # x)
      BY <1>4, <2>3
    <3>2. ~Posted(y.flag) /\ WaiterOK(d, y)
      BY <1>0, <2>3, <3>1 DEF PostedOK, WaitersOK
    <3>3. ASSUME y.flag = h
          PROVE  FALSE
      <4>1. PICK v \in Watcher : watched[v] = h /\ kernel[v] = d
        BY <2>3, <3>2, <3>3 DEF WaiterOK
      <4>2. v = w
        BY <1>0, <1>1, <1>6, <4>1 DEF WatchersOK
      <4>3. d = e
        BY <1>6, <4>1, <4>2
      <4>4. y.thread = Nobody /\ y \in Waiter
        BY <2>3, <3>1, <3>2, ElementsAre, Typed DEF WaiterOK
      <4>5. y = x
        BY <1>4, <1>5, <3>3, <4>4 DEF Waiter, h
      <4> QED
        BY <3>1, <4>3, <4>5
    <3> QED
      BY <2>1, <3>2, <3>3
  <2> QED
    BY <1>17, <2>2, <2>3 DEF PostedOK
<1>21. ReceivedOK'
  <2> SUFFICES ASSUME NEW d \in Event \ Manual PROVE Received(d)'
    BY DEF ReceivedOK
  <2>1. Woke(d)' = Woke(d)
    BY <1>1 DEF Woke
  <2>2. CASE d # e
    <3>1. Firing(d)' = Firing(d)
      BY <1>9, <1>13, <2>2, FiringChanges
    <3>2. taken'[d] = taken[d]
      BY <1>1, <2>2, Typed
    <3> QED
      BY <1>0, <1>1, <2>1, <3>1, <3>2, ReceivedKept DEF ReceivedOK
  <2>3. CASE d = e
    <3>1. ~Fires(n, d) /\ Fires(stack[t], d)
      BY <1>2, <1>3, <1>13, <2>3
    <3>2. Cardinality(Firing(d)') = Cardinality(Firing(d)) - 1
      BY <1>9, <3>1, FiringChanges
    <3>3. /\ Pending(d)' = Pending(d)
          /\ taken'[d] = taken[d] + 1 /\ given'[d] = given[d]
          /\ given[d] \in Nat /\ taken[d] \in Nat
      BY <1>1, <2>3, Typed DEF Pending
    <3>4. /\ given'[d] \in Nat /\ taken'[d] \in Nat
          /\ given'[d] + taken[d] + Pending(d) + Cardinality(Woke(d)) + Cardinality(Firing(d))
               = given[d] + taken'[d] + Pending(d)' + Cardinality(Woke(d)') + Cardinality(Firing(d)')
      BY <2>1, <3>2, <3>3, Counts
    <3> QED
      BY <3>4, Balance
  <2> QED
    BY <2>2, <2>3
<1> QED
  BY <1>15, <1>16, <1>18, <1>19, <1>20, <1>21 DEF EInv

LEMMA FireWaiterEvents ==
  ASSUME IInv, EInv, NEW t \in Thread, FireWaiter(t), UNCHANGED <<loopVars, left>>
  PROVE  EInv'
<1> DEFINE x == Head(waiters[Top(t).ev])
<1>1. FireSync(t, x) \/ FireAsync(t, x)
  BY DEF FireWaiter
<1>2. \E y : y = x
  OBVIOUS
<1>3. PICK y : y = x
  BY <1>2
<1>4. FireSync(t, y) \/ FireAsync(t, y)
  BY <1>1, <1>3
<1> HIDE DEF x
<1> QED
  BY <1>3, <1>4, FireSyncEvents, FireRefusedEvents, FireAsyncEvents DEF x

----------------------------------------------------------------------------
(* The steps of calls: waits.                                              *)

\* A thread takes the signal of what fired it.
LEMMA WokenTakes ==
  ASSUME IInv, EInv, NEW d \in Event \ Manual, given'[d] = given[d], taken'[d] = taken[d] + 1,
         Pending(d)' = Pending(d), Firing(d)' = Firing(d),
         Cardinality(Woke(d)') = Cardinality(Woke(d)) - 1
  PROVE  Received(d)'
<1>1. given[d] \in Nat /\ taken[d] \in Nat
  BY Typed
<1>2. /\ given'[d] \in Nat /\ taken'[d] \in Nat
      /\ given'[d] + taken[d] + Pending(d) + Cardinality(Woke(d)) + Cardinality(Firing(d))
           = given[d] + taken'[d] + Pending(d)' + Cardinality(Woke(d)') + Cardinality(Firing(d)')
  BY <1>1, Counts
<1> QED
  BY <1>2, Balance

\* Waiters may have left lists; the thread is in those of events that it waits for.
StayListed(t, n, ev) ==
  \A d \in Event :
    /\ Distinct(waiters'[d]) /\ (signaled[d] => waiters'[d] = <<>>)
    /\ \A y \in ToSet(waiters'[d]) :
         /\ y \in ToSet(waiters[d])
         /\ y.flag = 0 /\ y.thread = t => WaitsFor(n, d) /\ ev # d

\* The thread is no longer fired, by what it took the signal of.
TakesIfWoken(t, ev) ==
  \/ taken' = taken /\ (ev = fired[t] \/ (ev \notin Event /\ fired[t] \notin Event))
  \/ /\ ev \notin Event /\ fired[t] \in Event
     /\ taken' = [taken EXCEPT ![fired[t]] = @ + 1]

\* A thread that waits goes on: it may leave lists, and take the signal of what
\* fired it.
LEMMA WaitGoesOn ==
  ASSUME IInv, EInv, NEW t \in Thread, NEW n, stack' = [stack EXCEPT ![t] = n],
         Same(stack[t], n), UNCHANGED <<lock, signaled, given, watchVars, tasks>>,
         NEW ev, fired' = [fired EXCEPT ![t] = ev], FiredAt(n, ev),
         StayListed(t, n, ev), TakesIfWoken(t, ev)
  PROVE  EInv'
<1>a. /\ \A d \in Event : /\ Distinct(waiters'[d]) /\ (signaled[d] => waiters'[d] = <<>>)
                            /\ \A y \in ToSet(waiters'[d]) : y \in ToSet(waiters[d])
      /\ \A d \in Event : \A y \in ToSet(waiters'[d]) :
           y.flag = 0 /\ y.thread = t => WaitsFor(n, d) /\ ev # d
  BY DEF StayListed
<1>b. \/ taken' = taken /\ (ev = fired[t] \/ (ev \notin Event /\ fired[t] \notin Event))
      \/ /\ ev \notin Event /\ fired[t] \in Event
         /\ taken' = [taken EXCEPT ![fired[t]] = @ + 1]
  BY DEF TakesIfWoken
<1>0. LocksOK /\ FiredOK /\ WaitersOK /\ WatchersOK /\ PostedOK /\ ReceivedOK
  BY DEF EInv
<1>1. UNCHANGED <<watched, kernel, set_flags, starts, cancel_flag, tasks>>
  BY DEF watchVars
<1>2. fired'[t] = ev /\ \A v \in Thread : v # t => fired'[v] = fired[v]
  BY Typed
<1>3. LocksOK'
  <2>1. \A d \in Event : /\ Held(n, d) => lock'[d] = t
                         /\ HeldOnce(n, d)
                         /\ Finds(n, d) => ~signaled'[d]
    BY <1>0 DEF LocksOK, Same
  <2> QED
    BY <1>0, <2>1, LocksKept
<1>4. FiredOK'
  BY <1>0, <1>2, FiredKept
<1>5. WaitersOK'
  <2> SUFFICES ASSUME NEW d \in Event, NEW y \in ToSet(waiters'[d])
               PROVE  WaiterOK(d, y)'
    BY <1>a DEF WaitersOK
  <2>1. y \in ToSet(waiters[d])
    BY <1>a
  <2>2. WaiterOK(d, y)
    BY <1>0, <2>1 DEF WaitersOK
  <2>3. ASSUME y.flag = 0
        PROVE  (y.thread = t => WaitsFor(n, d)) /\ fired'[y.thread] # d
    <3>1. y.thread \in Thread /\ fired[y.thread] # d
      BY <2>2, <2>3 DEF WaiterOK
    <3>2. y.thread = t => WaitsFor(n, d) /\ ev # d
      BY <1>a, <2>3
    <3> QED
      BY <1>2, <3>1, <3>2
  <2>4. y.flag = 0 => (y.thread = t => WaitsFor(n, d)) /\ fired'[y.thread] # d
    BY <2>3
  <2>5. stack'[t] = n /\ \A v \in Thread : v # t => stack'[v] = stack[v]
    BY Typed
  <2> QED
    BY <1>1, <2>2, <2>4, <2>5 DEF WaiterOK
<1>6. WatchersOK'
  BY <1>0, <1>1 DEF WatchersOK
<1>7. PostedOK'
  <2>1. \A g \in 1 .. starts : Posts(n, g) => Posted(g)
    BY DEF Same, Posted
  <2>2. \A g \in 1 .. starts : (\E i \in Number' : tasks'[i].flag = g) => Posted(g)
    BY <1>1 DEF Posted, Number
  <2>3. \A e \in Event : \A x \in ToSet(waiters'[e]) : x.flag # 0 => x \in ToSet(waiters[e])
    BY <1>a
  <2> QED
    BY <1>0, <1>1, <2>1, <2>2, <2>3, PostedKept
<1>8. ReceivedOK'
  <2> SUFFICES ASSUME NEW d \in Event \ Manual PROVE Received(d)'
    BY DEF ReceivedOK
  <2>1. Firing(d)' = Firing(d)
    BY FiringChanges DEF Same
  <2>2. CASE taken'[d] = taken[d] /\ (ev = d <=> fired[t] = d)
    <3>1. Woke(d)' = Woke(d)
      BY <2>2, WokeChanges
    <3> QED
      BY <1>0, <2>1, <2>2, <3>1, ReceivedKept DEF ReceivedOK
  <2>3. CASE taken'[d] = taken[d] + 1 /\ ev # d /\ fired[t] = d
    <3>1. Cardinality(Woke(d)') = Cardinality(Woke(d)) - 1
      BY <2>3, WokeChanges
    <3>2. Pending(d)' = Pending(d) /\ given'[d] = given[d] /\ taken'[d] = taken[d] + 1
      BY <2>3 DEF Pending
    <3> QED
      BY <2>1, <3>1, <3>2, WokenTakes
  <2> QED
    <3>1. CASE taken' = taken /\ (ev = fired[t] \/ (ev \notin Event /\ fired[t] \notin Event))
      BY <2>2, <3>1
    <3>2. CASE /\ ev \notin Event /\ fired[t] \in Event
               /\ taken' = [taken EXCEPT ![fired[t]] = @ + 1]
      <4>1. CASE fired[t] = d
        <5>1. taken'[d] = taken[d] + 1
          BY <3>2, <4>1, Typed
        <5> QED
          BY <2>3, <3>2, <4>1, <5>1
      <4>2. CASE fired[t] # d
        <5>1. taken'[d] = taken[d]
          BY <3>2, <4>2, Typed
        <5> QED
          BY <2>2, <3>2, <4>2, <5>1
      <4> QED
        BY <4>1, <4>2
    <3> QED
      BY <1>b, <3>1, <3>2
<1> QED
  BY <1>3, <1>4, <1>5, <1>6, <1>7, <1>8 DEF EInv

\* What is in the lists, if nothing leaves them or a thread leaves one.
LEMMA ListsKept ==
  ASSUME IInv, EInv, NEW e, NEW x,
         waiters' = waiters \/ (e \in Event /\ waiters' = [waiters EXCEPT ![e] = Without(@, x)])
  PROVE  /\ \A d \in Event : /\ Distinct(waiters'[d]) /\ (signaled[d] => waiters'[d] = <<>>)
                             /\ \A y \in ToSet(waiters'[d]) : y \in ToSet(waiters[d])
         /\ waiters' # waiters => \A y \in ToSet(waiters'[e]) : y # x
<1>1. WaitersOK
  BY DEF EInv
<1>2. CASE waiters' = waiters
  BY <1>1, <1>2 DEF WaitersOK
<1>3. CASE e \in Event /\ waiters' = [waiters EXCEPT ![e] = Without(@, x)]
  <2>1. /\ waiters'[e] = Without(waiters[e], x) /\ waiters[e] \in Seq(Waiter)
        /\ \A d \in Event : d # e => waiters'[d] = waiters[d]
    BY <1>3, Typed
  <2>2. Distinct(waiters[e]) /\ (signaled[e] => waiters[e] = <<>>)
    BY <1>1, <1>3 DEF WaitersOK
  <2>3. Distinct(waiters'[e]) /\ ToSet(waiters'[e]) = ToSet(waiters[e]) \ {x}
    BY <2>1, <2>2, ElementsWithout
  <2>4. Without(<<>>, x) = <<>>
    BY DEF Without
  <2> QED
    BY <1>1, <1>3, <2>1, <2>2, <2>3, <2>4 DEF WaitersOK
<1> QED
  BY <1>2, <1>3

\* The frame of a call that waits is replaced by another, or removed.
LEMMA WaitingFrame ==
  ASSUME IInv, EInv, NEW t \in Thread, NEW op \in {"wait", "many"}, In(t, op),
         op = "many" => Top(t).point # "lock",
         NEW g \in Frame, g.op = op, op = "many" => g.point # "lock"
  PROVE  LET p == Below(t)
             n == Append(p, g)
         IN  /\ Idle(p) /\ FiredAt(p, Disabled)
             /\ Same(stack[t], p) /\ Same(stack[t], n)
             /\ MayBeFiredBy(Top(t), fired[t])
             /\ \A ev : FiredAt(n, ev) <=> MayBeFiredBy(g, ev)
             /\ \A d : WaitsFor(stack[t], d) <=> Awaits(Top(t), d)
             /\ \A d : WaitsFor(n, d) <=> Awaits(g, d)
<1> DEFINE p == Below(t)
           f == Top(t)
           n == Append(p, g)
<1>1. /\ p \in Seq(Frame) /\ f \in Frame /\ f.op = op /\ stack[t] = Append(p, f) /\ Idle(p)
      /\ \A ev : FiredAt(stack[t], ev) <=> MayBeFiredBy(f, ev)
      /\ \A d : WaitsFor(stack[t], d) <=> Awaits(f, d)
  BY Opened
<1> HIDE DEF p, f
<1>2. Plain(f) /\ Plain(g)
  BY <1>1, PlainFrames DEF f
<1>3. Same(Append(p, f), p)
  BY <1>1, <1>2, SamePush
<1>4. Same(p, n)
  BY <1>1, <1>2, SamePush
<1>5. /\ \A ev : FiredAt(n, ev) <=> MayBeFiredBy(g, ev)
      /\ \A d : WaitsFor(n, d) <=> Awaits(g, d)
  BY <1>1, OnTop
<1> HIDE DEF n
<1>6. Same(stack[t], p) /\ Same(stack[t], n)
  BY <1>1, <1>3, <1>4, SameTransitive
<1>7. MayBeFiredBy(f, fired[t])
  BY <1>1 DEF EInv, FiredOK
<1>8. FiredAt(p, Disabled)
  BY <1>1 DEF Idle
<1> QED
  BY <1>1, <1>5, <1>6, <1>7, <1>8 DEF n, p, f

\* A thread's SyncWaiter.
LEMMA SyncWaiterIs ==
  ASSUME IInv, NEW t \in Thread, NEW d \in Event, NEW y \in ToSet(waiters[d]),
         y.flag = 0, y.thread = t
  PROVE  y = SyncWaiter(t)
<1>1. y \in Waiter
  BY ElementsAre, Typed
<1> QED
  BY <1>1 DEF SyncWaiter, Waiter

\* Of a thread that waits: it waits for whatever has it in its list.
LEMMA WaitsForLists ==
  ASSUME IInv, EInv, NEW t \in Thread, NEW d \in Event, NEW y \in ToSet(waiters[d]),
         y.flag = 0, y.thread = t
  PROVE  WaitsFor(stack[t], d) /\ fired[t] # d
  BY DEF EInv, WaitersOK, WaiterOK

LEMMA WakeEvents ==
  ASSUME IInv, EInv, NEW t \in Thread, Wake(t), UNCHANGED <<loopVars, left>>
  PROVE  EInv'
<1> DEFINE f == Top(t)
           point == IF fired[t] = Waiting THEN "timed out" ELSE "woken"
           g == [f EXCEPT !.point = point]
           n == Append(Below(t), g)
           ev == IF fired[t] = Waiting THEN Disabled ELSE fired[t]
<1>1. /\ In(t, "wait") /\ stack' = [stack EXCEPT ![t] = n] /\ f.point = "asleep"
      /\ fired' = [fired EXCEPT ![t] = ev]
      /\ UNCHANGED <<lock, signaled, waiters, given, taken, watchVars, tasks>>
  BY DEF Wake, GoTo, loopVars
<1>2. f \in Frame /\ f.op = "wait"
  BY <1>1, Opened
<1>3. f \in [op : {"wait"}, ev : Event, until : Nat, point : {"asleep", "timed out", "woken"}]
  BY <1>2, FrameFields
<1>4. g \in Frame /\ g.op = "wait" /\ g.ev = f.ev /\ g.point = point
  <2>1. /\ g \in [op : {"wait"}, ev : Event, until : Nat, point : {"asleep", "timed out", "woken"}]
        /\ g.op = "wait" /\ g.ev = f.ev /\ g.point = point
    BY <1>3
  <2> QED
    BY <2>1 DEF Frame, CallFrame
<1> HIDE DEF g
<1>5. /\ Same(stack[t], n) /\ MayBeFiredBy(f, fired[t])
      /\ \A v : FiredAt(n, v) <=> MayBeFiredBy(g, v)
      /\ \A d : WaitsFor(stack[t], d) <=> Awaits(f, d)
      /\ \A d : WaitsFor(n, d) <=> Awaits(g, d)
  BY <1>1, <1>4, WaitingFrame
<1> HIDE DEF n, f
<1>6. fired[t] \in {Waiting, f.ev}
  BY <1>1, <1>2, <1>5 DEF MayBeFiredBy
<1>7. MayBeFiredBy(g, ev)
  BY <1>4, <1>6 DEF MayBeFiredBy
<1>8. FiredAt(n, ev)
  BY <1>5, <1>7
<1>9. \A d \in Event : /\ Distinct(waiters'[d]) /\ (signaled[d] => waiters'[d] = <<>>)
                       /\ \A y \in ToSet(waiters'[d]) : y \in ToSet(waiters[d])
  BY <1>1, ListsKept
<1>10. ASSUME NEW d \in Event, NEW y \in ToSet(waiters'[d]), y.flag = 0, y.thread = t
       PROVE  WaitsFor(n, d) /\ ev # d
  <2>1. y \in ToSet(waiters[d])
    BY <1>1
  <2>2. WaitsFor(stack[t], d) /\ fired[t] # d
    BY <1>10, <2>1, WaitsForLists
  <2>3. Awaits(g, d)
    BY <1>2, <1>4, <1>5, <2>2 DEF Awaits
  <2>4. ev # d
    BY <2>2, Typed
  <2> QED
    BY <1>5, <2>3, <2>4
<1>11. ev = fired[t] \/ (ev \notin Event /\ fired[t] \notin Event)
  BY Typed
<1>12. UNCHANGED <<lock, signaled, given, watchVars, tasks>>
  BY <1>1
<1>13. StayListed(t, n, ev)
  BY <1>9, <1>10 DEF StayListed
<1>14. TakesIfWoken(t, ev)
  BY <1>1, <1>11 DEF TakesIfWoken
<1> HIDE DEF ev
<1> QED
  BY <1>1, <1>5, <1>8, <1>12, <1>13, <1>14, WaitGoesOn

LEMMA EndWaitEvents ==
  ASSUME IInv, EInv, NEW t \in Thread, EndWait(t), UNCHANGED <<loopVars, left>>
  PROVE  EInv'
<1> DEFINE f == Top(t)
           e == f.ev
           p == Below(t)
<1>1. /\ In(t, "wait") /\ stack' = [stack EXCEPT ![t] = p] /\ f.point # "asleep"
      /\ waiters' = [waiters EXCEPT ![e] = Without(@, SyncWaiter(t))]
      /\ fired' = [fired EXCEPT ![t] = Disabled]
      /\ IF f.point = "woken" THEN taken' = [taken EXCEPT ![e] = @ + 1] ELSE taken' = taken
      /\ UNCHANGED <<lock, signaled, given, watchVars, tasks>>
  BY DEF EndWait, Return, loopVars, Take
<1>2. f \in Frame /\ f.op = "wait"
  BY <1>1, Opened
<1>3. /\ Same(stack[t], p) /\ MayBeFiredBy(f, fired[t]) /\ FiredAt(p, Disabled)
      /\ \A d : WaitsFor(stack[t], d) <=> Awaits(f, d)
  BY <1>1, <1>2, WaitingFrame
<1>4. f.point \in {"timed out", "woken"} /\ e \in Event
  BY <1>1, <1>2, FrameFields
<1> HIDE DEF f, e, p
<1>5. /\ \A d \in Event : /\ Distinct(waiters'[d]) /\ (signaled[d] => waiters'[d] = <<>>)
                          /\ \A y \in ToSet(waiters'[d]) : y \in ToSet(waiters[d])
      /\ waiters' # waiters => \A y \in ToSet(waiters'[e]) : y # SyncWaiter(t)
  BY <1>1, <1>4, ListsKept
<1>6. ASSUME NEW d \in Event, NEW y \in ToSet(waiters'[d]), y.flag = 0, y.thread = t
      PROVE  FALSE
  <2>1. y \in ToSet(waiters[d])
    BY <1>5
  <2>2. y = SyncWaiter(t)
    BY <1>6, <2>1, SyncWaiterIs
  <2>3. WaitsFor(stack[t], d)
    BY <1>6, <2>1, WaitsForLists
  <2>4. d = e
    BY <1>2, <1>3, <2>3 DEF Awaits, e
  <2>5. waiters' = waiters
    BY <1>5, <2>2, <2>4
  <2>6. waiters'[e] = Without(waiters[e], SyncWaiter(t)) /\ Distinct(waiters[e])
        /\ waiters[e] \in Seq(Waiter)
    BY <1>1, <1>4, Typed DEF EInv, WaitersOK
  <2>7. ToSet(waiters'[e]) = ToSet(waiters[e]) \ {SyncWaiter(t)}
    BY <2>6, ElementsWithout
  <2> QED
    BY <2>1, <2>2, <2>4, <2>5, <2>7
<1>7. Disabled \notin Event /\ (f.point = "timed out" => fired[t] = Disabled)
      /\ (f.point = "woken" => fired[t] = e)
  BY <1>2, <1>3, Typed DEF MayBeFiredBy, e
<1>8. \/ taken' = taken /\ (Disabled = fired[t] \/ (Disabled \notin Event /\ fired[t] \notin Event))
      \/ /\ Disabled \notin Event /\ fired[t] \in Event
         /\ taken' = [taken EXCEPT ![fired[t]] = @ + 1]
  BY <1>1, <1>4, <1>7
<1>9. UNCHANGED <<lock, signaled, given, watchVars, tasks>>
  BY <1>1
<1>10. StayListed(t, p, Disabled)
  BY <1>5, <1>6 DEF StayListed
<1>11. TakesIfWoken(t, Disabled)
  BY <1>8 DEF TakesIfWoken
<1> QED
  BY <1>1, <1>3, <1>9, <1>10, <1>11, WaitGoesOn

LEMMA WakeManyEvents ==
  ASSUME IInv, EInv, NEW t \in Thread, WakeMany(t), UNCHANGED <<loopVars, left>>
  PROVE  EInv'
<1> DEFINE f == Top(t)
           g == [f EXCEPT !.point = "leave"]
           n == Append(Below(t), g)
<1>1. /\ In(t, "many") /\ stack' = [stack EXCEPT ![t] = n] /\ f.point = "asleep"
      /\ fired[t] # Waiting
      /\ UNCHANGED <<lock, signaled, waiters, fired, given, taken, watchVars, tasks>>
  BY DEF WakeMany, GoTo, loopVars, eventVars
<1>2. f \in Frame /\ f.op = "many"
  BY <1>1, Opened
<1>3. f \in [op : {"many"}, todo : Seq(Event), held : Seq(Event), point : {"lock", "asleep", "leave"}]
  BY <1>2, FrameFields
<1>4. g \in Frame /\ g.op = "many" /\ g.held = f.held /\ g.point = "leave"
  <2>1. /\ g \in [op : {"many"}, todo : Seq(Event), held : Seq(Event),
                  point : {"lock", "asleep", "leave"}]
        /\ g.op = "many" /\ g.held = f.held /\ g.point = "leave"
    BY <1>3
  <2> QED
    BY <2>1 DEF Frame, CallFrame
<1> HIDE DEF g
<1>5. /\ Same(stack[t], n) /\ MayBeFiredBy(f, fired[t])
      /\ \A v : FiredAt(n, v) <=> MayBeFiredBy(g, v)
      /\ \A d : WaitsFor(stack[t], d) <=> Awaits(f, d)
      /\ \A d : WaitsFor(n, d) <=> Awaits(g, d)
  BY <1>1, <1>4, WaitingFrame
<1> HIDE DEF n, f
<1>6. fired[t] # Disabled
  BY <1>1, <1>2, <1>5 DEF MayBeFiredBy
<1>7. fired[t] \in Event
  BY <1>1, <1>6, Typed
<1>8. MayBeFiredBy(g, fired[t])
  BY <1>4, <1>7 DEF MayBeFiredBy
<1>9. FiredAt(n, fired[t])
  BY <1>5, <1>8
<1>10. \A d \in Event : /\ Distinct(waiters'[d]) /\ (signaled[d] => waiters'[d] = <<>>)
                        /\ \A y \in ToSet(waiters'[d]) : y \in ToSet(waiters[d])
  BY <1>1, ListsKept
<1>11. ASSUME NEW d \in Event, NEW y \in ToSet(waiters'[d]), y.flag = 0, y.thread = t
       PROVE  WaitsFor(n, d) /\ fired[t] # d
  <2>1. y \in ToSet(waiters[d])
    BY <1>1
  <2>2. WaitsFor(stack[t], d) /\ fired[t] # d
    BY <1>11, <2>1, WaitsForLists
  <2>3. Awaits(g, d)
    BY <1>2, <1>4, <1>5, <2>2 DEF Awaits
  <2> QED
    BY <1>5, <2>2, <2>3
<1>12. fired' = [fired EXCEPT ![t] = fired[t]]
  BY <1>1, Typed
<1>13. UNCHANGED <<lock, signaled, given, watchVars, tasks>>
  BY <1>1
<1>14. StayListed(t, n, fired[t])
  BY <1>10, <1>11 DEF StayListed
<1>15. TakesIfWoken(t, fired[t])
  BY <1>1 DEF TakesIfWoken
<1> QED
  BY <1>1, <1>5, <1>9, <1>12, <1>13, <1>14, <1>15, WaitGoesOn

\* A thread leaves the list of an event that did not fire it; the one that did has
\* removed it.
LEMMA LeaveNextEvents ==
  ASSUME IInv, EInv, NEW t \in Thread, LeaveNext(t), UNCHANGED <<loopVars, left>>
  PROVE  EInv'
<1> DEFINE f == Top(t)
           e == Head(f.held)
           g == [f EXCEPT !.held = Tail(@)]
           n == Append(Below(t), g)
<1>1. /\ In(t, "many") /\ stack' = [stack EXCEPT ![t] = n] /\ f.point = "leave"
      /\ f.held # <<>>
      /\ IF e = fired[t] THEN waiters' = waiters
         ELSE waiters' = [waiters EXCEPT ![e] = Without(@, SyncWaiter(t))]
      /\ UNCHANGED <<lock, signaled, fired, given, taken, watchVars, tasks>>
  BY DEF LeaveNext, GoTo, loopVars
<1>2. f \in Frame /\ f.op = "many"
  BY <1>1, Opened
<1>3. f \in [op : {"many"}, todo : Seq(Event), held : Seq(Event), point : {"lock", "asleep", "leave"}]
  BY <1>2, FrameFields
<1>4. /\ e \in Event /\ Tail(f.held) \in Seq(Event)
      /\ ToSet(f.held) \subseteq ToSet(Tail(f.held)) \cup {e}
  BY <1>1, <1>3, ElementsOfTail
<1>5. g \in Frame /\ g.op = "many" /\ g.held = Tail(f.held) /\ g.point = "leave"
  <2>1. /\ g \in [op : {"many"}, todo : Seq(Event), held : Seq(Event),
                  point : {"lock", "asleep", "leave"}]
        /\ g.op = "many" /\ g.held = Tail(f.held) /\ g.point = "leave"
    BY <1>1, <1>3, <1>4
  <2> QED
    BY <2>1 DEF Frame, CallFrame
<1> HIDE DEF g
<1>6. /\ Same(stack[t], n) /\ MayBeFiredBy(f, fired[t])
      /\ \A v : FiredAt(n, v) <=> MayBeFiredBy(g, v)
      /\ \A d : WaitsFor(stack[t], d) <=> Awaits(f, d)
      /\ \A d : WaitsFor(n, d) <=> Awaits(g, d)
  BY <1>1, <1>5, WaitingFrame
<1> HIDE DEF n, f, e
<1>7. fired[t] \in Event
  BY <1>1, <1>2, <1>6 DEF MayBeFiredBy
<1>8. MayBeFiredBy(g, fired[t])
  BY <1>5, <1>7 DEF MayBeFiredBy
<1>9. FiredAt(n, fired[t])
  BY <1>6, <1>8
<1>10. \A d \in Event : /\ Distinct(waiters'[d]) /\ (signaled[d] => waiters'[d] = <<>>)
                        /\ \A y \in ToSet(waiters'[d]) : y \in ToSet(waiters[d])
  <2>1. waiters' = waiters \/ (e \in Event /\ waiters' = [waiters EXCEPT ![e] = Without(@, SyncWaiter(t))])
    BY <1>1, <1>4
  <2> QED
    BY <2>1, ListsKept
<1>11. ASSUME NEW d \in Event, NEW y \in ToSet(waiters'[d]), y.flag = 0, y.thread = t
       PROVE  WaitsFor(n, d) /\ fired[t] # d
  <2>1. y \in ToSet(waiters[d])
    BY <1>10
  <2>2. WaitsFor(stack[t], d) /\ fired[t] # d
    BY <1>11, <2>1, WaitsForLists
  <2>3. d \in ToSet(f.held)
    BY <1>2, <1>6, <2>2 DEF Awaits
  <2>4. d # e
    <3> SUFFICES ASSUME d = e, e # fired[t] PROVE FALSE
      BY <2>2
    <3>1. waiters'[e] = Without(waiters[e], SyncWaiter(t)) /\ Distinct(waiters[e])
          /\ waiters[e] \in Seq(Waiter)
      BY <1>1, <1>4, Typed DEF EInv, WaitersOK
    <3>2. ToSet(waiters'[e]) = ToSet(waiters[e]) \ {SyncWaiter(t)}
      BY <3>1, ElementsWithout
    <3>3. y = SyncWaiter(t)
      BY <1>11, <2>1, SyncWaiterIs
    <3> QED
      BY <3>2, <3>3
  <2>5. Awaits(g, d)
    BY <1>4, <1>5, <2>3, <2>4 DEF Awaits
  <2> QED
    BY <1>6, <2>2, <2>5
<1>12. fired' = [fired EXCEPT ![t] = fired[t]]
  BY <1>1, Typed
<1>13. UNCHANGED <<lock, signaled, given, watchVars, tasks>>
  BY <1>1
<1>14. StayListed(t, n, fired[t])
  BY <1>10, <1>11 DEF StayListed
<1>15. TakesIfWoken(t, fired[t])
  BY <1>1 DEF TakesIfWoken
<1> QED
  BY <1>1, <1>6, <1>9, <1>12, <1>13, <1>14, <1>15, WaitGoesOn

LEMMA EndManyEvents ==
  ASSUME IInv, EInv, NEW t \in Thread, EndMany(t), UNCHANGED <<loopVars, left>>
  PROVE  EInv'
<1> DEFINE f == Top(t)
           p == Below(t)
<1>1. /\ In(t, "many") /\ stack' = [stack EXCEPT ![t] = p] /\ f.point = "leave" /\ f.held = <<>>
      /\ taken' = [taken EXCEPT ![fired[t]] = @ + 1]
      /\ fired' = [fired EXCEPT ![t] = Disabled]
      /\ UNCHANGED <<lock, signaled, waiters, given, watchVars, tasks>>
  BY DEF EndMany, Return, loopVars, Take
<1>2. f \in Frame /\ f.op = "many"
  BY <1>1, Opened
<1>3. /\ Same(stack[t], p) /\ MayBeFiredBy(f, fired[t]) /\ FiredAt(p, Disabled)
      /\ \A d : WaitsFor(stack[t], d) <=> Awaits(f, d)
  BY <1>1, <1>2, WaitingFrame
<1> HIDE DEF f, p
<1>4. fired[t] \in Event /\ Disabled \notin Event
  BY <1>1, <1>2, <1>3, Typed DEF MayBeFiredBy
<1>5. \A d : ~WaitsFor(stack[t], d)
  BY <1>1, <1>2, <1>3, ElementsOfNone DEF Awaits
<1>6. \A d \in Event : /\ Distinct(waiters'[d]) /\ (signaled[d] => waiters'[d] = <<>>)
                       /\ \A y \in ToSet(waiters'[d]) : y \in ToSet(waiters[d])
  BY <1>1, ListsKept
<1>7. ASSUME NEW d \in Event, NEW y \in ToSet(waiters'[d]), y.flag = 0, y.thread = t
      PROVE  FALSE
  <2>1. y \in ToSet(waiters[d])
    BY <1>1
  <2> QED
    BY <1>5, <1>7, <2>1, WaitsForLists
<1>8. UNCHANGED <<lock, signaled, given, watchVars, tasks>>
  BY <1>1
<1>9. StayListed(t, p, Disabled)
  BY <1>6, <1>7 DEF StayListed
<1>10. TakesIfWoken(t, Disabled)
  BY <1>1, <1>4 DEF TakesIfWoken
<1> QED
  BY <1>1, <1>3, <1>8, <1>9, <1>10, WaitGoesOn

----------------------------------------------------------------------------
(* The steps of calls: WaitMany, which locks its events, and StartWatching. *)

LEMMA UnlockIs ==
  ASSUME NEW held \in Seq(Event), Unlock(held)
  PROVE  \A d \in Event : lock'[d] = IF d \in ToSet(held) THEN Nobody ELSE lock[d]
<1>1. ToSet(held) = {held[i] : i \in 1 .. Len(held)} /\ DOMAIN held = 1 .. Len(held)
  BY ElementsAre, LenProperties
<1>2. lock' = [d \in Event |-> IF \E i \in DOMAIN held : held[i] = d THEN Nobody ELSE lock[d]]
  BY DEF Unlock
<1>3. \A d \in Event : (\E i \in DOMAIN held : held[i] = d) <=> d \in ToSet(held)
  BY <1>1
<1> QED
  BY <1>2, <1>3

\* A WaitMany that locks its events.
LEMMA LockingTop ==
  ASSUME IInv, EInv, NEW t \in Thread, In(t, "many"), Top(t).point = "lock"
  PROVE  LET f == Top(t)
             p == Below(t)
         IN  /\ f \in Frame /\ f.op = "many" /\ f.todo \in Seq(Event) /\ f.held \in Seq(Event)
             /\ p \in Seq(Frame) /\ Idle(p) /\ Idle(stack[t])
             /\ \A d : Held(stack[t], d) <=> Held(p, d) \/ d \in ToSet(f.held)
             /\ \A d : Fires(stack[t], d) <=> Fires(p, d)
             /\ \A i : Posts(stack[t], i) <=> Posts(p, i)
             /\ \A d \in Event :
                  /\ Held(p, d) => lock[d] = t /\ d \notin ToSet(f.held)
                  /\ HeldOnce(p, d)
                  /\ Finds(p, d) => ~signaled[d] /\ Held(p, d)
                  /\ d \in ToSet(f.held) => lock[d] = t /\ ~signaled[d]
<1> DEFINE f == Top(t)
           p == Below(t)
<1>1. f \in Frame /\ f.op = "many" /\ p \in Seq(Frame) /\ Idle(p) /\ stack[t] = Append(p, f)
      /\ f.point = "lock"
  BY Opened
<1>2. f.todo \in Seq(Event) /\ f.held \in Seq(Event)
  BY <1>1, FrameFields
<1>3. \A d : Holds(f, d) <=> d \in ToSet(f.held)
  BY <1>1 DEF Holds
<1>4. Idle(stack[t])
  <2> HIDE DEF p, f
  <2>1. Idle(Append(p, f))
    BY <1>1, IdleTop
  <2> QED
    BY <1>1, <2>1
<1>5. /\ \A e : Held(stack[t], e) <=> Held(p, e) \/ Holds(f, e)
      /\ \A e : HeldOnce(stack[t], e) <=> HeldOnce(p, e) /\ (Holds(f, e) => ~Held(p, e))
      /\ \A e : Finds(stack[t], e) <=> Finds(p, e) \/ (Holds(f, e) /\ f.op # "start")
      /\ \A e : Fires(stack[t], e) <=> Fires(p, e) \/ (f.op = "fire" /\ f.ev = e /\ ~f.woke)
      /\ \A i : Posts(stack[t], i) <=> Posts(p, i) \/ (f.op = "post" /\ f.task.flag = i)
  BY Opened
<1> HIDE DEF f, p
<1>6. \A d : Finds(p, d) => Held(p, d)
  BY DEF Finds, Held
<1>7. \A d \in Event : /\ Held(stack[t], d) => lock[d] = t
                       /\ HeldOnce(stack[t], d)
                       /\ Finds(stack[t], d) => ~signaled[d]
  BY DEF EInv, LocksOK
<1>8. \A d \in Event : /\ Held(p, d) => lock[d] = t /\ d \notin ToSet(f.held)
                       /\ HeldOnce(p, d)
                       /\ Finds(p, d) => ~signaled[d] /\ Held(p, d)
                       /\ d \in ToSet(f.held) => lock[d] = t /\ ~signaled[d]
  BY <1>1, <1>3, <1>5, <1>6, <1>7
<1> QED
  BY <1>1, <1>2, <1>3, <1>4, <1>5, <1>8 DEF f, p

\* An event is signaled: all are unlocked, and WaitMany returns.
LEMMA LockSignaledEvents ==
  ASSUME IInv, EInv, NEW t \in Thread, LockNext(t), UNCHANGED <<loopVars, left>>,
         NEW e, e = Head(Top(t).todo), signaled[e]
  PROVE  EInv'
<1> DEFINE f == Top(t)
           p == Below(t)
<1>0. LocksOK /\ FiredOK /\ WaitersOK /\ WatchersOK /\ PostedOK /\ ReceivedOK
  BY DEF EInv
<1>1. /\ In(t, "many") /\ f.point = "lock" /\ f.todo # <<>>
      /\ Consume(e) /\ Unlock(f.held) /\ stack' = [stack EXCEPT ![t] = p]
      /\ UNCHANGED <<waiters, fired, given, watchVars, tasks>>
  BY DEF LockNext, Return, loopVars
<1>2. /\ f.todo \in Seq(Event) /\ f.held \in Seq(Event)
      /\ Idle(p) /\ Idle(stack[t])
      /\ \A d : Fires(stack[t], d) <=> Fires(p, d)
      /\ \A i : Posts(stack[t], i) <=> Posts(p, i)
      /\ \A d \in Event :
           /\ Held(p, d) => lock[d] = t /\ d \notin ToSet(f.held)
           /\ HeldOnce(p, d)
           /\ Finds(p, d) => ~signaled[d] /\ Held(p, d)
           /\ d \in ToSet(f.held) => lock[d] = t /\ ~signaled[d]
  BY <1>1, LockingTop
<1>3. e \in Event
  BY <1>1, <1>2, ElementsOfTail
<1>4. \A d \in Event : lock'[d] = IF d \in ToSet(f.held) THEN Nobody ELSE lock[d]
  BY <1>1, <1>2, UnlockIs
<1> HIDE DEF f, p
<1>5. \A d \in Event : signaled'[d] => signaled[d]
  BY <1>1, <1>3, ConsumeProperties
<1>6. LocksOK'
  <2>1. \A d \in Event : /\ Held(p, d) => lock'[d] = t
                         /\ HeldOnce(p, d)
                         /\ Finds(p, d) => ~signaled'[d]
    BY <1>2, <1>4, <1>5
  <2>2. \A d \in Event : lock[d] \notin {t, Nobody} =>
          lock'[d] = lock[d] /\ (signaled'[d] => signaled[d])
    BY <1>2, <1>4, <1>5
  <2> QED
    BY <1>0, <1>1, <2>1, <2>2, LocksKept
<1>7. FiredOK'
  BY <1>1, <1>2, FiredIdle
<1>8. WaitersOK'
  <2>1. UNCHANGED <<waiters, watched, kernel, set_flags>>
    BY <1>1 DEF watchVars
  <2> QED
    BY <1>0, <1>1, <1>2, <1>5, <2>1, WaitersKept DEF Idle
<1>9. WatchersOK' /\ PostedOK'
  BY <1>1, <1>2, WatchesKept
<1>10. ReceivedOK'
  <2> SUFFICES ASSUME NEW d \in Event \ Manual PROVE Received(d)'
    BY DEF ReceivedOK
  <2>1. Firing(d)' = Firing(d)
    BY <1>1, <1>2, FiringChanges
  <2>2. Woke(d)' = Woke(d)
    BY <1>1 DEF Woke
  <2>3. given'[d] = given[d]
    BY <1>1
  <2> QED
    BY <1>1, <1>3, <2>1, <2>2, <2>3, ConsumeProperties
<1> QED
  BY <1>6, <1>7, <1>8, <1>9, <1>10 DEF EInv

\* Otherwise it is one more that is locked.
LEMMA LockOneEvents ==
  ASSUME IInv, EInv, NEW t \in Thread, LockNext(t), UNCHANGED <<loopVars, left>>,
         NEW e, e = Head(Top(t).todo), ~signaled[e]
  PROVE  EInv'
<1> DEFINE f == Top(t)
           p == Below(t)
           g == [f EXCEPT !.todo = Tail(@), !.held = Append(@, e)]
           n == Append(p, g)
<1>0. LocksOK /\ FiredOK /\ WaitersOK /\ WatchersOK /\ PostedOK /\ ReceivedOK
  BY DEF EInv
<1>1. /\ In(t, "many") /\ f.point = "lock" /\ f.todo # <<>> /\ lock[e] = Nobody
      /\ lock' = [lock EXCEPT ![e] = t] /\ stack' = [stack EXCEPT ![t] = n]
      /\ UNCHANGED <<signaled, waiters, fired, given, taken, watchVars, tasks>>
  BY DEF LockNext, GoTo, Free, loopVars
<1>2. /\ f \in Frame /\ f.op = "many" /\ f.todo \in Seq(Event) /\ f.held \in Seq(Event)
      /\ p \in Seq(Frame) /\ Idle(stack[t])
      /\ \A d : Fires(stack[t], d) <=> Fires(p, d)
      /\ \A i : Posts(stack[t], i) <=> Posts(p, i)
      /\ \A d \in Event :
           /\ Held(p, d) => lock[d] = t /\ d \notin ToSet(f.held)
           /\ HeldOnce(p, d)
           /\ Finds(p, d) => ~signaled[d] /\ Held(p, d)
           /\ d \in ToSet(f.held) => lock[d] = t /\ ~signaled[d]
  BY <1>1, LockingTop
<1>3. e \in Event /\ Tail(f.todo) \in Seq(Event)
  BY <1>1, <1>2, ElementsOfTail
<1>4. Append(f.held, e) \in Seq(Event) /\ ToSet(Append(f.held, e)) = ToSet(f.held) \cup {e}
  BY <1>2, <1>3, ElementsOfAppend
<1>5. g \in Frame /\ g.op = "many" /\ g.point = "lock" /\ g.held = Append(f.held, e)
  <2>1. f \in [op : {"many"}, todo : Seq(Event), held : Seq(Event),
               point : {"lock", "asleep", "leave"}]
    BY <1>2, FrameFields
  <2>2. /\ g \in [op : {"many"}, todo : Seq(Event), held : Seq(Event),
                  point : {"lock", "asleep", "leave"}]
        /\ g.op = "many" /\ g.point = "lock" /\ g.held = Append(f.held, e)
    BY <1>1, <1>3, <1>4, <2>1
  <2> QED
    BY <2>2 DEF Frame, CallFrame
<1> HIDE DEF f, p, g
<1>6. \A d : Holds(g, d) <=> d \in ToSet(f.held) \/ d = e
  BY <1>4, <1>5 DEF Holds
<1>7. /\ \A d : Held(n, d) <=> Held(p, d) \/ Holds(g, d)
      /\ \A d : HeldOnce(n, d) <=> HeldOnce(p, d) /\ (Holds(g, d) => ~Held(p, d))
      /\ \A d : Finds(n, d) <=> Finds(p, d) \/ (Holds(g, d) /\ g.op # "start")
      /\ \A d : Fires(n, d) <=> Fires(p, d) \/ (g.op = "fire" /\ g.ev = d /\ ~g.woke)
      /\ \A i : Posts(n, i) <=> Posts(p, i) \/ (g.op = "post" /\ g.task.flag = i)
  BY <1>2, <1>5, OnTop
<1>8. Idle(n)
  BY <1>2, <1>5, IdleTop
<1> HIDE DEF n
<1>9. t # Nobody /\ lock'[e] = t /\ \A d \in Event : d # e => lock'[d] = lock[d]
  BY <1>1, <1>3, Typed
<1>10. LocksOK'
  <2>1. \A d \in Event : Held(n, d) => lock'[d] = t
    BY <1>2, <1>6, <1>7, <1>9
  <2>2. \A d \in Event : HeldOnce(n, d)
    BY <1>1, <1>2, <1>6, <1>7, <1>9
  <2>3. \A d \in Event : Finds(n, d) => ~signaled'[d]
    BY <1>1, <1>2, <1>6, <1>7
  <2>4. \A d \in Event : /\ Held(n, d) => lock'[d] = t
                         /\ HeldOnce(n, d)
                         /\ Finds(n, d) => ~signaled'[d]
    BY <2>1, <2>2, <2>3
  <2>5. \A d \in Event : lock[d] \notin {t, Nobody} =>
          lock'[d] = lock[d] /\ (signaled'[d] => signaled[d])
    BY <1>1, <1>9
  <2> QED
    BY <1>0, <1>1, <2>4, <2>5, LocksKept
<1>11. FiredOK'
  BY <1>1, <1>2, <1>8, FiredIdle
<1>12. WaitersOK'
  <2>1. UNCHANGED <<waiters, watched, kernel, set_flags>>
    BY <1>1 DEF watchVars
  <2> QED
    BY <1>0, <1>1, <1>2, <2>1, WaitersKept DEF Idle
<1>13. WatchersOK' /\ PostedOK'
  <2>1. \A i : Posts(n, i) => Posts(stack[t], i)
    BY <1>2, <1>5, <1>7
  <2> QED
    BY <1>1, <2>1, WatchesKept
<1>14. ReceivedOK'
  <2> SUFFICES ASSUME NEW d \in Event \ Manual PROVE Received(d)'
    BY DEF ReceivedOK
  <2>1. Fires(n, d) <=> Fires(stack[t], d)
    BY <1>2, <1>5, <1>7
  <2>2. Firing(d)' = Firing(d)
    BY <1>1, <2>1, FiringChanges
  <2>3. Woke(d)' = Woke(d)
    BY <1>1 DEF Woke
  <2> QED
    BY <1>0, <1>1, <2>2, <2>3, ReceivedKept DEF ReceivedOK
<1> QED
  BY <1>10, <1>11, <1>12, <1>13, <1>14 DEF EInv

LEMMA LockNextEvents ==
  ASSUME IInv, EInv, NEW t \in Thread, LockNext(t), UNCHANGED <<loopVars, left>>
  PROVE  EInv'
<1>1. \E e : e = Head(Top(t).todo)
  OBVIOUS
<1>2. PICK e : e = Head(Top(t).todo)
  BY <1>1
<1> QED
  BY <1>2, LockSignaledEvents, LockOneEvents

\* All are locked: the thread is put in each list, and they are unlocked.
LEMMA EnqueueManyEvents ==
  ASSUME IInv, EInv, NEW t \in Thread, EnqueueMany(t), UNCHANGED <<loopVars, left>>
  PROVE  EInv'
<1> DEFINE f == Top(t)
           p == Below(t)
           g == [f EXCEPT !.point = "asleep"]
           n == Append(p, g)
           x == SyncWaiter(t)
           H == ToSet(f.held)
<1>0. LocksOK /\ FiredOK /\ WaitersOK /\ WatchersOK /\ PostedOK /\ ReceivedOK
  BY DEF EInv
<1>1. /\ In(t, "many") /\ f.point = "lock" /\ Unlock(f.held)
      /\ stack' = [stack EXCEPT ![t] = n] /\ fired' = [fired EXCEPT ![t] = Waiting]
      /\ waiters' = [d \in Event |-> IF \E i \in DOMAIN f.held : f.held[i] = d
                                     THEN Append(waiters[d], x) ELSE waiters[d]]
      /\ UNCHANGED <<signaled, given, taken, watchVars, tasks>>
  BY DEF EnqueueMany, GoTo, loopVars
<1>2. /\ f \in Frame /\ f.op = "many" /\ f.held \in Seq(Event)
      /\ p \in Seq(Frame) /\ Idle(stack[t])
      /\ \A d : Fires(stack[t], d) <=> Fires(p, d)
      /\ \A i : Posts(stack[t], i) <=> Posts(p, i)
      /\ \A d \in Event :
           /\ Held(p, d) => lock[d] = t /\ d \notin ToSet(f.held)
           /\ HeldOnce(p, d)
           /\ Finds(p, d) => ~signaled[d] /\ Held(p, d)
           /\ d \in ToSet(f.held) => lock[d] = t /\ ~signaled[d]
  BY <1>1, LockingTop
<1>3. \A d \in Event : lock'[d] = IF d \in H THEN Nobody ELSE lock[d]
  BY <1>1, <1>2, UnlockIs
<1>4. \A d \in Event : waiters'[d] = IF d \in H THEN Append(waiters[d], x) ELSE waiters[d]
  <2>1. H = {f.held[i] : i \in 1 .. Len(f.held)} /\ DOMAIN f.held = 1 .. Len(f.held)
    BY <1>2, ElementsAre, LenProperties
  <2>2. \A d : (\E i \in DOMAIN f.held : f.held[i] = d) <=> d \in H
    BY <2>1
  <2> HIDE DEF H, x, f
  <2> QED
    BY <1>1, <2>2
<1>5. g \in Frame /\ g.op = "many" /\ g.point = "asleep" /\ g.held = f.held
  <2>1. f \in [op : {"many"}, todo : Seq(Event), held : Seq(Event),
               point : {"lock", "asleep", "leave"}]
    BY <1>2, FrameFields
  <2>2. /\ g \in [op : {"many"}, todo : Seq(Event), held : Seq(Event),
                  point : {"lock", "asleep", "leave"}]
        /\ g.op = "many" /\ g.point = "asleep" /\ g.held = f.held
    BY <1>1, <2>1
  <2> QED
    BY <2>2 DEF Frame, CallFrame
<1>6. x \in Waiter /\ x.flag = 0 /\ x.thread = t
  BY DEF SyncWaiter, Waiter
<1> HIDE DEF f, p, g, x
<1>7. \A d : ~Holds(g, d)
  BY <1>5 DEF Holds
<1>8. \A d : Awaits(g, d) <=> d \in H
  BY <1>5 DEF Awaits
<1>9. MayBeFiredBy(g, Waiting)
  BY <1>5, Typed DEF MayBeFiredBy
<1>10. /\ \A d : Held(n, d) <=> Held(p, d) \/ Holds(g, d)
       /\ \A d : HeldOnce(n, d) <=> HeldOnce(p, d) /\ (Holds(g, d) => ~Held(p, d))
       /\ \A d : Finds(n, d) <=> Finds(p, d) \/ (Holds(g, d) /\ g.op # "start")
       /\ \A d : Fires(n, d) <=> Fires(p, d) \/ (g.op = "fire" /\ g.ev = d /\ ~g.woke)
       /\ \A i : Posts(n, i) <=> Posts(p, i) \/ (g.op = "post" /\ g.task.flag = i)
       /\ \A d : WaitsFor(n, d) <=> Awaits(g, d)
       /\ \A v : FiredAt(n, v) <=> MayBeFiredBy(g, v)
  BY <1>2, <1>5, OnTop
<1> HIDE DEF n, H
<1>11. fired[t] = Disabled /\ fired'[t] = Waiting /\ \A u \in Thread : u # t => fired'[u] = fired[u]
  BY <1>0, <1>1, <1>2, Typed DEF FiredOK, Idle
<1>12. LocksOK'
  <2>1. \A d \in Event : /\ Held(n, d) => lock'[d] = t
                         /\ HeldOnce(n, d)
                         /\ Finds(n, d) => ~signaled'[d]
    BY <1>1, <1>2, <1>3, <1>7, <1>10 DEF H
  <2>2. \A d \in Event : lock[d] \notin {t, Nobody} =>
          lock'[d] = lock[d] /\ (signaled'[d] => signaled[d])
    BY <1>1, <1>2, <1>3 DEF H
  <2> QED
    BY <1>0, <1>1, <2>1, <2>2, LocksKept
<1>13. FiredOK'
  <2>1. FiredAt(n, fired'[t])
    BY <1>9, <1>10, <1>11
  <2> QED
    BY <1>0, <1>1, <1>11, <2>1, FiredKept
<1>14. \A d \in Event : \A y \in ToSet(waiters[d]) : y.flag = 0 => y.thread # t
  BY <1>0, <1>2, NotListed DEF Idle
<1>15. ASSUME NEW d \in Event
       PROVE  /\ Distinct(waiters'[d]) /\ (signaled'[d] => waiters'[d] = <<>>)
              /\ ToSet(waiters'[d]) = IF d \in H THEN ToSet(waiters[d]) \cup {x} ELSE ToSet(waiters[d])
  <2>1. Distinct(waiters[d]) /\ (signaled[d] => waiters[d] = <<>>) /\ x \notin ToSet(waiters[d])
    BY <1>0, <1>6, <1>14 DEF WaitersOK
  <2>2. CASE d \in H
    <3>1. ~signaled'[d] /\ waiters'[d] = Append(waiters[d], x)
      BY <1>1, <1>2, <1>4, <2>2 DEF H
    <3> QED
      BY <1>6, <2>1, <2>2, <3>1, Enlisted
  <2>3. CASE d \notin H
    BY <1>1, <1>4, <2>1, <2>3
  <2> QED
    BY <2>2, <2>3
<1>16. WaitersOK'
  <2> SUFFICES ASSUME NEW d \in Event, NEW y \in ToSet(waiters'[d])
               PROVE  WaiterOK(d, y)'
    BY <1>15 DEF WaitersOK
  <2>1. y \in ToSet(waiters[d]) \/ (d \in H /\ y = x)
    BY <1>15
  <2>2. stack'[t] = n
    BY <1>1, Typed
  <2>3. CASE y \in ToSet(waiters[d])
    <3>1. WaiterOK(d, y)
      BY <1>0, <2>3 DEF WaitersOK
    <3>2. y.flag = 0 => y.thread # t /\ y.thread \in Thread /\ fired[y.thread] # d
      BY <1>14, <2>3, <3>1 DEF WaiterOK
    <3>3. y.flag = 0 => y.thread # t /\ fired'[y.thread] # d
      BY <1>11, <3>2
    <3>4. UNCHANGED <<watched, kernel, set_flags>>
      BY <1>1 DEF watchVars
    <3> QED
      BY <1>0, <1>1, <2>3, <3>3, <3>4, WaiterKept
  <2>4. CASE d \in H /\ y = x
    <3>1. WaitsFor(n, d) /\ Waiting # d
      BY <1>8, <1>10, <2>4, Typed
    <3> QED
      BY <1>6, <1>11, <2>2, <2>4, <3>1 DEF WaiterOK
  <2> QED
    BY <2>1, <2>3, <2>4
<1>17. WatchersOK' /\ PostedOK'
  <2>1. \A i : Posts(n, i) => Posts(stack[t], i)
    BY <1>2, <1>5, <1>10
  <2>2. \A d \in Event : \A y \in ToSet(waiters'[d]) : y.flag # 0 => y \in ToSet(waiters[d])
    BY <1>6, <1>15
  <2> QED
    BY <1>1, <2>1, <2>2, WatchesKept
<1>18. ReceivedOK'
  <2> SUFFICES ASSUME NEW d \in Event \ Manual PROVE Received(d)'
    BY DEF ReceivedOK
  <2>1. Fires(n, d) <=> Fires(stack[t], d)
    BY <1>2, <1>5, <1>10
  <2>2. Firing(d)' = Firing(d)
    BY <1>1, <2>1, FiringChanges
  <2>3. Woke(d)' = Woke(d)
    <3>1. Waiting # d /\ Disabled # d
      BY Typed
    <3> QED
      BY <1>11, <3>1 DEF Woke
  <2> QED
    BY <1>0, <1>1, <2>2, <2>3, ReceivedKept DEF ReceivedOK
<1> QED
  BY <1>12, <1>13, <1>16, <1>17, <1>18 DEF EInv

\* StartWatching releases the lock that it held while it posted.
LEMMA EndStartEvents ==
  ASSUME IInv, EInv, NEW t \in Thread, EndStart(t), UNCHANGED <<loopVars, left>>
  PROVE  EInv'
<1> DEFINE f == Top(t)
           p == Below(t)
           e == f.ev
<1>0. LocksOK /\ FiredOK /\ WaitersOK /\ WatchersOK /\ PostedOK /\ ReceivedOK
  BY DEF EInv
<1>1. /\ In(t, "start") /\ lock' = [lock EXCEPT ![e] = Nobody]
      /\ stack' = [stack EXCEPT ![t] = p]
      /\ UNCHANGED <<signaled, waiters, fired, given, taken, watchVars, tasks>>
  BY DEF EndStart, Return, loopVars
<1>2. /\ p \in Seq(Frame) /\ f \in Frame /\ f.op = "start" /\ stack[t] = Append(p, f) /\ Idle(p)
      /\ \A d : Held(stack[t], d) <=> Held(p, d) \/ Holds(f, d)
      /\ \A d : HeldOnce(stack[t], d) <=> HeldOnce(p, d) /\ (Holds(f, d) => ~Held(p, d))
      /\ \A d : Finds(stack[t], d) <=> Finds(p, d) \/ (Holds(f, d) /\ f.op # "start")
      /\ \A d : Fires(stack[t], d) <=> Fires(p, d) \/ (f.op = "fire" /\ f.ev = d /\ ~f.woke)
      /\ \A i : Posts(stack[t], i) <=> Posts(p, i) \/ (f.op = "post" /\ f.task.flag = i)
  BY <1>1, Opened
<1>3. e \in Event /\ \A d : Holds(f, d) <=> d = e
  BY <1>2, FrameFields DEF Holds
<1> HIDE DEF p, f, e
<1>4. Idle(stack[t])
  <2>1. Idle(Append(p, f))
    BY <1>2, IdleTop
  <2> QED
    BY <1>2, <2>1
<1>5. /\ lock'[e] = Nobody /\ \A d \in Event : d # e => lock'[d] = lock[d]
  BY <1>1, <1>3, Typed
<1>6. \A d \in Event : /\ Held(p, d) => lock[d] = t /\ d # e
                       /\ HeldOnce(p, d)
                       /\ Finds(p, d) => ~signaled[d]
  BY <1>0, <1>2, <1>3 DEF LocksOK
<1>7. lock[e] = t
  BY <1>0, <1>2, <1>3 DEF LocksOK
<1>8. LocksOK'
  <2>1. \A d \in Event : /\ Held(p, d) => lock'[d] = t
                         /\ HeldOnce(p, d)
                         /\ Finds(p, d) => ~signaled'[d]
    BY <1>1, <1>5, <1>6
  <2>2. \A d \in Event : lock[d] \notin {t, Nobody} =>
          lock'[d] = lock[d] /\ (signaled'[d] => signaled[d])
    BY <1>1, <1>5, <1>7
  <2> QED
    BY <1>0, <1>1, <2>1, <2>2, LocksKept
<1>9. FiredOK'
  BY <1>1, <1>2, <1>4, FiredIdle
<1>10. WaitersOK'
  <2>1. UNCHANGED <<waiters, watched, kernel, set_flags>>
    BY <1>1 DEF watchVars
  <2> QED
    BY <1>0, <1>1, <1>4, <2>1, WaitersKept DEF Idle
<1>11. WatchersOK' /\ PostedOK'
  BY <1>1, <1>2, WatchesKept
<1>12. ReceivedOK'
  <2> SUFFICES ASSUME NEW d \in Event \ Manual PROVE Received(d)'
    BY DEF ReceivedOK
  <2>1. Firing(d)' = Firing(d)
    BY <1>1, <1>2, FiringChanges
  <2>2. Woke(d)' = Woke(d)
    BY <1>1 DEF Woke
  <2> QED
    BY <1>0, <1>1, <2>1, <2>2, ReceivedKept DEF ReceivedOK
<1> QED
  BY <1>8, <1>9, <1>10, <1>11, <1>12 DEF EInv

LEMMA EventStepEvents ==
  ASSUME IInv, EInv, NEW t \in Thread, EventStep(t), UNCHANGED <<loopVars, left>>
  PROVE  EInv'
  BY BeginSignalEvents, FireWaiterEvents, EndSignalEvents, WakeEvents, EndWaitEvents,
     LockNextEvents, EnqueueManyEvents, WakeManyEvents, LeaveNextEvents, EndManyEvents,
     EndStartEvents DEF EventStep

\* The task is in the queue: it was being posted.
LEMMA PostEvents ==
  ASSUME IInv, EInv, NEW t \in Thread, Post(t)
  PROVE  EInv'
<1> DEFINE f == Top(t)
           p == Below(t)
           g == Signaling(Pump)
           n == IF incoming = <<>> THEN Append(p, g) ELSE p
<1>1. /\ In(t, "post") /\ stack' = [stack EXCEPT ![t] = n]
      /\ tasks' = Append(tasks, f.task)
      /\ UNCHANGED <<lock, signaled, waiters, fired, given, taken, cancel_flag, kernel, starts,
                     watched, set_flags>>
  BY DEF Post, GoTo, Return, eventVars, watchVars
<1>2. /\ p \in Seq(Frame) /\ f \in Frame /\ f.op = "post" /\ stack[t] = Append(p, f) /\ Idle(p)
      /\ \A d : Held(stack[t], d) <=> Held(p, d) \/ Holds(f, d)
      /\ \A d : HeldOnce(stack[t], d) <=> HeldOnce(p, d) /\ (Holds(f, d) => ~Held(p, d))
      /\ \A d : Finds(stack[t], d) <=> Finds(p, d) \/ (Holds(f, d) /\ f.op # "start")
      /\ \A d : Fires(stack[t], d) <=> Fires(p, d) \/ (f.op = "fire" /\ f.ev = d /\ ~f.woke)
      /\ \A i : Posts(stack[t], i) <=> Posts(p, i) \/ (f.op = "post" /\ f.task.flag = i)
  BY <1>1, Opened
<1>3. \A d : ~Holds(f, d)
  BY <1>2 DEF Holds
<1>4. f.task \in PostedTask /\ tasks \in Seq(PostedTask)
  BY <1>2, FrameFields DEF IInv, TypesOK, TasksOK
<1>5. g \in Frame /\ g.op = "signal"
  BY Typed DEF Signaling, Frame, CallFrame
<1> HIDE DEF p, f, g
<1>6. Idle(Append(p, f)) /\ Plain(g)
  BY <1>2, <1>5, IdleTop, PlainFrames
<1>7. Same(p, n) /\ Idle(n)
  <2>1. Same(p, Append(p, g)) /\ Idle(Append(p, g))
    BY <1>2, <1>5, <1>6, SamePush, IdleTop
  <2>2. Same(p, p)
    BY DEF Same
  <2> QED
    BY <1>2, <2>1, <2>2
<1> HIDE DEF n
<1>8. Idle(stack[t])
  BY <1>2, <1>6
<1>9. \A d : /\ Held(n, d) => Held(stack[t], d)
             /\ HeldOnce(stack[t], d) => HeldOnce(n, d)
             /\ Finds(n, d) => Finds(stack[t], d)
             /\ Fires(n, d) <=> Fires(stack[t], d)
  BY <1>2, <1>3, <1>7 DEF Same
<1>10. \A i \in 1 .. starts : Posts(n, i) => Posted(i)
  <2>1. \A i \in 1 .. starts : i \in Nat \ {0}
    BY Typed
  <2> QED
    BY <1>2, <1>7, <2>1 DEF Same, Posted
<1>11. \A i \in 1 .. starts : (\E j \in Number' : tasks'[j].flag = i) => Posted(i)
  <2> SUFFICES ASSUME NEW i \in 1 .. starts, NEW j \in Number', tasks'[j].flag = i
               PROVE  Posted(i)
    OBVIOUS
  <2>1. /\ Len(tasks') = Len(tasks) + 1 /\ Len(tasks) \in Nat
        /\ tasks'[Len(tasks) + 1] = f.task
        /\ \A k \in 1 .. Len(tasks) : tasks'[k] = tasks[k]
    BY <1>1, <1>4, PushProperties
  <2>2. j = Len(tasks) + 1 \/ j \in 1 .. Len(tasks)
    BY <2>1 DEF Number
  <2>3. CASE j = Len(tasks) + 1
    <3>1. Posts(stack[t], i)
      BY <1>2, <2>1, <2>3
    <3> QED
      BY <3>1 DEF Posted
  <2>4. CASE j \in 1 .. Len(tasks)
    BY <2>1, <2>4 DEF Posted, Number
  <2> QED
    BY <2>2, <2>3, <2>4
<1> QED
  BY <1>1, <1>7, <1>8, <1>9, <1>10, <1>11, StackKeeps

----------------------------------------------------------------------------
(* The calls of tasks and of the other threads.                            *)

\* Who may call does not wait.
LEMMA CallerIsIdle ==
  ASSUME IInv, NEW t \in Thread, NEW kind, MayCall(t, kind)
  PROVE  Idle(stack[t]) /\ stack[t] \in Seq(Frame)
<1>1. stack[t] \in Seq(Frame)
  BY Typed
<1>2. CASE stack[t] = <<>>
  BY <1>1, <1>2, OnNone
<1>3. CASE In(t, "task")
  <2> DEFINE f == Top(t)
             p == Below(t)
  <2>1. p \in Seq(Frame) /\ f \in Frame /\ f.op = "task" /\ stack[t] = Append(p, f)
    BY <1>3, Opened
  <2> HIDE DEF p, f
  <2>2. Idle(Append(p, f))
    BY <2>1, IdleTop
  <2> QED
    BY <1>1, <2>1, <2>2
<1> QED
  BY <1>2, <1>3 DEF MayCall

\* CallPost, CallSignal and CallWaitMany
LEMMA CallPushEvents ==
  ASSUME IInv, EInv, NEW t \in Thread, NEW kind, MayCall(t, kind), NEW f \in Frame, Plain(f),
         f.op \in {"post", "signal"} \/ (f.op = "many" /\ f.point = "lock"),
         Call(t, f), UNCHANGED <<now, eventVars, watchVars, loopVars>>
  PROVE  EInv'
<1>1. Idle(stack[t]) /\ stack[t] \in Seq(Frame)
  BY CallerIsIdle
<1> DEFINE n == Append(stack[t], f)
<1>2. stack' = [stack EXCEPT ![t] = n]
  BY DEF Call
<1>3. Same(stack[t], n) /\ Idle(n)
  BY <1>1, SamePush, IdleTop
<1>4. UNCHANGED <<eventVars, watchVars, tasks>>
  BY DEF loopVars
<1> HIDE DEF n
<1> QED
  BY <1>1, <1>2, <1>3, <1>4, SameKeeps

LEMMA CallPostEvents ==
  ASSUME IInv, EInv, NEW t \in Thread, NEW nestable \in Nestable, NEW delay \in Delays,
         CallPost(t, nestable, delay)
  PROVE  EInv'
<1> DEFINE task == [nestable |-> nestable, time |-> IF delay = 0 THEN 0 ELSE now + delay,
                    flag |-> 0]
<1>1. now \in Nat /\ MaxTime \in Nat /\ delay \in Nat /\ nestable \in BOOLEAN
  BY LoopConstantsOK DEF IInv, TypesOK, EventTypeOK
<1>2. now + delay <= MaxTime
  BY DEF CallPost
<1>3. (IF delay = 0 THEN 0 ELSE now + delay) \in 0 .. MaxTime
  BY <1>1, <1>2
<1>4. task \in PostedTask /\ task.flag = 0
  BY <1>1, <1>3 DEF PostedTask
<1>5. /\ MayCall(t, "post") /\ Call(t, Posting(task))
      /\ UNCHANGED <<now, eventVars, watchVars, loopVars>>
  BY DEF CallPost
<1> HIDE DEF task
<1> DEFINE f == Posting(task)
<1>6. f \in Frame /\ f.op = "post" /\ f.task.flag = 0
  BY <1>4 DEF Posting, CallFrame, Frame
<1>7. Call(t, f)
  BY <1>5
<1> HIDE DEF f
<1>8. Plain(f)
  BY <1>6, PlainFrames
<1> QED
  BY <1>5, <1>6, <1>7, <1>8, CallPushEvents

LEMMA CallSignalEvents ==
  ASSUME IInv, EInv, NEW t \in Thread, NEW e \in Event, CallSignal(t, e)
  PROVE  EInv'
<1> DEFINE f == Signaling(e)
<1>1. /\ MayCall(t, "signal") /\ Call(t, f)
      /\ UNCHANGED <<now, eventVars, watchVars, loopVars>>
  BY DEF CallSignal
<1>2. f \in Frame /\ f.op = "signal"
  BY DEF Signaling, CallFrame, Frame
<1> HIDE DEF f
<1>3. Plain(f)
  BY <1>2, PlainFrames
<1> QED
  BY <1>1, <1>2, <1>3, CallPushEvents

LEMMA CallWaitManyEvents ==
  ASSUME IInv, EInv, NEW t \in Thread, NEW d \in Event, NEW e \in Event, d # e,
         CallWaitMany(t, <<d, e>>)
  PROVE  EInv'
<1> DEFINE f == Locking(Sorted(<<d, e>>))
<1>1. /\ MayCall(t, "many") /\ Call(t, f)
      /\ UNCHANGED <<now, eventVars, watchVars, loopVars>>
  BY DEF CallWaitMany, WaitMany
<1>2. f \in Frame /\ f.op = "many" /\ f.point = "lock" /\ f.held = <<>>
  <2>1. <<>> \in Seq(Event)
    BY EmptySeq
  <2> QED
    BY <2>1, SortedTyped DEF Locking, CallFrame, Frame
<1> HIDE DEF f
<1>3. Plain(f)
  BY <1>2, PlainFrames
<1> QED
  BY <1>1, <1>2, <1>3, CallPushEvents

\* Reset: the signal is taken.
LEMMA CallResetEvents ==
  ASSUME IInv, EInv, NEW t \in Thread, NEW e \in Event, CallReset(t, e)
  PROVE  EInv'
<1>0. LocksOK /\ FiredOK /\ WaitersOK /\ WatchersOK /\ PostedOK /\ ReceivedOK
  BY DEF EInv
<1>1. /\ MayCall(t, "reset") /\ signaled[e]
      /\ signaled' = [signaled EXCEPT ![e] = FALSE]
      /\ taken' = [taken EXCEPT ![e] = @ + 1]
      /\ UNCHANGED <<stack, lock, waiters, fired, given, watchVars, tasks>>
  BY DEF CallReset, Reset, Take, loopVars
<1>2. UNCHANGED <<cancel_flag, kernel, set_flags, starts, watched>>
  BY <1>1 DEF watchVars
<1>3. /\ ~signaled'[e] /\ taken'[e] = taken[e] + 1
      /\ \A d \in Event : d # e => signaled'[d] = signaled[d] /\ taken'[d] = taken[d]
  BY <1>1, Typed
<1>4. LocksOK'
  BY <1>0, <1>1, <1>3 DEF LocksOK
<1>5. FiredOK'
  BY <1>0, <1>1 DEF FiredOK
<1>6. WaitersOK'
  <2>1. \A d \in Event : \A x : WaiterOK(d, x) => WaiterOK(d, x)'
    BY <1>1, <1>2 DEF WaiterOK
  <2> QED
    BY <1>0, <1>1, <1>3, <2>1 DEF WaitersOK
<1>7. WatchersOK'
  BY <1>0, <1>2 DEF WatchersOK
<1>8. PostedOK'
  <2>1. \A f : Posted(f)' => Posted(f)
    BY <1>1 DEF Posted, Number
  <2> QED
    BY <1>0, <1>1, <1>2, <2>1 DEF PostedOK
<1>9. ReceivedOK'
  <2> SUFFICES ASSUME NEW d \in Event \ Manual PROVE Received(d)'
    BY DEF ReceivedOK
  <2>1. Firing(d)' = Firing(d) /\ Woke(d)' = Woke(d) /\ given'[d] = given[d]
    BY <1>1 DEF Firing, Woke
  <2>2. CASE d = e
    BY <1>1, <1>3, <2>1, <2>2, SignalTaken
  <2>3. CASE d # e
    BY <1>0, <1>3, <2>1, <2>3, ReceivedKept DEF ReceivedOK
  <2> QED
    BY <2>2, <2>3
<1> QED
  BY <1>4, <1>5, <1>6, <1>7, <1>8, <1>9 DEF EInv

LEMMA CallWaitEvents ==
  ASSUME IInv, EInv, NEW t \in Thread, NEW e \in Event, NEW until \in Nat,
         CallWait(t, e, until)
  PROVE  EInv'
<1> DEFINE m == stack[t]
           n == IF signaled[e] THEN m ELSE Append(m, TimedWaiting(e, until))
<1>1. /\ MayCall(t, "wait") /\ TimedWait(t, e, until) /\ tasks' = tasks
      /\ IF signaled[e] THEN UNCHANGED stack ELSE Call(t, TimedWaiting(e, until))
  BY DEF CallWait, loopVars
<1>2. Idle(m) /\ m \in Seq(Frame)
  BY <1>1, CallerIsIdle
<1>3. Same(m, m)
  BY DEF Same
<1>4. stack' = [stack EXCEPT ![t] = n]
  <2>1. stack = [stack EXCEPT ![t] = m]
    BY Typed
  <2> QED
    BY <1>1, <2>1 DEF Call
<1> QED
  BY <1>1, <1>2, <1>3, <1>4, TimedWaitKeeps

LEMMA CallRunEvents ==
  ASSUME IInv, EInv, NEW allow \in BOOLEAN, NEW quit \in BOOLEAN, CallRun(allow, quit)
  PROVE  EInv'
<1> DEFINE s == stack[Loop]
           r == Running(quit)
           g == Signaling(Pump)
           m == Append(s, r)
           n == IF allow THEN Append(m, g) ELSE m
<1>1. /\ MayCall(Loop, "run") /\ UNCHANGED <<eventVars, watchVars, tasks>>
      /\ stack' = [stack EXCEPT ![Loop] = m \o IF allow THEN <<g>> ELSE <<>>]
      /\ Loop \in Thread
  BY Typed DEF CallRun
<1>2. Idle(s) /\ s \in Seq(Frame)
  BY <1>1, CallerIsIdle
<1>3. r \in Frame /\ r.op = "run" /\ g \in Frame /\ g.op = "signal"
  BY Typed DEF Running, RunFrame, Signaling, CallFrame, Frame
<1> HIDE DEF r, g
<1>4. Plain(r) /\ Plain(g)
  BY <1>3, PlainFrames
<1>5. m \in Seq(Frame) /\ Same(s, m) /\ Idle(m)
  BY <1>2, <1>3, <1>4, PushProperties, SamePush, IdleTop
<1> HIDE DEF m
<1>6. Same(m, Append(m, g)) /\ Idle(Append(m, g))
  BY <1>3, <1>4, <1>5, SamePush, IdleTop
<1>7. Same(s, n) /\ Idle(n)
  <2>1. Same(s, Append(m, g))
    BY <1>5, <1>6, SameTransitive
  <2> QED
    BY <1>5, <1>6, <2>1
<1>8. stack' = [stack EXCEPT ![Loop] = n]
  <2>1. m \o <<>> = m /\ m \o <<g>> = Append(m, g)
    BY <1>3, <1>5, PushIsConcat
  <2>2. (m \o IF allow THEN <<g>> ELSE <<>>) = n
    BY <2>1
  <2> QED
    BY <1>1, <2>2
<1> HIDE DEF n
<1> QED
  BY <1>1, <1>2, <1>7, <1>8, SameKeeps

\* Quit changes the frame of a Run, which holds nothing.
LEMMA CallQuitEvents ==
  ASSUME IInv, EInv, CallQuit
  PROVE  EInv'
<1> DEFINE s == stack[Loop]
<1>1. /\ MayCall(Loop, "quit") /\ UNCHANGED <<eventVars, watchVars, tasks>>
      /\ Loop \in Thread /\ s # <<>> /\ s[Len(s)].op = "task"
  BY Typed DEF CallQuit, MayCall, In, Top, loopVars
<1>2. Idle(s) /\ s \in Seq(Frame)
  BY <1>1, CallerIsIdle
<1>3. PICK inner \in 1 .. Len(s) :
        /\ s[inner].op = "run"
        /\ stack' = [stack EXCEPT ![Loop] =
                       [s EXCEPT ![inner] = [s[inner] EXCEPT !.quit = TRUE]]]
  BY QuitRun
<1> DEFINE f == [s[inner] EXCEPT !.quit = TRUE]
           n == [s EXCEPT ![inner] = f]
<1>4. stack' = [stack EXCEPT ![Loop] = n]
  BY <1>3
<1>5. s[inner] \in RunFrame
  <2>1. s[inner] \in Frame
    BY <1>2, <1>3, ElementOfSeq
  <2> QED
    BY <1>3, <2>1, FrameFields
<1>6. f \in RunFrame /\ f.op = "run"
  BY <1>5 DEF RunFrame
<1>7. f \in Frame
  BY <1>6 DEF Frame
<1> HIDE DEF f
<1>8. /\ n \in Seq(Frame) /\ Len(n) = Len(s) /\ n[inner] = f
      /\ \A j \in 1 .. Len(s) : j # inner => n[j] = s[j]
  BY <1>2, <1>3, <1>7, ExceptSeq
<1> HIDE DEF n
<1>9. \A j \in 1 .. Len(s) : n[j] = s[j] \/ (n[j].op = "run" /\ s[j].op = "run")
  BY <1>3, <1>6, <1>8
<1>10. \A j \in 1 .. Len(s) : \A e : Holds(n[j], e) <=> Holds(s[j], e)
  BY <1>9 DEF Holds
<1>11. Same(s, n)
  <2>1. \A e : /\ Held(s, e) <=> Held(n, e)
               /\ HeldOnce(s, e) <=> HeldOnce(n, e)
    BY <1>8, <1>10 DEF Held, HeldOnce
  <2>2. \A e : Finds(s, e) <=> Finds(n, e)
    <3>1. \A j \in 1 .. Len(s) : n[j].op = s[j].op
      BY <1>9
    <3> QED
      BY <1>8, <1>10, <3>1 DEF Finds
  <2>3. \A e : Fires(s, e) <=> Fires(n, e)
    BY <1>8, <1>9 DEF Fires
  <2>4. \A i : Posts(s, i) <=> Posts(n, i)
    BY <1>8, <1>9 DEF Posts
  <2> QED
    BY <2>1, <2>2, <2>3, <2>4 DEF Same
<1>12. Idle(n)
  <2>1. Len(s) \in 1 .. Len(s)
    <3>1. Len(s) \in Nat /\ Len(s) # 0
      BY <1>1, <1>2, EmptySeq, LenProperties
    <3> QED
      BY <3>1
  <2>2. n # <<>>
    BY <1>1, <1>2, <1>8, EmptySeq
  <2>3. n[Len(n)].op = "task"
    BY <1>1, <1>8, <1>9, <2>1
  <2> QED
    BY <2>2, <2>3 DEF Idle, WaitsFor, Awaits, FiredAt, MayBeFiredBy
<1> QED
  BY <1>1, <1>2, <1>4, <1>11, <1>12, SameKeeps

LEMMA NothingHappens ==
  ASSUME IInv, EInv, UNCHANGED <<stack, eventVars, watchVars, tasks>>
  PROVE  EInv'
<1>1. UNCHANGED <<stack, lock, signaled, waiters, fired, given, taken, cancel_flag, kernel,
                  set_flags, starts, watched, tasks>>
  BY DEF eventVars, watchVars
<1>2. LocksOK' /\ FiredOK' /\ WatchersOK'
  BY <1>1 DEF EInv, LocksOK, FiredOK, WatchersOK
<1>3. WaitersOK'
  <2>1. \A d : \A x : WaiterOK(d, x)' <=> WaiterOK(d, x)
    BY <1>1 DEF WaiterOK
  <2> QED
    BY <1>1, <2>1 DEF EInv, WaitersOK
<1>4. PostedOK'
  <2>1. \A f : Posted(f)' <=> Posted(f)
    BY <1>1 DEF Posted, Number
  <2> QED
    BY <1>1, <2>1 DEF EInv, PostedOK
<1>5. ReceivedOK'
  BY <1>1 DEF EInv, ReceivedOK, Received, Pending, Woke, Firing
<1> QED
  BY <1>2, <1>3, <1>4, <1>5 DEF EInv

----------------------------------------------------------------------------
(* The calls of the watchers.                                              *)

\* StartWatching gives out a Flag that nobody has.
LEMMA Fresh ==
  ASSUME IInv, NEW f, f = starts + 1
  PROVE  /\ f \in Nat \ {0} /\ f \notin set_flags /\ ~Posted(f)
         /\ 1 .. f = (1 .. starts) \cup {f} /\ f \notin 1 .. starts
         /\ \A v \in Watcher : cancel_flag[v] # f
         /\ \A e \in Event : \A x \in ToSet(waiters[e]) : x.flag # f
<1>1. FlagsOK /\ TasksOK
  BY DEF IInv, TypesOK
<1>2. starts \in Nat /\ set_flags \subseteq 1 .. starts
  BY Typed
<1>3. f \in Nat \ {0} /\ f \notin set_flags /\ ~(f <= starts)
      /\ 1 .. f = (1 .. starts) \cup {f} /\ f \notin 1 .. starts
  BY <1>2
<1>4. ~Posted(f)
  <2>1. \A i \in Number : tasks[i].flag # f
    BY <1>1, <1>3 DEF TasksOK
  <2>2. \A t \in Thread : ~Posts(stack[t], f)
    BY <1>1, <1>3 DEF FlagsOK, Posts
  <2> QED
    BY <2>1, <2>2 DEF Posted
<1>5. \A v \in Watcher : cancel_flag[v] # f
  BY <1>1, <1>3 DEF FlagsOK
<1>6. ASSUME NEW e \in Event, NEW x \in ToSet(waiters[e])
      PROVE  x.flag # f
  <2>1. PICK i \in 1 .. Len(waiters[e]) : waiters[e][i] = x
    BY Typed, ElementsAre
  <2>2. waiters[e][i].flag <= starts
    BY <1>1 DEF FlagsOK
  <2> QED
    BY <1>3, <2>1, <2>2
<1> QED
  BY <1>3, <1>4, <1>5, <1>6

\* A watcher that begins another watch has none that is on.
LEMMA StartsAnew ==
  ASSUME IInv, EInv, NEW w \in Watcher, NEW f, f = starts + 1,
         cancel_flag[w] = 0 \/ cancel_flag[w] \in set_flags,
         cancel_flag' = [cancel_flag EXCEPT ![w] = f],
         watched' = [watched EXCEPT ![w] = f]
  PROVE  /\ WatchersOK' /\ watched'[w] = f
         /\ \A v \in Watcher : watched[v] # 0 /\ watched[v] \notin set_flags =>
              v # w /\ watched'[v] = watched[v]
<1>1. WatchersOK
  BY DEF EInv
<1>2. /\ watched'[w] = f /\ cancel_flag'[w] = f
      /\ \A v \in Watcher : v # w => watched'[v] = watched[v] /\ cancel_flag'[v] = cancel_flag[v]
  BY Typed
<1>3. \A v \in Watcher : watched[v] = cancel_flag[v] /\ watched[v] # f
  BY <1>1, Fresh DEF WatchersOK
<1>4. cancel_flag' = watched'
  BY <1>1 DEF WatchersOK
<1>5. WatchersOK'
  BY <1>1, <1>2, <1>3, <1>4 DEF WatchersOK
<1> QED
  BY <1>2, <1>3, <1>5

\* The event is signaled: the task is posted, with the event's lock held.
LEMMA StartSignaledEvents ==
  ASSUME IInv, EInv, NEW w \in Watcher, NEW e \in Event, CallStart(w, e), signaled[e]
  PROVE  EInv'
<1> DEFINE f == starts + 1
           s == stack[Loop]
           a == Starting(e)
           b == Posting([nestable |-> TRUE, time |-> 0, flag |-> f])
           m == Append(s, a)
           n == Append(m, b)
<1>0. LocksOK /\ FiredOK /\ WaitersOK /\ WatchersOK /\ PostedOK /\ ReceivedOK
  BY DEF EInv
<1>1. /\ MayCall(Loop, "watch") /\ Free(e)
      /\ cancel_flag[w] = 0 \/ cancel_flag[w] \in set_flags
      /\ starts' = f /\ Consume(e) /\ lock' = [lock EXCEPT ![e] = Loop]
      /\ cancel_flag' = [cancel_flag EXCEPT ![w] = f]
      /\ watched' = [watched EXCEPT ![w] = f]
      /\ stack' = [stack EXCEPT ![Loop] = s \o <<a, b>>]
      /\ UNCHANGED <<waiters, kernel, fired, given, set_flags, tasks>>
  BY DEF CallStart, StartWatching, loopVars
<1>2. Loop \in Thread /\ Idle(s) /\ s \in Seq(Frame)
  BY <1>1, Typed, CallerIsIdle
<1>3. /\ f \in Nat \ {0} /\ f \notin set_flags /\ ~Posted(f)
      /\ 1 .. f = (1 .. starts) \cup {f} /\ f \notin 1 .. starts
      /\ \A d \in Event : \A x \in ToSet(waiters[d]) : x.flag # f
  BY Fresh
<1>4. a \in Frame /\ a.op = "start" /\ a.ev = e
  BY DEF Starting, CallFrame, Frame
<1>5. b \in Frame /\ b.op = "post" /\ b.task.flag = f
  <2> DEFINE task == [nestable |-> TRUE, time |-> 0, flag |-> f]
  <2>1. 0 \in 0 .. MaxTime
    BY LoopConstantsOK
  <2>2. task \in PostedTask /\ task.flag = f
    BY <1>3, <2>1 DEF PostedTask
  <2> HIDE DEF task
  <2>3. Posting(task) \in Frame /\ Posting(task).op = "post" /\ Posting(task).task = task
    BY <2>2 DEF Posting, CallFrame, Frame
  <2> QED
    BY <2>2, <2>3 DEF task
<1> HIDE DEF a, b
<1>6. s \o <<a, b>> = n /\ m \in Seq(Frame)
  BY <1>2, <1>4, <1>5, PushIsConcat, PushProperties
<1>7. stack' = [stack EXCEPT ![Loop] = n]
  BY <1>1, <1>6
<1>8. /\ WatchersOK' /\ watched'[w] = f
      /\ \A v \in Watcher : watched[v] # 0 /\ watched[v] \notin set_flags =>
           v # w /\ watched'[v] = watched[v]
  BY <1>1, StartsAnew
<1>9. /\ \A d : Held(m, d) <=> Held(s, d) \/ Holds(a, d)
      /\ \A d : HeldOnce(m, d) <=> HeldOnce(s, d) /\ (Holds(a, d) => ~Held(s, d))
      /\ \A d : Finds(m, d) <=> Finds(s, d) \/ (Holds(a, d) /\ a.op # "start")
      /\ \A d : Fires(m, d) <=> Fires(s, d) \/ (a.op = "fire" /\ a.ev = d /\ ~a.woke)
      /\ \A g : Posts(m, g) <=> Posts(s, g) \/ (a.op = "post" /\ a.task.flag = g)
  BY <1>2, <1>4, OnTop
<1> HIDE DEF m
<1>10. /\ \A d : Held(n, d) <=> Held(m, d) \/ Holds(b, d)
       /\ \A d : HeldOnce(n, d) <=> HeldOnce(m, d) /\ (Holds(b, d) => ~Held(m, d))
       /\ \A d : Finds(n, d) <=> Finds(m, d) \/ (Holds(b, d) /\ b.op # "start")
       /\ \A d : Fires(n, d) <=> Fires(m, d) \/ (b.op = "fire" /\ b.ev = d /\ ~b.woke)
       /\ \A g : Posts(n, g) <=> Posts(m, g) \/ (b.op = "post" /\ b.task.flag = g)
       /\ Idle(n)
  <2>1. Idle(n)
    BY <1>5, <1>6, IdleTop
  <2> QED
    BY <1>5, <1>6, <2>1, OnTop
<1> HIDE DEF n, f
<1>11. (\A d : Holds(a, d) <=> d = e) /\ (\A d : ~Holds(b, d))
  BY <1>4, <1>5 DEF Holds
<1>12. /\ \A d : Held(n, d) <=> Held(s, d) \/ d = e
       /\ \A d : HeldOnce(n, d) <=> HeldOnce(s, d) /\ (d = e => ~Held(s, d))
       /\ \A d : Finds(n, d) <=> Finds(s, d)
       /\ \A d : Fires(n, d) <=> Fires(s, d)
       /\ \A g : Posts(n, g) <=> Posts(s, g) \/ g = f
  BY <1>4, <1>5, <1>9, <1>10, <1>11
<1>13. lock[e] = Nobody /\ lock'[e] = Loop /\ Loop # Nobody
       /\ \A d \in Event : d # e => lock'[d] = lock[d]
  BY <1>1, Typed DEF Free
<1>14. \A d \in Event : signaled'[d] => signaled[d]
  BY <1>1, ConsumeProperties
<1>15. LocksOK'
  <2>1. ~Held(s, e)
    BY <1>0, <1>2, <1>13 DEF LocksOK
  <2>2. \A d \in Event : /\ Held(n, d) => lock'[d] = Loop
                         /\ HeldOnce(n, d)
                         /\ Finds(n, d) => ~signaled'[d]
    BY <1>0, <1>2, <1>12, <1>13, <1>14, <2>1 DEF LocksOK
  <2>3. \A d \in Event : lock[d] \notin {Loop, Nobody} =>
          lock'[d] = lock[d] /\ (signaled'[d] => signaled[d])
    BY <1>13, <1>14
  <2> QED
    BY <1>0, <1>2, <1>7, <2>2, <2>3, LocksKept
<1>16. FiredOK'
  BY <1>1, <1>2, <1>7, <1>10, FiredIdle
<1>17. WaitersOK'
  <2> SUFFICES ASSUME NEW d \in Event, NEW x \in ToSet(waiters[d])
               PROVE  WaiterOK(d, x)'
    BY <1>0, <1>1, <1>14 DEF WaitersOK
  <2>1. WaiterOK(d, x)
    BY <1>0 DEF WaitersOK
  <2>2. x.flag = 0 => x.thread # Loop
    BY <1>0, <1>2, NotListed DEF Idle
  <2>3. \A v \in Thread : v # Loop => stack'[v] = stack[v]
    BY <1>7, Typed
  <2> QED
    BY <1>1, <1>8, <2>1, <2>2, <2>3 DEF WaiterOK
<1>18. \A g : Posted(g)' => Posted(g) \/ g = f
  <2>1. \A u \in Thread : u # Loop => stack'[u] = stack[u]
    BY <1>7, Typed
  <2>2. stack'[Loop] = n
    BY <1>2, <1>7, Typed
  <2> QED
    BY <1>1, <1>2, <1>12, <2>1, <2>2 DEF Posted, Number
<1>19. PostedOK'
  <2>1. ASSUME NEW g \in 1 .. starts', Posted(g)', g \notin set_flags'
        PROVE  \E v \in Watcher : watched'[v] = g
    <3>1. CASE g = f
      BY <1>8, <3>1
    <3>2. CASE g # f
      <4>1. g \in 1 .. starts /\ Posted(g) /\ g \notin set_flags
        BY <1>1, <1>3, <1>18, <2>1, <3>2
      <4>2. g # 0
        BY <4>1
      <4> QED
        BY <1>0, <1>8, <4>1, <4>2 DEF PostedOK
    <3> QED
      BY <3>1, <3>2
  <2>2. \A d \in Event : \A x \in ToSet(waiters'[d]) : x.flag # 0 => ~Posted(x.flag)'
    BY <1>0, <1>1, <1>3, <1>18 DEF PostedOK
  <2> QED
    BY <2>1, <2>2 DEF PostedOK
<1>20. ReceivedOK'
  <2> SUFFICES ASSUME NEW d \in Event \ Manual PROVE Received(d)'
    BY DEF ReceivedOK
  <2>1. Firing(d)' = Firing(d)
    BY <1>2, <1>7, <1>12, FiringChanges
  <2>2. Woke(d)' = Woke(d)
    BY <1>1 DEF Woke
  <2> QED
    BY <1>1, <2>1, <2>2, ConsumeProperties
<1> QED
  BY <1>8, <1>15, <1>16, <1>17, <1>19, <1>20 DEF EInv

\* The event is not signaled: the waiter is put in its list.
LEMMA StartListedEvents ==
  ASSUME IInv, EInv, NEW w \in Watcher, NEW e \in Event, CallStart(w, e), ~signaled[e]
  PROVE  EInv'
<1> DEFINE f == starts + 1
           x == AsyncWaiter(f)
<1>0. LocksOK /\ FiredOK /\ WaitersOK /\ WatchersOK /\ PostedOK /\ ReceivedOK
  BY DEF EInv
<1>1. /\ cancel_flag[w] = 0 \/ cancel_flag[w] \in set_flags
      /\ starts' = f
      /\ cancel_flag' = [cancel_flag EXCEPT ![w] = f]
      /\ watched' = [watched EXCEPT ![w] = f]
      /\ waiters' = [waiters EXCEPT ![e] = Append(@, x)]
      /\ kernel' = [kernel EXCEPT ![w] = e]
      /\ UNCHANGED <<stack, lock, signaled, fired, given, taken, set_flags, tasks>>
  BY DEF CallStart, StartWatching, loopVars
<1>2. /\ f \in Nat \ {0} /\ f \notin set_flags /\ ~Posted(f)
      /\ 1 .. f = (1 .. starts) \cup {f} /\ f \notin 1 .. starts
      /\ \A d \in Event : \A y \in ToSet(waiters[d]) : y.flag # f
  BY Fresh
<1>3. /\ WatchersOK' /\ watched'[w] = f
      /\ \A v \in Watcher : watched[v] # 0 /\ watched[v] \notin set_flags =>
           v # w /\ watched'[v] = watched[v]
  BY <1>1, StartsAnew
<1>4. x \in Waiter /\ x.flag = f /\ x.thread = Nobody
  BY <1>2 DEF AsyncWaiter, Waiter
<1> HIDE DEF f, x
<1>5. /\ Distinct(waiters'[e]) /\ ToSet(waiters'[e]) = ToSet(waiters[e]) \cup {x}
      /\ \A d \in Event : d # e => waiters'[d] = waiters[d]
  <2>1. x \notin ToSet(waiters[e]) /\ Distinct(waiters[e])
    BY <1>0, <1>2, <1>4 DEF WaitersOK
  <2> QED
    BY <1>1, <1>4, <2>1, Enlisted, Typed
<1>6. kernel'[w] = e /\ \A v \in Watcher : v # w => kernel'[v] = kernel[v]
  BY <1>1, Typed
<1>7. ASSUME NEW d \in Event, NEW y \in ToSet(waiters'[d])
      PROVE  WaiterOK(d, y)'
  <2>1. CASE y \in ToSet(waiters[d])
    <3>1. WaiterOK(d, y)
      BY <1>0, <2>1 DEF WaitersOK
    <3>2. y.flag # 0 => \E v \in Watcher : watched'[v] = y.flag /\ kernel'[v] = d
      BY <1>3, <1>6, <3>1 DEF WaiterOK
    <3> QED
      BY <1>1, <3>1, <3>2 DEF WaiterOK
  <2>2. CASE d = e /\ y = x
    BY <1>1, <1>2, <1>3, <1>4, <1>6, <2>2 DEF WaiterOK
  <2> QED
    BY <1>5, <2>1, <2>2
<1>8. WaitersOK'
  <2>1. \A d \in Event : Distinct(waiters'[d]) /\ (signaled'[d] => waiters'[d] = <<>>)
    BY <1>0, <1>1, <1>5 DEF WaitersOK
  <2> QED
    BY <1>7, <2>1 DEF WaitersOK
<1>9. LocksOK' /\ FiredOK' /\ ReceivedOK'
  BY <1>0, <1>1 DEF LocksOK, FiredOK, ReceivedOK, Received, Pending, Woke, Firing
<1>10. \A g : Posted(g)' <=> Posted(g)
  BY <1>1 DEF Posted, Number
<1>11. PostedOK'
  <2>1. ASSUME NEW g \in 1 .. starts', Posted(g)', g \notin set_flags'
        PROVE  \E v \in Watcher : watched'[v] = g
    <3>1. g \in 1 .. starts /\ Posted(g) /\ g \notin set_flags
      BY <1>1, <1>2, <1>10, <2>1
    <3>2. g # 0
      BY <3>1
    <3> QED
      BY <1>0, <1>3, <3>1, <3>2 DEF PostedOK
  <2>2. ASSUME NEW d \in Event, NEW y \in ToSet(waiters'[d]), y.flag # 0
        PROVE  ~Posted(y.flag)'
    <3>1. y \in ToSet(waiters[d]) \/ y.flag = f
      BY <1>4, <1>5
    <3> QED
      BY <1>0, <1>2, <1>10, <2>2, <3>1 DEF PostedOK
  <2> QED
    BY <2>1, <2>2 DEF PostedOK
<1> QED
  BY <1>3, <1>8, <1>9, <1>11 DEF EInv

\* A watch is over when no waiter has its Flag, and the Flag is set if there is a
\* task for it.
LEMMA WatchEnds ==
  ASSUME IInv, EInv, NEW w \in Watcher, NEW f, f = cancel_flag[w], f # 0,
         cancel_flag' = [cancel_flag EXCEPT ![w] = 0],
         watched' = [watched EXCEPT ![w] = 0],
         UNCHANGED <<stack, lock, signaled, fired, given, taken, kernel, starts, tasks>>,
         set_flags' = set_flags \/ set_flags' = set_flags \cup {f},
         \A d \in Event : /\ Distinct(waiters'[d]) /\ (signaled[d] => waiters'[d] = <<>>)
                          /\ \A y \in ToSet(waiters'[d]) : y \in ToSet(waiters[d]) /\ y.flag # f,
         Posted(f) => f \in set_flags'
  PROVE  EInv'
<1>0. LocksOK /\ FiredOK /\ WaitersOK /\ WatchersOK /\ PostedOK /\ ReceivedOK
  BY DEF EInv
<1>1. /\ watched'[w] = 0 /\ cancel_flag'[w] = 0
      /\ \A v \in Watcher : v # w => watched'[v] = watched[v] /\ cancel_flag'[v] = cancel_flag[v]
  BY Typed
<1>2. \A v \in Watcher : watched[v] # 0 /\ watched[v] # f => watched'[v] = watched[v]
  BY <1>0, <1>1 DEF WatchersOK
<1>3. LocksOK' /\ FiredOK' /\ ReceivedOK'
  BY <1>0 DEF LocksOK, FiredOK, ReceivedOK, Received, Pending, Woke, Firing
<1>4. WaitersOK'
  <2>1. ASSUME NEW d \in Event, NEW y \in ToSet(waiters'[d])
        PROVE  WaiterOK(d, y)'
    <3>1. y \in ToSet(waiters[d]) /\ y.flag # f
      OBVIOUS
    <3>2. WaiterOK(d, y)
      BY <1>0, <3>1 DEF WaitersOK
    <3>3. y.flag # 0 => \E v \in Watcher : watched'[v] = y.flag /\ kernel'[v] = d
      BY <1>2, <3>1, <3>2 DEF WaiterOK
    <3> QED
      BY <3>1, <3>2, <3>3 DEF WaiterOK
  <2> QED
    BY <2>1 DEF WaitersOK
<1>5. WatchersOK'
  <2>1. cancel_flag' = watched'
    BY <1>0 DEF WatchersOK
  <2> QED
    BY <1>0, <1>1, <2>1 DEF WatchersOK
<1>6. \A g : Posted(g)' <=> Posted(g)
  BY DEF Posted, Number
<1>7. PostedOK'
  <2>1. ASSUME NEW g \in 1 .. starts', Posted(g)', g \notin set_flags'
        PROVE  \E v \in Watcher : watched'[v] = g
    <3>1. g \in 1 .. starts /\ Posted(g) /\ g \notin set_flags /\ g # f
      BY <1>6, <2>1
    <3>2. g # 0
      BY <3>1
    <3> QED
      BY <1>0, <1>2, <3>1, <3>2 DEF PostedOK
  <2>2. \A d \in Event : \A y \in ToSet(waiters'[d]) : y.flag # 0 => ~Posted(y.flag)'
    BY <1>0, <1>6 DEF PostedOK
  <2> QED
    BY <2>1, <2>2 DEF PostedOK
<1> QED
  BY <1>3, <1>4, <1>5, <1>7 DEF EInv

\* The waiter of a watch is in the list of kernel_, or in none.
LEMMA ItsWaiter ==
  ASSUME IInv, EInv, NEW w \in Watcher, cancel_flag[w] # 0, NEW d \in Event,
         NEW y \in ToSet(waiters[d]), y.flag = cancel_flag[w]
  PROVE  d = kernel[w] /\ y = AsyncWaiter(cancel_flag[w]) /\ cancel_flag[w] \notin set_flags
<1>1. WaiterOK(d, y) /\ WatchersOK
  BY DEF EInv, WaitersOK
<1>2. y.thread = Nobody /\ y.flag \notin set_flags
  BY <1>1 DEF WaiterOK
<1>3. PICK v \in Watcher : watched[v] = y.flag /\ kernel[v] = d
  BY <1>1 DEF WaiterOK
<1>4. v = w
  BY <1>1, <1>3 DEF WatchersOK
<1>5. y \in Waiter
  BY Typed, ElementsAre
<1>6. y = AsyncWaiter(cancel_flag[w])
  BY <1>2, <1>5 DEF Waiter, AsyncWaiter
<1> QED
  BY <1>2, <1>3, <1>4, <1>6

\* StopWatching, and the three cases of where the callback is.
LEMMA CallStopEvents ==
  ASSUME IInv, EInv, NEW w \in Watcher, CallStop(w)
  PROVE  EInv'
<1> DEFINE f == cancel_flag[w]
           k == kernel[w]
           x == AsyncWaiter(f)
<1>0. WaitersOK /\ WatchersOK /\ PostedOK
  BY DEF EInv
<1>1. /\ f # 0 /\ cancel_flag' = [cancel_flag EXCEPT ![w] = 0]
      /\ watched' = [watched EXCEPT ![w] = 0]
      /\ UNCHANGED <<stack, lock, signaled, fired, given, taken, kernel, starts, tasks>>
      /\ IF f \in set_flags THEN UNCHANGED <<waiters, set_flags>> ELSE Cancel(w)
  BY DEF CallStop, StopWatching, loopVars
<1>2. \A d \in Event : \A y \in ToSet(waiters[d]) :
        y.flag = f => d = k /\ y = x /\ f \notin set_flags
  BY <1>1, ItsWaiter
<1>3. k \in Event \cup {Nobody} /\ Nobody \notin Event
  BY Typed
<1>4. \A d \in Event : Distinct(waiters[d]) /\ (signaled[d] => waiters[d] = <<>>)
  BY <1>0 DEF WaitersOK
<1>5. CASE f \in set_flags
  <2>1. waiters' = waiters /\ set_flags' = set_flags
    BY <1>1, <1>5
  <2>2. \A d \in Event : \A y \in ToSet(waiters[d]) : y.flag # f
    BY <1>2, <1>5
  <2>3. Posted(f) => f \in set_flags'
    BY <1>5, <2>1
  <2> HIDE DEF k, x
  <2> QED
    BY <1>1, <1>4, <2>1, <2>2, <2>3, WatchEnds
<1>6. CASE f \notin set_flags
  <2>1. Cancel(w)
    BY <1>1, <1>6
  <2>2. CASE k # Nobody /\ Listed(k, x)
    <3>1. waiters' = [waiters EXCEPT ![k] = Without(@, x)] /\ set_flags' = set_flags
          /\ k \in Event
      BY <1>3, <2>1, <2>2 DEF Cancel
    <3>2. x \in ToSet(waiters[k])
      BY <2>2 DEF Listed, ToSet
    <3> HIDE DEF x
    <3>3. /\ \A d \in Event : /\ Distinct(waiters'[d]) /\ (signaled[d] => waiters'[d] = <<>>)
                              /\ \A y \in ToSet(waiters'[d]) : y \in ToSet(waiters[d])
          /\ waiters' # waiters => \A y \in ToSet(waiters'[k]) : y # x
      BY <3>1, ListsKept
    <3>4. x \notin ToSet(waiters'[k])
      <4>1. waiters'[k] = Without(waiters[k], x) /\ waiters[k] \in Seq(Waiter)
        BY <3>1, Typed
      <4> QED
        BY <1>4, <3>1, <4>1, ElementsWithout
    <3>5. \A d \in Event : \A y \in ToSet(waiters'[d]) : y.flag # f
      BY <1>2, <3>3, <3>4
    <3>6. ~Posted(f)
      <4>1. x.flag = f
        BY DEF AsyncWaiter, x
      <4> QED
        BY <1>0, <1>1, <3>1, <3>2, <4>1 DEF PostedOK
    <3> HIDE DEF f, k
    <3> QED
      BY <1>1, <3>1, <3>3, <3>5, <3>6, WatchEnds DEF f
  <2>3. CASE ~(k # Nobody /\ Listed(k, x))
    <3>1. waiters' = waiters /\ set_flags' = set_flags \cup {f}
      BY <2>1, <2>3 DEF Cancel
    <3>2. \A d \in Event : \A y \in ToSet(waiters[d]) : y.flag # f
      <4> SUFFICES ASSUME NEW d \in Event, NEW y \in ToSet(waiters[d]), y.flag = f
                   PROVE  FALSE
        OBVIOUS
      <4>1. d = k /\ y = x
        BY <1>2
      <4>2. Listed(k, x)
        BY <4>1 DEF Listed, ToSet
      <4> QED
        BY <1>3, <2>3, <4>1, <4>2
    <3> QED
      BY <1>1, <1>4, <3>1, <3>2, WatchEnds
  <2> QED
    BY <2>2, <2>3
<1> QED
  BY <1>5, <1>6

----------------------------------------------------------------------------
(* The invariant.                                                          *)

LEMMA MakeCallEvents ==
  ASSUME IInv, EInv, MakeCall
  PROVE  EInv'
<1>1. now \in Nat /\ now + 1 \in Nat
  BY DEF IInv, TypesOK, EventTypeOK
<1>2. CASE \E t \in Thread, nestable \in Nestable, delay \in Delays : CallPost(t, nestable, delay)
  BY <1>2, CallPostEvents
<1>3. CASE \E t \in Thread, e \in Event \ {Pump} :
             CallSignal(t, e) \/ CallReset(t, e) \/ CallWait(t, e, 0) \/ CallWait(t, e, now + 1)
  BY <1>1, <1>3, CallSignalEvents, CallResetEvents, CallWaitEvents
<1>4. CASE \E t \in Thread, d, e \in Event \ {Pump} : d # e /\ CallWaitMany(t, <<d, e>>)
  BY <1>4, CallWaitManyEvents
<1>5. CASE \E w \in Watcher : CallStop(w) \/ \E e \in Event \ {Pump} : CallStart(w, e)
  BY <1>5, CallStopEvents, StartSignaledEvents, StartListedEvents
<1>6. CASE \E allow, quit \in BOOLEAN : CallRun(allow, quit)
  BY <1>6, CallRunEvents
<1>7. CASE CallQuit
  BY <1>7, CallQuitEvents
<1>8. CASE CallQuitNow
  BY <1>8, NothingHappens DEF CallQuitNow
<1> QED
  BY <1>2, <1>3, <1>4, <1>5, <1>6, <1>7, <1>8 DEF MakeCall

LEMMA NextEvents ==
  ASSUME IInv, EInv, [Next]_vars
  PROVE  EInv'
<1>1. CASE \E t \in Thread : Step(t)
  BY <1>1, EventStepEvents, PostEvents, LoopStepEvents DEF Step
<1>2. CASE MakeCall
  BY <1>2, MakeCallEvents
<1>3. CASE Tick \/ UNCHANGED vars
  BY <1>3, NothingHappens DEF Tick, vars, loopVars
<1> QED
  BY <1>1, <1>2, <1>3 DEF Next

\* Nothing is waited for, signaled or watched.
LEMMA InitEvents ==
  ASSUME Init
  PROVE  EInv
<1> DEFINE r == Running(FALSE)
<1>1. /\ lock = [e \in Event |-> Nobody]
      /\ signaled = [e \in Event |-> FALSE]
      /\ waiters = [e \in Event |-> <<>>]
      /\ fired = [t \in Thread |-> Disabled]
      /\ cancel_flag = [w \in Watcher |-> 0] /\ watched = [w \in Watcher |-> 0]
      /\ starts = 0
      /\ given = [e \in Event |-> 0] /\ taken = [e \in Event |-> 0]
      /\ stack = [t \in Thread |-> IF t = Loop THEN <<r>> ELSE <<>>]
  BY DEF Init, EventInit
<1>2. r \in Frame /\ r.op = "run"
  BY DEF Running, RunFrame, Frame
<1> HIDE DEF r
<1>3. <<r>> = Append(<<>>, r) /\ <<>> \in Seq(Frame)
  BY EmptySeq
<1>4. Plain(r)
  BY <1>2, PlainFrames
<1>5. Same(<<>>, <<r>>) /\ Idle(<<r>>)
  <2>1. Same(<<>>, Append(<<>>, r)) /\ Idle(Append(<<>>, r))
    BY <1>2, <1>3, <1>4, SamePush, IdleTop
  <2> QED
    BY <1>3, <2>1
<1>6. ASSUME NEW t \in Thread
      PROVE  /\ \A e : ~Held(stack[t], e) /\ HeldOnce(stack[t], e) /\ ~Finds(stack[t], e)
                       /\ ~Fires(stack[t], e)
             /\ FiredAt(stack[t], Disabled)
  <2>1. stack[t] = <<>> \/ stack[t] = <<r>>
    BY <1>1
  <2> QED
    BY <1>5, <2>1, OnNone DEF Same, Idle
<1>7. LocksOK /\ FiredOK
  BY <1>1, <1>6 DEF LocksOK, FiredOK
<1>8. \A e \in Event : ToSet(waiters[e]) = {} /\ Distinct(waiters[e]) /\ waiters[e] = <<>>
  BY <1>1, ElementsOfNone
<1>9. WaitersOK
  BY <1>8 DEF WaitersOK
<1>10. WatchersOK
  BY <1>1 DEF WatchersOK
<1>11. PostedOK
  <2>1. 1 .. starts = {}
    BY <1>1
  <2> QED
    BY <1>8, <2>1 DEF PostedOK
<1>12. ReceivedOK
  <2> SUFFICES ASSUME NEW e \in Event \ Manual PROVE Received(e)
    BY DEF ReceivedOK
  <2>1. Woke(e) = {}
    BY <1>1, FiredByAnEvent DEF Woke
  <2>2. Firing(e) = {}
    BY <1>6 DEF Firing
  <2>3. Pending(e) = 0 /\ given[e] = 0 /\ taken[e] = 0
    BY <1>1 DEF Pending
  <2>4. Cardinality(Woke(e)) = 0 /\ Cardinality(Firing(e)) = 0
    BY <2>1, <2>2, FS_EmptySet
  <2> QED
    BY <2>3, <2>4 DEF Received
<1> QED
  BY <1>7, <1>9, <1>10, <1>11, <1>12 DEF EInv

LEMMA EventsInvariance ==
  Spec => [](IInv /\ EInv)
<1>1. Init => IInv /\ EInv
  BY InitInv, InitEvents
<1>2. IInv /\ EInv /\ [Next]_vars => (IInv /\ EInv)'
  BY NextInv, NextEvents
<1> QED
  BY <1>1, <1>2, PTL DEF Spec

----------------------------------------------------------------------------
(* Theorems.                                                               *)

LEMMA WaitersWait ==
  ASSUME IInv, EInv
  PROVE  ListedWaiterWaits
<1> SUFFICES ASSUME NEW e \in Event, NEW i \in DOMAIN waiters[e]
             PROVE  LET waiter == waiters[e][i]
                    IN  IF waiter.flag = 0 THEN signaled[e] => fired[waiter.thread] # Waiting
                        ELSE ~signaled[e] /\ \E w \in Watcher : watched[w] = waiter.flag
  BY DEF ListedWaiterWaits
<1>1. waiters[e] \in Seq(Waiter) /\ DOMAIN waiters[e] = 1 .. Len(waiters[e])
  BY Typed, LenProperties
<1>2. waiters[e] # <<>>
  BY <1>1, EmptySeq
<1>3. ~signaled[e] /\ WaiterOK(e, waiters[e][i])
  BY <1>1, <1>2, ElementsAre DEF EInv, WaitersOK
<1> QED
  BY <1>3 DEF WaiterOK

\* What is in an event's list waits, and misses nothing: the waiter of a watcher is
\* that of the watch that is on, so that a Fire that says it took the signal never
\* does so in vain; and nobody waits for an event that is signaled
\* (waitable_event_posix.cc, Signal, TimedWait, EnqueueMany;
\* waitable_event_watcher_posix.cc, StartWatching, StopWatching).
THEOREM WaitersMissNothing == Spec => []ListedWaiterWaits
<1>1. IInv /\ EInv => ListedWaiterWaits
  BY WaitersWait
<1> QED
  BY <1>1, EventsInvariance, PTL

LEMMA SignalsBalance ==
  ASSUME IInv, EInv
  PROVE  SignalIsReceivedOnce
<1> SUFFICES ASSUME NEW e \in Event \ Manual
             PROVE  given[e] = taken[e]
                      + (IF signaled[e] THEN 1 ELSE 0)
                      + Cardinality({t \in Thread : fired[t] = e})
                      + Cardinality({t \in Thread : \E i \in DOMAIN stack[t] :
                          stack[t][i].op = "fire" /\ stack[t][i].ev = e /\ ~stack[t][i].woke})
  BY DEF SignalIsReceivedOnce
<1>1. Received(e)
  BY DEF EInv, ReceivedOK
<1>2. \A t \in Thread : DOMAIN stack[t] = 1 .. Len(stack[t])
  BY Typed, LenProperties
<1>3. {t \in Thread : \E i \in DOMAIN stack[t] :
         stack[t][i].op = "fire" /\ stack[t][i].ev = e /\ ~stack[t][i].woke} = Firing(e)
  BY <1>2 DEF Firing, Fires
<1> QED
  BY <1>1, <1>3 DEF Received, Pending, Woke

\* Every Signal of an auto-reset event that found it reset is received, once: by
\* a wait, by a callback or by a reset, or it is still to be received.  A time-out,
\* or another event that fires the same waiter first, does not swallow it
\* (waitable_event_posix.cc, SyncWaiter::Fire, Disable, SignalOne, WaitMany).
THEOREM SignalsAreReceivedOnce == Spec => []SignalIsReceivedOnce
<1>1. IInv /\ EInv => SignalIsReceivedOnce
  BY SignalsBalance
<1> QED
  BY <1>1, EventsInvariance, PTL

\* A delegate is called by a task that was posted, whose Flag was not set.
LEMMA TasksAreHeard ==
  ASSUME IInv, NEW id \in Number, RunCallback(tasks[id].flag)
  PROVE  \A f \in heard' \ heard : Posted(f) /\ f \in 1 .. starts /\ f \notin set_flags
<1> SUFFICES ASSUME NEW f \in heard' \ heard
             PROVE  Posted(f) /\ f \in 1 .. starts /\ f \notin set_flags
  OBVIOUS
<1>1. f = tasks[id].flag /\ f # 0 /\ f \notin set_flags
  BY DEF RunCallback
<1>2. Posted(f)
  BY <1>1 DEF Posted
<1>3. tasks \in Seq(PostedTask) /\ tasks[id].flag <= starts
  BY DEF IInv, TypesOK, TasksOK
<1>4. tasks[id] \in PostedTask
  BY <1>3, ElementOfSeq DEF Number
<1>5. f \in Nat /\ f <= starts /\ starts \in Nat
  BY <1>1, <1>3, <1>4, Typed DEF PostedTask
<1>6. f \in 1 .. starts
  BY <1>1, <1>5
<1> QED
  BY <1>1, <1>2, <1>6

LEMMA RunsAreHeard ==
  ASSUME IInv, DoWork \/ DoDelayedWork \/ RunDeferred
  PROVE  heard' = heard \/ \E id \in Number : RunCallback(tasks[id].flag)
<1>0. QueuesOK
  BY DEF IInv, TypesOK
<1>1. CASE DoWork
  <2>1. work # <<>>
    BY <1>1 DEF DoWork
  <2>2. Head(work) \in Number
    BY <1>0, <2>1, ElementsOfTail DEF QueuesOK
  <2> QED
    BY <1>1, <2>2 DEF DoWork, RunTask, DeferTask, watchVars
<1>2. CASE DoDelayedWork
  <2>1. delayed # <<>>
    BY <1>2 DEF DoDelayedWork, DelayedIsDue
  <2>2. Head(delayed) \in Number
    BY <1>0, <2>1, ElementsOfTail DEF QueuesOK
  <2> QED
    BY <1>2, <2>2 DEF DoDelayedWork, RunTask, DeferTask, watchVars
<1>3. CASE RunDeferred
  <2>1. deferred # <<>>
    BY <1>3 DEF RunDeferred
  <2>2. Head(deferred) \in Number
    BY <1>0, <2>1, ElementsOfTail DEF QueuesOK
  <2> QED
    BY <1>3, <2>2 DEF RunDeferred, RunTask
<1> QED
  BY <1>1, <1>2, <1>3

\* Nothing else calls one.
LEMMA WhoIsHeard ==
  ASSUME IInv, [Next]_vars
  PROVE  heard' = heard \/ \E id \in Number : RunCallback(tasks[id].flag)
<1>1. ASSUME NEW t \in Thread, EventStep(t) \/ Post(t)
      PROVE  heard' = heard
  BY <1>1 DEF EventStep, Post, BeginSignal, FireWaiter, EndSignal, Wake, EndWait, LockNext,
              EnqueueMany, WakeMany, LeaveNext, EndMany, EndStart, watchVars
<1>2. CASE LoopStep
  <2>1. CASE DoWork \/ DoDelayedWork \/ RunDeferred
    BY <2>1, RunsAreHeard
  <2>2. CASE Sleep
    BY <2>2 DEF Sleep, TimedWait, watchVars
  <2>3. CASE ReloadWorkQueue \/ MoveDelayedTask \/ DoNoWork \/ DoNoDelayedWork
    BY <2>3 DEF ReloadWorkQueue, MoveDelayedTask, DoNoWork, DoNoDelayedWork, watchVars
  <2>4. CASE DoNoIdleWork \/ NextRound \/ EndRun \/ EndTask
    BY <2>4 DEF DoNoIdleWork, NextRound, EndRun, EndTask, watchVars
  <2> QED
    BY <1>2, <2>1, <2>2, <2>3, <2>4 DEF LoopStep
<1>3. CASE MakeCall
  <2>1. ASSUME NEW t \in Thread, NEW x, NEW y,
               \/ CallPost(t, x, y) \/ CallSignal(t, x) \/ CallReset(t, x) \/ CallWait(t, x, y)
               \/ CallWaitMany(t, x)
        PROVE  heard' = heard
    BY <2>1 DEF CallPost, CallSignal, CallReset, Reset, CallWait, TimedWait, CallWaitMany,
                WaitMany, watchVars
  <2>2. ASSUME NEW w \in Watcher, NEW e, CallStart(w, e) \/ CallStop(w)
        PROVE  heard' = heard
    BY <2>2 DEF CallStart, StartWatching, CallStop, StopWatching
  <2>3. ASSUME NEW allow, NEW quit, CallRun(allow, quit) \/ CallQuit \/ CallQuitNow
        PROVE  heard' = heard
    BY <2>3 DEF CallRun, CallQuit, CallQuitNow, watchVars
  <2> QED
    BY <1>3, <2>1, <2>2, <2>3 DEF MakeCall
<1>4. CASE Tick \/ UNCHANGED vars
  BY <1>4 DEF Tick, vars, watchVars
<1> QED
  BY <1>1, <1>2, <1>3, <1>4 DEF Next, Step

LEMMA HeardIsWatched ==
  ASSUME IInv, EInv, [Next]_vars
  PROVE  \A f \in heard' \ heard : \E w \in Watcher : watched[w] = f
<1>1. CASE heard' = heard
  BY <1>1
<1>2. CASE \E id \in Number : RunCallback(tasks[id].flag)
  <2>1. \A f \in heard' \ heard : Posted(f) /\ f \in 1 .. starts /\ f \notin set_flags
    BY <1>2, TasksAreHeard
  <2> QED
    BY <2>1 DEF EInv, PostedOK
<1> QED
  BY <1>1, <1>2, WhoIsHeard

\* A delegate is called only for the watch that is on: not after StopWatching, nor
\* for an earlier StartWatching, wherever the callback was on its way
\* (waitable_event_watcher_posix.cc, StopWatching and its three cases,
\* AsyncCallbackTask::Run).
THEOREM DelegatesAreWatching == Spec => HeardOnlyWhileWatching
<1>1. IInv /\ EInv /\ [Next]_vars =>
        [\A f \in heard' \ heard : \E w \in Watcher : watched[w] = f]_<<heard, watched>>
  BY HeardIsWatched
<1> QED
  BY <1>1, EventsInvariance, PTL DEF Spec, HeardOnlyWhileWatching
=============================================================================
