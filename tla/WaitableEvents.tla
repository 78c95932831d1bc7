--------------------------- MODULE WaitableEvents ---------------------------
(***************************************************************************)
(* base::WaitableEvent and base::WaitableEventWatcher                      *)
(* (base/waitable_event_posix.cc, base/waitable_event_watcher_posix.cc):   *)
(* an event is a flag and a list of waiters under a lock.  Threads signal  *)
(* it, wait for it or for several, and have it watched: a watcher's waiter *)
(* posts a task to the loop of its thread.                                 *)
(*                                                                         *)
(* A thread's calls are a stack of frames.  What a frame "post", or any    *)
(* other of the thread, does is up to the module that extends this one     *)
(* (MessageLoops).                                                         *)
(*                                                                         *)
(* A definition marked "Variant" is a faulty version of the one after it.  *)
(***************************************************************************)
EXTENDS Naturals, FiniteSets, SequencesExt

CONSTANTS
  Thread, Nobody,
  Event,         \* the events
  Manual,        \* those with manual_reset_, a subset of Event
  Address,       \* Address[e]: the address of an event, which orders them
  Watcher        \* the watchers, all of one thread

ASSUME EventConstantsOK ==
  /\ IsFiniteSet(Thread)
  /\ Nobody \notin Thread /\ Nobody \notin Event
  /\ Manual \subseteq Event
  /\ Address \in [Event -> Nat]
  /\ \A d, e \in Event : Address[d] = Address[e] => d = e

VARIABLES
  stack,         \* stack[t]: the calls of a thread
  now,           \* the time
  lock,          \* lock[e]: the thread that holds lock_, or Nobody
  signaled,      \* signaled_
  waiters,       \* waiters_
  fired,         \* fired[t]: of the thread's SyncWaiter, the event that fired it
  cancel_flag,   \* cancel_flag[w]: cancel_flag_, a number, or 0
  kernel,        \* kernel[w]: kernel_, an event, or Nobody
  set_flags,     \* the Flags that are set
  starts,        \* history: the calls of StartWatching, which number the Flags
  watched,       \* history: watched[w]: the Flag of the last StartWatching, or 0
  heard,         \* history: the Flags whose delegate was called
  given,         \* history: given[e]: Signals that found the event not signaled
  taken          \* history: taken[e]: waits, callbacks and resets that got one

eventVars == <<lock, signaled, waiters, fired, given, taken>>
watchVars == <<cancel_flag, kernel, set_flags, starts, watched, heard>>

----------------------------------------------------------------------------
\* A waiter: the SyncWaiter of a thread, or the AsyncWaiter with a Flag.
SyncWaiter(t) == [thread |-> t, flag |-> 0]
AsyncWaiter(f) == [thread |-> Nobody, flag |-> f]
Waiter == [thread : Thread \cup {Nobody}, flag : Nat]

\* fired_ and signaling_event_ of a SyncWaiter: an event, or
Waiting == "waiting"     \* it was not fired
Disabled == "disabled"   \* it will not be fired any more

ASSUME FiredByAnEvent == Waiting \notin Event /\ Disabled \notin Event

\* Frames: Signal; TimedWait, until a time or, with 0, forever; WaitMany, with
\* the events still to be locked, those it has locked and the one signaled; and
\* StartWatching and PostTask.
Signaling(e) == [op |-> "signal", ev |-> e]
TimedWaiting(e, until) == [op |-> "wait", ev |-> e, until |-> until, point |-> "asleep"]
Locking(todo) == [op |-> "many", todo |-> todo, held |-> <<>>, point |-> "lock"]
Starting(e) == [op |-> "start", ev |-> e]
Posting(task) == [op |-> "post", task |-> task]

Top(t) == stack[t][Len(stack[t])]
Below(t) == SubSeq(stack[t], 1, Len(stack[t]) - 1)
In(t, op) == stack[t] # <<>> /\ Top(t).op = op

Call(t, frame) == stack' = [stack EXCEPT ![t] = Append(@, frame)]
GoTo(t, frame) == stack' = [stack EXCEPT ![t] = Append(Below(t), frame)]
Return(t) == stack' = [stack EXCEPT ![t] = Below(t)]

Free(e) == lock[e] = Nobody

\* WaitableEventKernel::Dequeue erases the waiter, which is in the list once.
Without(list, waiter) ==
  IF \E i \in DOMAIN list : list[i] = waiter
  THEN RemoveAt(list, CHOOSE i \in DOMAIN list : list[i] = waiter)
  ELSE list
Listed(e, waiter) == \E i \in DOMAIN waiters[e] : waiters[e][i] = waiter

Give(e) == given' = [given EXCEPT ![e] = @ + 1]
Take(e) == taken' = [taken EXCEPT ![e] = @ + 1]

EventInit ==
  /\ now = 1
  /\ lock = [e \in Event |-> Nobody]
  /\ signaled = [e \in Event |-> FALSE]
  /\ waiters = [e \in Event |-> <<>>]
  /\ fired = [t \in Thread |-> Disabled]
  /\ cancel_flag = [w \in Watcher |-> 0]
  /\ kernel = [w \in Watcher |-> Nobody]
  /\ set_flags = {} /\ starts = 0
  /\ watched = [w \in Watcher |-> 0] /\ heard = {}
  /\ given = [e \in Event |-> 0] /\ taken = [e \in Event |-> 0]

----------------------------------------------------------------------------
(* Signal and Reset.                                                       *)

\* Signal takes the lock; an event that is signaled stays so.
BeginSignal(t) ==
  /\ In(t, "signal") /\ Free(Top(t).ev)
  /\ IF signaled[Top(t).ev]
     THEN Return(t) /\ UNCHANGED <<lock, given>>
     ELSE /\ GoTo(t, [op |-> "fire", ev |-> Top(t).ev, woke |-> FALSE])
          /\ lock' = [lock EXCEPT ![Top(t).ev] = t]
          /\ Give(Top(t).ev)
  /\ UNCHANGED <<now, signaled, waiters, fired, taken, watchVars>>

\* Signal is done with the waiters: all, or the one of an auto-reset event.
Woken(t) == waiters[Top(t).ev] = <<>> \/ (Top(t).woke /\ Top(t).ev \notin Manual)

\* SyncWaiter::Fire, which a waiter refuses that was fired or has timed out.
FireSync(t, waiter) ==
  /\ waiter.flag = 0
  /\ IF fired[waiter.thread] = Waiting
     THEN /\ fired' = [fired EXCEPT ![waiter.thread] = Top(t).ev]
          /\ GoTo(t, [Top(t) EXCEPT !.woke = TRUE])
     ELSE UNCHANGED <<fired, stack>>
  /\ UNCHANGED taken

\* AsyncWaiter::Fire: the task is posted, unless the wait was canceled.
FireAsync(t, waiter) ==
  /\ waiter.flag # 0
  /\ stack' = [stack EXCEPT ![t] =
       Append(Below(t), [Top(t) EXCEPT !.woke = TRUE]) \o
         IF waiter.flag \in set_flags THEN <<>>
         ELSE <<Posting([nestable |-> TRUE, time |-> 0, flag |-> waiter.flag])>>]
  /\ Take(Top(t).ev)
  /\ UNCHANGED fired

\* SignalAll or SignalOne fires the next waiter.
FireWaiter(t) ==
  /\ In(t, "fire") /\ ~Woken(t)
  /\ waiters' = [waiters EXCEPT ![Top(t).ev] = Tail(@)]
  /\ FireSync(t, Head(waiters[Top(t).ev])) \/ FireAsync(t, Head(waiters[Top(t).ev]))
  /\ UNCHANGED <<now, lock, signaled, given, watchVars>>

\* An auto-reset event remains signaled if nobody was woken.
EndSignal(t) ==
  /\ In(t, "fire") /\ Woken(t)
  /\ signaled' = [signaled EXCEPT ![Top(t).ev] = Top(t).ev \in Manual \/ ~Top(t).woke]
  /\ lock' = [lock EXCEPT ![Top(t).ev] = Nobody]
  /\ Return(t)
  /\ UNCHANGED <<now, waiters, fired, given, taken, watchVars>>

\* Finding the event signaled resets an auto-reset one.
Consume(e) ==
  /\ signaled' = [signaled EXCEPT ![e] = e \in Manual]
  /\ IF e \in Manual THEN UNCHANGED taken ELSE Take(e)

\* Reset; for an auto-reset event IsSignaled does the same.
Reset(t, e) ==
  /\ Free(e) /\ signaled[e]
  /\ signaled' = [signaled EXCEPT ![e] = FALSE]
  /\ Take(e)
  /\ UNCHANGED <<stack, now, lock, waiters, fired, given, watchVars>>

----------------------------------------------------------------------------
(* TimedWait and WaitMany.                                                 *)

\* TimedWait on an event that is signaled returns at once; otherwise the thread
\* is in the list before the lock is released, and Fire waits until it sleeps.
\* The caller's frame is the one below.
TimedWait(t, e, until) ==
  /\ Free(e)
  /\ IF signaled[e]
     THEN Consume(e) /\ UNCHANGED <<waiters, fired>>
     ELSE /\ waiters' = [waiters EXCEPT ![e] = Append(@, SyncWaiter(t))]
          /\ fired' = [fired EXCEPT ![t] = Waiting]
          /\ UNCHANGED <<signaled, taken>>
  /\ UNCHANGED <<now, lock, given, watchVars>>

TimedOut(t) == fired[t] = Waiting /\ Top(t).until # 0 /\ now >= Top(t).until

\* Variant: the SyncWaiter is not disabled.
WakeEnabled(t) ==
  /\ In(t, "wait") /\ Top(t).point = "asleep"
  /\ fired[t] # Waiting \/ TimedOut(t)
  /\ GoTo(t, [Top(t) EXCEPT !.point = IF fired[t] = Waiting THEN "timed out" ELSE "woken"])
  /\ UNCHANGED <<now, eventVars, watchVars>>

\* The thread was fired, or its time is over: then the SyncWaiter is disabled
\* before its lock is released.
Wake(t) ==
  /\ In(t, "wait") /\ Top(t).point = "asleep"
  /\ fired[t] # Waiting \/ TimedOut(t)
  /\ GoTo(t, [Top(t) EXCEPT !.point = IF fired[t] = Waiting THEN "timed out" ELSE "woken"])
  /\ fired' = [fired EXCEPT ![t] = IF @ = Waiting THEN Disabled ELSE @]
  /\ UNCHANGED <<now, lock, signaled, waiters, given, taken, watchVars>>

\* TimedWait leaves the list and returns.
EndWait(t) ==
  /\ In(t, "wait") /\ Top(t).point # "asleep" /\ Free(Top(t).ev)
  /\ waiters' = [waiters EXCEPT ![Top(t).ev] = Without(@, SyncWaiter(t))]
  /\ IF Top(t).point = "woken" THEN Take(Top(t).ev) ELSE UNCHANGED taken
  /\ fired' = [fired EXCEPT ![t] = Disabled]
  /\ Return(t)
  /\ UNCHANGED <<now, lock, signaled, given, watchVars>>

\* Variant: WaitMany locks the events in the order it was given.
SortedAsGiven(evs) == evs

\* WaitMany orders the events by their addresses.
Sorted(evs) ==
  CHOOSE s \in [DOMAIN evs -> {evs[i] : i \in DOMAIN evs}] :
    \A i, j \in DOMAIN s : i < j => Address[s[i]] < Address[s[j]]

\* WaitMany
WaitMany(t, evs) ==
  /\ Call(t, Locking(Sorted(evs)))
  /\ UNCHANGED <<now, eventVars, watchVars>>

Unlock(held) == lock' = [e \in Event |->
  IF \E i \in DOMAIN held : held[i] = e THEN Nobody ELSE lock[e]]

\* Variant: the lock of an event that is not signaled is not kept.
LockNextAlone(t) ==
  /\ In(t, "many") /\ Top(t).point = "lock" /\ Top(t).todo # <<>>
  /\ LET e == Head(Top(t).todo)
     IN  /\ Free(e)
         /\ IF signaled[e]
            THEN Consume(e) /\ Return(t)
            ELSE /\ GoTo(t, [Top(t) EXCEPT !.todo = Tail(@), !.held = Append(@, e)])
                 /\ UNCHANGED <<signaled, taken>>
  /\ UNCHANGED <<now, lock, waiters, fired, given, watchVars>>

\* EnqueueMany locks the next event.  If it is signaled WaitMany returns it,
\* and all locks are released.
LockNext(t) ==
  /\ In(t, "many") /\ Top(t).point = "lock" /\ Top(t).todo # <<>>
  /\ LET e == Head(Top(t).todo)
     IN  /\ Free(e)
         /\ IF signaled[e]
            THEN Consume(e) /\ Unlock(Top(t).held) /\ Return(t)
            ELSE /\ lock' = [lock EXCEPT ![e] = t]
                 /\ GoTo(t, [Top(t) EXCEPT !.todo = Tail(@), !.held = Append(@, e)])
                 /\ UNCHANGED <<signaled, taken>>
  /\ UNCHANGED <<now, waiters, fired, given, watchVars>>

\* With all locks held the waiter is enqueued everywhere, and they are released.
EnqueueMany(t) ==
  /\ In(t, "many") /\ Top(t).point = "lock" /\ Top(t).todo = <<>>
  /\ waiters' = [e \in Event |-> IF \E i \in DOMAIN Top(t).held : Top(t).held[i] = e
                                 THEN Append(waiters[e], SyncWaiter(t)) ELSE waiters[e]]
  /\ fired' = [fired EXCEPT ![t] = Waiting]
  /\ Unlock(Top(t).held)
  /\ GoTo(t, [Top(t) EXCEPT !.point = "asleep"])
  /\ UNCHANGED <<now, signaled, given, taken, watchVars>>

\* WaitMany was fired by an event.
WakeMany(t) ==
  /\ In(t, "many") /\ Top(t).point = "asleep" /\ fired[t] # Waiting
  /\ GoTo(t, [Top(t) EXCEPT !.point = "leave"])
  /\ UNCHANGED <<now, eventVars, watchVars>>

\* It leaves the other lists, one after the other, and returns the event.
LeaveNext(t) ==
  /\ In(t, "many") /\ Top(t).point = "leave" /\ Top(t).held # <<>>
  /\ LET e == Head(Top(t).held)
     IN  IF e = fired[t]
         THEN UNCHANGED waiters
         ELSE Free(e) /\ waiters' = [waiters EXCEPT ![e] = Without(@, SyncWaiter(t))]
  /\ GoTo(t, [Top(t) EXCEPT !.held = Tail(@)])
  /\ UNCHANGED <<now, lock, signaled, fired, given, taken, watchVars>>

EndMany(t) ==
  /\ In(t, "many") /\ Top(t).point = "leave" /\ Top(t).held = <<>>
  /\ Take(fired[t])
  /\ fired' = [fired EXCEPT ![t] = Disabled]
  /\ Return(t)
  /\ UNCHANGED <<now, lock, signaled, waiters, given, watchVars>>

----------------------------------------------------------------------------
(* Watchers, called on their thread t.                                     *)

\* StartWatching, when not watching: a Flag that was set by the callback is
\* replaced.  If the event is signaled the task is posted at once, with the
\* lock held; kernel_ then keeps what an earlier call left in it.
StartWatching(t, w, e) ==
  /\ cancel_flag[w] = 0 \/ cancel_flag[w] \in set_flags
  /\ Free(e)
  /\ starts' = starts + 1
  /\ cancel_flag' = [cancel_flag EXCEPT ![w] = starts']
  /\ watched' = [watched EXCEPT ![w] = starts']
  /\ IF signaled[e]
     THEN /\ Consume(e)
          /\ lock' = [lock EXCEPT ![e] = t]
          /\ stack' = [stack EXCEPT ![t] = @ \o
               <<Starting(e), Posting([nestable |-> TRUE, time |-> 0, flag |-> starts'])>>]
          /\ UNCHANGED <<waiters, kernel>>
     ELSE /\ waiters' = [waiters EXCEPT ![e] = Append(@, AsyncWaiter(starts'))]
          /\ kernel' = [kernel EXCEPT ![w] = e]
          /\ UNCHANGED <<stack, lock, signaled, taken>>
  /\ UNCHANGED <<now, fired, given, set_flags, heard>>

EndStart(t) ==
  /\ In(t, "start")
  /\ lock' = [lock EXCEPT ![Top(t).ev] = Nobody]
  /\ Return(t)
  /\ UNCHANGED <<now, signaled, waiters, fired, given, taken, watchVars>>

\* Variant: a waiter that is not in the list has had its callback.
CancelListedOnly(w) ==
  LET f == cancel_flag[w]
  IN  IF kernel[w] # Nobody
      THEN /\ Free(kernel[w])
           /\ waiters' = [waiters EXCEPT ![kernel[w]] = Without(@, AsyncWaiter(f))]
           /\ UNCHANGED set_flags
      ELSE set_flags' = set_flags \cup {f} /\ UNCHANGED waiters

\* Variant: the Flag is enough.
CancelByFlag(w) ==
  /\ kernel[w] # Nobody => Free(kernel[w])
  /\ set_flags' = set_flags \cup {cancel_flag[w]}
  /\ UNCHANGED waiters

\* A Flag that is not set: the waiter is taken from the list of kernel_, or,
\* if it is not there or was never put there, the Flag is set for the task.
Cancel(w) ==
  LET f == cancel_flag[w]
  IN  IF kernel[w] # Nobody /\ Listed(kernel[w], AsyncWaiter(f))
      THEN /\ Free(kernel[w])
           /\ waiters' = [waiters EXCEPT ![kernel[w]] = Without(@, AsyncWaiter(f))]
           /\ UNCHANGED set_flags
      ELSE /\ kernel[w] # Nobody => Free(kernel[w])
           /\ set_flags' = set_flags \cup {f}
           /\ UNCHANGED waiters

\* StopWatching, of a watcher that has a Flag.
StopWatching(w) ==
  /\ cancel_flag[w] # 0
  /\ IF cancel_flag[w] \in set_flags THEN UNCHANGED <<waiters, set_flags>> ELSE Cancel(w)
  /\ cancel_flag' = [cancel_flag EXCEPT ![w] = 0]
  /\ watched' = [watched EXCEPT ![w] = 0]
  /\ UNCHANGED <<stack, now, lock, signaled, fired, given, taken, kernel, starts, heard>>

\* Variant: the Flag is not set.
RunCallbackUnset(f) ==
  /\ heard' = IF f = 0 \/ f \in set_flags THEN heard ELSE heard \cup {f}
  /\ UNCHANGED <<cancel_flag, kernel, set_flags, starts, watched>>

\* AsyncCallbackTask::Run, of the task with this Flag.
RunCallback(f) ==
  /\ IF f = 0 \/ f \in set_flags
     THEN UNCHANGED <<set_flags, heard>>
     ELSE set_flags' = set_flags \cup {f} /\ heard' = heard \cup {f}
  /\ UNCHANGED <<cancel_flag, kernel, starts, watched>>

----------------------------------------------------------------------------
EventStep(t) ==
  \/ BeginSignal(t) \/ FireWaiter(t) \/ EndSignal(t)
  \/ Wake(t) \/ EndWait(t)
  \/ LockNext(t) \/ EnqueueMany(t) \/ WakeMany(t) \/ LeaveNext(t) \/ EndMany(t)
  \/ EndStart(t)

----------------------------------------------------------------------------
(* Properties.                                                             *)

EventTypeOK ==
  /\ now \in Nat
  /\ lock \in [Event -> Thread \cup {Nobody}]
  /\ signaled \in [Event -> BOOLEAN]
  /\ waiters \in [Event -> Seq(Waiter)]
  /\ fired \in [Thread -> Event \cup {Waiting, Disabled}]
  /\ cancel_flag \in [Watcher -> Nat] /\ watched \in [Watcher -> Nat]
  /\ kernel \in [Watcher -> Event \cup {Nobody}]
  /\ set_flags \subseteq 1 .. starts /\ heard \subseteq set_flags /\ starts \in Nat
  /\ given \in [Event -> Nat] /\ taken \in [Event -> Nat]

\* What is in an event's list waits, and misses nothing: a watcher's waiter is
\* that of the watch that is on, so that AsyncWaiter::Fire, which says it took the
\* signal, never does so in vain; and neither it nor a blocked thread waits for an
\* event that is signaled already (Signal, TimedWait, EnqueueMany, StartWatching,
\* StopWatching).
ListedWaiterWaits ==
  \A e \in Event : Free(e) =>
    \A i \in DOMAIN waiters[e] :
      LET waiter == waiters[e][i]
      IN  IF waiter.flag = 0 THEN signaled[e] => fired[waiter.thread] # Waiting
          ELSE ~signaled[e] /\ \E w \in Watcher : watched[w] = waiter.flag

\* Every Signal of an auto-reset event that found it reset is received by one
\* wait, callback or reset, or still to be received: a time-out or another
\* event that fires the same waiter first does not swallow it
\* (SyncWaiter::Fire, Disable).
SignalIsReceivedOnce ==
  \A e \in Event \ Manual :
    given[e] = taken[e]
      + (IF signaled[e] THEN 1 ELSE 0)
      + Cardinality({t \in Thread : fired[t] = e})
      + Cardinality({t \in Thread : \E i \in DOMAIN stack[t] :
          stack[t][i].op = "fire" /\ stack[t][i].ev = e /\ ~stack[t][i].woke})

\* A delegate is called only for the watch that is on: not after StopWatching,
\* nor for an earlier StartWatching, wherever the callback was on its way
\* (WaitableEventWatcher::StopWatching, cases 1 to 3).
HeardOnlyWhileWatching ==
  [][\A f \in heard' \ heard : \E w \in Watcher : watched[w] = f]_<<heard, watched>>

\* The events' locks are given back: threads that lock several events never wait
\* for each other (WaitMany), nor for one that posts with a lock held.
LocksAreReleased == []<>(\A e \in Event : Free(e))
=============================================================================
