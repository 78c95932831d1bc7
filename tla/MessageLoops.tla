---------------------------- MODULE MessageLoops ----------------------------
(***************************************************************************)
(* A MessageLoop of the default type (base/message_loop.cc) with its       *)
(* MessagePumpDefault (base/message_pump_default.cc), which sleeps on a    *)
(* WaitableEvent, and the threads that post tasks to it, signal events and *)
(* wait for them.  Tasks may post, start and stop watching, quit and run   *)
(* the loop again, nested.                                                 *)
(*                                                                         *)
(* A task is its number in the order posted; time is counted in steps.     *)
(*                                                                         *)
(* A definition marked "Variant" is a faulty version of the one after it.  *)
(***************************************************************************)
EXTENDS WaitableEvents

CONSTANTS
  Loop,          \* the thread of the loop
  Pump,          \* MessagePumpDefault::event_
  Nestable,      \* whether a task may run nested: a subset of BOOLEAN
  Delays,        \* delay_ms of the tasks posted
  MaxTime,       \* bound on the time
  Budgets        \* bound on the calls made: of one budget b, b[t][kind] by t

ASSUME LoopConstantsOK ==
  /\ Loop \in Thread /\ Pump \in Event \ Manual
  /\ Nestable \subseteq BOOLEAN /\ Delays \subseteq Nat /\ MaxTime \in Nat
  /\ \A b \in Budgets :
       /\ DOMAIN b = Thread
       /\ \A t \in Thread : b[t] \in [DOMAIN b[t] -> Nat]

VARIABLES
  tasks,         \* the tasks posted, nestable, with delayed_run_time or 0, and Flag
  incoming,      \* incoming_queue_, of task numbers
  work,          \* work_queue_
  delayed,       \* delayed_work_queue_, the next one first
  deferred,      \* deferred_non_nestable_work_queue_
  nestable_allowed,  \* nestable_tasks_allowed_
  keep_running,  \* MessagePumpDefault::keep_running_
  delayed_time,  \* MessagePumpDefault::delayed_work_time_, or 0
  recent_time,   \* recent_time_
  started,       \* history: the tasks that were run
  left           \* left[t][kind]: the calls t may still make

queueVars == <<incoming, work, delayed, deferred>>
timeVars == <<delayed_time, recent_time>>
runVars == <<nestable_allowed, keep_running>>
loopVars == <<tasks, queueVars, runVars, timeVars, started>>
vars == <<stack, now, eventVars, watchVars, loopVars, left>>

----------------------------------------------------------------------------
\* The frame of a call of Run, which is in DoWork, DoDelayedWork, DoIdleWork or
\* about to sleep: did_work, and quit_received of its RunState.
Running(quit) == [op |-> "run", point |-> "work", did_work |-> FALSE, quit |-> quit]

\* The frame of Task::Run.
Task(id) == [op |-> "task", id |-> id]

RunFrames == {i \in DOMAIN stack[Loop] : stack[Loop][i].op = "run"}

\* state_->run_depth
Depth == Cardinality(RunFrames)

\* The loop runs, on a stack with nothing else, with a first task.
Init ==
  /\ EventInit
  /\ stack = [t \in Thread |-> IF t = Loop THEN <<Running(FALSE)>> ELSE <<>>]
  /\ tasks = <<[nestable |-> TRUE, time |-> 0, flag |-> 0]>>
  /\ incoming = <<1>> /\ work = <<>> /\ delayed = <<>> /\ deferred = <<>>
  /\ nestable_allowed = TRUE /\ keep_running = TRUE
  /\ delayed_time = 0 /\ recent_time = 0
  /\ started = {}
  /\ left \in Budgets

----------------------------------------------------------------------------
(* Posting.                                                                *)

\* Variant: the pump is woken by a task that finds others waiting.
PostOthers(t) ==
  /\ In(t, "post")
  /\ tasks' = Append(tasks, Top(t).task)
  /\ incoming' = Append(incoming, Len(tasks'))
  /\ IF incoming = <<>> THEN Return(t) ELSE GoTo(t, Signaling(Pump))
  /\ UNCHANGED <<now, eventVars, watchVars, work, delayed, deferred, runVars, timeVars, started,
                 left>>

\* PostTask_Helper: the pump is woken by the first task in the queue, outside
\* the queue's lock.
Post(t) ==
  /\ In(t, "post")
  /\ tasks' = Append(tasks, Top(t).task)
  /\ incoming' = Append(incoming, Len(tasks'))
  /\ IF incoming = <<>> THEN GoTo(t, Signaling(Pump)) ELSE Return(t)
  /\ UNCHANGED <<now, eventVars, watchVars, work, delayed, deferred, runVars, timeVars, started,
                 left>>

----------------------------------------------------------------------------
(* MessageLoop: the methods called by the pump.                            *)

\* The pump goes on to the next method.
Proceed(point, did_work) ==
  GoTo(Loop, [Top(Loop) EXCEPT !.point = point, !.did_work = @ \/ did_work])

\* The loop's thread is at a point of Run, in which Quit was not called.
At(point) == In(Loop, "run") /\ Top(Loop).point = point /\ (keep_running \/ point = "work")

\* RunTask: the task's frame comes on top.
RunTask(id, point) ==
  /\ stack' = [stack EXCEPT ![Loop] =
       Append(Below(Loop), [Top(Loop) EXCEPT !.point = point, !.did_work = TRUE]) \o <<Task(id)>>]
  /\ nestable_allowed' = FALSE
  /\ started' = started \cup {id}
  /\ RunCallback(tasks[id].flag)
  /\ UNCHANGED <<now, eventVars, tasks, incoming, keep_running, left>>

MustDefer(id) == ~tasks[id].nestable /\ Depth > 1

\* Variant: the task is dropped.
DropTask(id) ==
  /\ UNCHANGED <<now, eventVars, watchVars, tasks, incoming, deferred, runVars, started, left>>

\* DeferOrRunPendingTask, of a task that does not run nested
DeferTask(id) ==
  /\ deferred' = Append(deferred, id)
  /\ UNCHANGED <<now, eventVars, watchVars, tasks, incoming, runVars, started, left>>

InDoWork == At("work") /\ nestable_allowed

\* Variant: the queues are swapped whether or not there is work left.
ReloadWorkQueueEarly ==
  /\ InDoWork /\ incoming # <<>>
  /\ work' = incoming /\ incoming' = work
  /\ UNCHANGED <<stack, now, eventVars, watchVars, tasks, delayed, deferred, runVars, timeVars,
                 started, left>>

\* ReloadWorkQueue takes all tasks that were posted.
ReloadWorkQueue ==
  /\ InDoWork /\ work = <<>> /\ incoming # <<>>
  /\ work' = incoming /\ incoming' = <<>>
  /\ UNCHANGED <<stack, now, eventVars, watchVars, tasks, delayed, deferred, runVars, timeVars,
                 started, left>>

\* The delayed tasks in the order of their times, then in the order added.
InsertByTime(id) ==
  LET earlier == Cardinality({i \in DOMAIN delayed : tasks[delayed[i]].time <= tasks[id].time})
  IN  SubSeq(delayed, 1, earlier) \o <<id>> \o SubSeq(delayed, earlier + 1, Len(delayed))

\* AddToDelayedWorkQueue; ScheduleDelayedWork if the task comes first.
MoveDelayedTask ==
  /\ InDoWork /\ work # <<>> /\ tasks[Head(work)].time # 0
  /\ work' = Tail(work)
  /\ delayed' = InsertByTime(Head(work))
  /\ delayed_time' = IF Head(delayed') = Head(work) THEN tasks[Head(work)].time ELSE delayed_time
  /\ UNCHANGED <<stack, now, eventVars, watchVars, tasks, incoming, deferred, runVars,
                 recent_time, started, left>>

\* DoWork runs the oldest task, or defers it and goes on.
DoWork ==
  /\ InDoWork /\ work # <<>> /\ tasks[Head(work)].time = 0
  /\ work' = Tail(work)
  /\ IF MustDefer(Head(work))
     THEN DeferTask(Head(work)) /\ UNCHANGED stack
     ELSE RunTask(Head(work), "delayed") /\ UNCHANGED deferred
  /\ UNCHANGED <<delayed, timeVars>>

\* DoWork found nothing to do, or may do nothing.
DoNoWork ==
  /\ At("work")
  /\ ~nestable_allowed \/ (work = <<>> /\ incoming = <<>>)
  /\ Proceed("delayed", FALSE)
  /\ UNCHANGED <<now, eventVars, watchVars, loopVars, left>>

\* The first delayed task may run, being due at recent_time_ or now.
DelayedIsDue ==
  /\ nestable_allowed /\ delayed # <<>>
  /\ tasks[Head(delayed)].time <= recent_time \/ tasks[Head(delayed)].time <= now

\* DoDelayedWork runs or defers the first delayed task, if it is due.
DoDelayedWork ==
  /\ At("delayed") /\ DelayedIsDue
  /\ delayed' = Tail(delayed)
  /\ delayed_time' = IF delayed' # <<>> THEN tasks[Head(delayed')].time ELSE delayed_time
  /\ recent_time' = IF tasks[Head(delayed)].time > recent_time THEN now ELSE recent_time
  /\ IF MustDefer(Head(delayed))
     THEN DeferTask(Head(delayed)) /\ Proceed("idle", FALSE)
     ELSE RunTask(Head(delayed), "idle") /\ UNCHANGED deferred
  /\ UNCHANGED work

\* Variant: the pump is not told when the first task is due.
DoNoDelayedWorkUntold ==
  /\ At("delayed") /\ ~DelayedIsDue
  /\ IF ~nestable_allowed \/ delayed = <<>>
     THEN recent_time' = 0 /\ delayed_time' = 0
     ELSE recent_time' = now /\ UNCHANGED delayed_time
  /\ Proceed("idle", FALSE)
  /\ UNCHANGED <<now, eventVars, watchVars, tasks, queueVars, runVars, started, left>>

\* It has nothing to do, or may do nothing, or not yet.
DoNoDelayedWork ==
  /\ At("delayed") /\ ~DelayedIsDue
  /\ IF ~nestable_allowed \/ delayed = <<>>
     THEN recent_time' = 0 /\ delayed_time' = 0
     ELSE recent_time' = now /\ delayed_time' = tasks[Head(delayed)].time
  /\ Proceed("idle", FALSE)
  /\ UNCHANGED <<now, eventVars, watchVars, tasks, queueVars, runVars, started, left>>

\* MessagePumpDefault::Run begins another round after any work.
NextRound ==
  /\ At("idle") \/ At("sleep")
  /\ Top(Loop).did_work
  /\ GoTo(Loop, [Top(Loop) EXCEPT !.point = "work", !.did_work = FALSE])
  /\ UNCHANGED <<now, eventVars, watchVars, loopVars, left>>

\* DoIdleWork runs a deferred task, not nested.
RunDeferred ==
  /\ At("idle") /\ ~Top(Loop).did_work /\ Depth = 1 /\ deferred # <<>>
  /\ deferred' = Tail(deferred)
  /\ RunTask(Head(deferred), "sleep")
  /\ UNCHANGED <<work, delayed, timeVars>>

\* Otherwise it quits, if that is to be done.
DoNoIdleWork ==
  /\ At("idle") /\ ~Top(Loop).did_work /\ (Depth > 1 \/ deferred = <<>>)
  /\ keep_running' = ~Top(Loop).quit
  /\ Proceed("sleep", FALSE)
  /\ UNCHANGED <<now, eventVars, watchVars, tasks, queueVars, nestable_allowed, timeVars, started,
                 left>>

----------------------------------------------------------------------------
(* MessagePumpDefault::Run.                                                *)

\* The pump sleeps until it is woken or the next delayed task is due; if that
\* is now it does not.
Sleep ==
  /\ At("sleep") /\ ~Top(Loop).did_work
  /\ LET awake == [Top(Loop) EXCEPT !.point = "work"]
     IN  IF delayed_time # 0 /\ delayed_time <= now
         THEN /\ delayed_time' = 0
              /\ GoTo(Loop, awake)
              /\ UNCHANGED <<now, eventVars, watchVars>>
         ELSE /\ TimedWait(Loop, Pump, delayed_time)
              /\ stack' = [stack EXCEPT ![Loop] = Append(Below(Loop), awake) \o
                   IF signaled[Pump] THEN <<>> ELSE <<TimedWaiting(Pump, delayed_time)>>]
              /\ UNCHANGED delayed_time
  /\ UNCHANGED <<tasks, queueVars, runVars, recent_time, started, left>>

\* Run returns, in the task that called it: the caller of a nested Run restores
\* nestable_tasks_allowed_.
EndRun ==
  /\ In(Loop, "run") /\ Top(Loop).point # "work" /\ ~keep_running
  /\ keep_running' = TRUE
  /\ nestable_allowed' = (Depth = 1)
  /\ Return(Loop)
  /\ UNCHANGED <<now, eventVars, watchVars, tasks, queueVars, timeVars, started, left>>

\* The task returns to RunTask.
EndTask ==
  /\ In(Loop, "task")
  /\ nestable_allowed' = TRUE
  /\ Return(Loop)
  /\ UNCHANGED <<now, eventVars, watchVars, tasks, queueVars, keep_running, timeVars, started,
                 left>>

----------------------------------------------------------------------------
(* The calls of tasks and of the other threads.                            *)

MayCall(t, kind) ==
  /\ kind \in DOMAIN left[t] /\ left[t][kind] > 0
  /\ IF t = Loop THEN In(t, "task") ELSE stack[t] = <<>>
  /\ left' = [left EXCEPT ![t][kind] = @ - 1]

\* PostTask, PostDelayedTask and the non-nestable variants
CallPost(t, nestable, delay) ==
  /\ MayCall(t, "post") /\ now + delay <= MaxTime
  /\ Call(t, Posting([nestable |-> nestable, time |-> IF delay = 0 THEN 0 ELSE now + delay,
                      flag |-> 0]))
  /\ UNCHANGED <<now, eventVars, watchVars, loopVars>>

CallSignal(t, e) ==
  /\ MayCall(t, "signal")
  /\ Call(t, Signaling(e))
  /\ UNCHANGED <<now, eventVars, watchVars, loopVars>>

CallReset(t, e) == MayCall(t, "reset") /\ Reset(t, e) /\ UNCHANGED loopVars

\* TimedWait, which may block the loop's thread as well
CallWait(t, e, until) ==
  /\ MayCall(t, "wait") /\ until <= MaxTime
  /\ TimedWait(t, e, until)
  /\ IF signaled[e] THEN UNCHANGED stack ELSE Call(t, TimedWaiting(e, until))
  /\ UNCHANGED loopVars

CallWaitMany(t, evs) ==
  MayCall(t, "many") /\ WaitMany(t, evs) /\ UNCHANGED loopVars

CallStart(w, e) == MayCall(Loop, "watch") /\ StartWatching(Loop, w, e) /\ UNCHANGED loopVars

CallStop(w) == MayCall(Loop, "watch") /\ StopWatching(w) /\ UNCHANGED loopVars

\* A task runs the loop, with or without tasks that may run nested: allowing
\* them wakes the pump (SetNestableTasksAllowed).
CallRun(allow, quit) ==
  /\ MayCall(Loop, "run")
  /\ nestable_allowed' = allow
  /\ stack' = [stack EXCEPT ![Loop] =
       Append(@, Running(quit)) \o IF allow THEN <<Signaling(Pump)>> ELSE <<>>]
  /\ UNCHANGED <<now, eventVars, watchVars, tasks, queueVars, keep_running, timeVars, started>>

\* Quit, of the innermost Run
CallQuit ==
  /\ MayCall(Loop, "quit")
  /\ LET inner == CHOOSE i \in RunFrames : \A j \in RunFrames : j <= i
     IN  stack' = [stack EXCEPT ![Loop][inner].quit = TRUE]
  /\ UNCHANGED <<now, eventVars, watchVars, loopVars>>

\* QuitNow
CallQuitNow ==
  /\ MayCall(Loop, "quit")
  /\ keep_running' = FALSE
  /\ UNCHANGED <<stack, now, eventVars, watchVars, tasks, queueVars, nestable_allowed, timeVars,
                 started>>

Tick ==
  /\ now < MaxTime /\ now' = now + 1
  /\ UNCHANGED <<stack, eventVars, watchVars, loopVars, left>>

----------------------------------------------------------------------------
LoopStep ==
  \/ ReloadWorkQueue \/ MoveDelayedTask \/ DoWork \/ DoNoWork
  \/ DoDelayedWork \/ DoNoDelayedWork
  \/ RunDeferred \/ DoNoIdleWork \/ NextRound
  \/ Sleep \/ EndRun \/ EndTask

Step(t) ==
  \/ EventStep(t) /\ UNCHANGED <<loopVars, left>>
  \/ Post(t)
  \/ t = Loop /\ LoopStep

MakeCall ==
  \/ \E t \in Thread :
       \/ \E nestable \in Nestable, delay \in Delays : CallPost(t, nestable, delay)
       \/ \E e \in Event \ {Pump} :
            \/ CallSignal(t, e) \/ CallReset(t, e)
            \/ CallWait(t, e, 0) \/ CallWait(t, e, now + 1)
       \/ \E d, e \in Event \ {Pump} : d # e /\ CallWaitMany(t, <<d, e>>)
  \/ \E w \in Watcher : CallStop(w) \/ \E e \in Event \ {Pump} : CallStart(w, e)
  \/ \E allow, quit \in BOOLEAN : CallRun(allow, quit)
  \/ CallQuit \/ CallQuitNow

Next == (\E t \in Thread : Step(t)) \/ MakeCall \/ Tick

Spec == Init /\ [][Next]_vars

\* Threads run, tasks return, and time goes on.
FairSpec ==
  /\ Spec
  /\ \A t \in Thread : WF_vars(Step(t))
  /\ WF_vars(Tick)

----------------------------------------------------------------------------
(* Properties.                                                             *)

Number == 1 .. Len(tasks)

TypeOK ==
  /\ EventTypeOK
  /\ \A i \in Number : tasks[i] \in [nestable : BOOLEAN, time : 0 .. MaxTime, flag : 0 .. starts]
  /\ {incoming, work, delayed, deferred} \subseteq Seq(Number)
  /\ nestable_allowed \in BOOLEAN /\ keep_running \in BOOLEAN
  /\ delayed_time \in 0 .. MaxTime /\ recent_time \in 0 .. now
  /\ started \subseteq Number
  /\ \E b \in Budgets : \A t \in Thread : left[t] \in [DOMAIN b[t] -> Nat]

IsIn(queue, id) == \E i \in DOMAIN queue : queue[i] = id

\* A task is in one queue, once, until it runs: none is lost or run twice.
TaskIsInOneQueue ==
  \A id \in Number :
    Cardinality({i \in DOMAIN (incoming \o work \o delayed \o deferred) :
                   (incoming \o work \o delayed \o deferred)[i] = id})
      = IF id \in started THEN 0 ELSE 1

\* A sleeping pump wakes in time for the next delayed task.
PumpSleepsUntilDue ==
  In(Loop, "wait") /\ Top(Loop).ev = Pump /\ Top(Loop).point = "asleep"
    /\ delayed # <<>> /\ nestable_allowed =>
    Top(Loop).until # 0 /\ Top(Loop).until <= tasks[Head(delayed)].time

\* Tasks that are not delayed are run in the order posted, but for those that
\* wait for the outermost loop (message_loop.h, "tasks are invoked in FIFO
\* order").
TasksRunInOrder ==
  \A i, j \in Number :
    i < j /\ tasks[i].time = 0 /\ tasks[j].time = 0 /\ j \in started /\ i \notin started =>
      ~tasks[i].nestable /\ IsIn(deferred, i)

\* Every task is run, unless the loop returns: the pump never sleeps for good
\* over one.  A nested loop that does not return may leave the tasks that are not
\* to run nested, or all if it was run without allowing them; and so may a task
\* that blocks.
EveryTaskIsRun ==
  []<>(\/ Number \subseteq started
       \/ stack[Loop] = <<>>
       \/ (In(Loop, "wait") /\ Top(Loop).ev # Pump) \/ In(Loop, "many")
       \/ Depth > 1 /\ (~nestable_allowed \/ \A id \in Number \ started : IsIn(deferred, id)))
=============================================================================
