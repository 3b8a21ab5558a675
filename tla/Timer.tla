-------------------------------- MODULE Timer -------------------------------
(***************************************************************************)
(* The timer of an event loop: a heap of tasks (timer_task_queue.cpp), the *)
(* operations on it (timer.cpp), and the one time event of the poll loop   *)
(* that is to fire when the first task is due (timer_channel.cpp, ae.c).   *)
(*                                                                         *)
(* All of it runs on the loop's thread.  phase is where that is: "idle",     *)
(* in "routine" between two tasks, or in "run" inside a task, which may    *)
(* schedule and cancel tasks, its own included.  The clock moves anywhere. *)
(***************************************************************************)
EXTENDS Integers, Sequences, FiniteSets

CONSTANTS
  MaxID,        \* the last task id before they start again (0x7FFFFFFE)
  Delays,       \* what tasks are scheduled with: <<number, unit, periodic>>
  Unit,         \* Unit[u]: milliseconds in a unit
  Capacity,     \* kDefaultQueueSize
  NONE,
  MaxSchedules, \* bound: tasks scheduled
  MaxCancels,   \* bound: tasks cancelled
  MaxNow,       \* bound: the clock
  MaxSlip       \* bound: milliseconds between two readings of the clock

ASSUME TimerAssumption ==
  /\ MaxID \in Nat \ {0} /\ Capacity \in Nat \ {0, 1}
  /\ \A d \in Delays : d[1] \in Nat \ {0} /\ Unit[d[2]] \in Nat \ {0}
  /\ MaxSchedules \in Nat /\ MaxNow \in Nat /\ MaxSlip \in Nat
  /\ NONE \notin Nat

VARIABLES
  now,          \* get_current_epoch_millis
  task,         \* m_task_table: id -> TimerTask
  queue,        \* m_queue[1 .. m_size], as ids
  capacity,     \* m_queue_capacity
  event,        \* m_timer_id and its `when': NONE, or the time it fires
  slip,         \* milliseconds between the readings of the clock by the timer
                \* and by ae.c when the event was last set (history)
  phase, running,  \* the thread, and the task in the hands of Routine
  schedules, cancels  \* counters of the bounds

timerVars == <<now, task, queue, capacity, event, slip, phase, running, schedules, cancels>>

IDs == 1..MaxID
Time(id) == task[id].next
Scheduled == DOMAIN task

TimerInit ==
  /\ now = 0
  /\ task = [id \in {} |-> NONE]
  /\ queue = <<>>
  /\ capacity = Capacity
  /\ event = NONE /\ slip = 0
  /\ phase = "idle" /\ running = NONE
  /\ schedules = 0 /\ cancels = 0

Millis(d) == d[1] * Unit[d[2]]
-----------------------------------------------------------------------------
(***************************************************************************)
(* The heap.  A heap is a record of the queue and the tasks, which hold    *)
(* their time and their place in it.                                       *)
(*                                                                         *)
(* FixUp and FixDown are loops that swap the task at k with the one above  *)
(* or below it.  Each is given by the places it goes through and the last  *)
(* of them: the task at k ends there, and the others move by one.          *)
(***************************************************************************)
When(h, k) == h.t[h.q[k]].next

\* The task at from[m] comes to m.  A loop that swaps nothing leaves the
\* places noted in the tasks as they are.
Moved(h, from) ==
  LET q == [m \in DOMAIN h.q |-> IF m \in DOMAIN from THEN h.q[from[m]] ELSE h.q[m]]
      New(id) == {m \in DOMAIN from : from[m] # m /\ q[m] = id}
  IN  [q |-> q,
       t |-> [id \in DOMAIN h.t |->
                IF New(id) = {} THEN h.t[id]
                ELSE [h.t[id] EXCEPT !.index = CHOOSE m \in New(id) : TRUE]]]

Paths(k, n) == [places : SUBSET ({k} \cup 1..n), last : {k} \cup 1..n]

\* A way down the tree.
IsPath(S, top, bottom) ==
  /\ {top, bottom} \subseteq S
  /\ \A m \in S \ {top} : m \div 2 \in S
  /\ \A m \in S \ {bottom} : (2 * m \in S) # (2 * m + 1 \in S)

\* From k to the first place whose task has one above it that is no later.
Climbs(h, k, w) ==
  /\ IsPath(w.places, w.last, k)
  /\ \A m \in w.places \ {w.last} : When(h, m \div 2) > When(h, k)
  /\ w.last = 1 \/ When(h, w.last \div 2) <= When(h, k)

FixUp(h, k) ==
  {Moved(h, [m \in w.places |-> IF m = w.last THEN k ELSE m \div 2]) :
     w \in {w \in Paths(k, k) : Climbs(h, k, w)}}

\* The earlier of the two tasks below k.
Kid(h, k) ==
  IF 2 * k < Len(h.q) /\ When(h, 2 * k) > When(h, 2 * k + 1) THEN 2 * k + 1 ELSE 2 * k

\* From k along the earlier ones to the first that has no earlier one below it.
Sinks(h, k, w) ==
  /\ IsPath(w.places, k, w.last)
  /\ \A m \in w.places \ {k} : m = Kid(h, m \div 2) /\ When(h, m) < When(h, k)
  /\ 2 * w.last > Len(h.q) \/ When(h, k) <= When(h, Kid(h, w.last))

FixDown(h, k) ==
  {Moved(h, [m \in w.places |-> IF m = w.last THEN k ELSE Kid(h, m)]) :
     w \in {w \in Paths(k, Len(h.q)) : Sinks(h, k, w)}}

Heap == [q |-> queue, t |-> task]

Add(h, id) == FixUp([q |-> Append(h.q, id),
                     t |-> [h.t EXCEPT ![id].index = Len(h.q) + 1]], Len(h.q) + 1)

RescheduleMin(h, time) ==
  FixDown([q |-> h.q, t |-> [h.t EXCEPT ![h.q[1]].next = time]], 1)

\* (mutant of RemoveMin: the task that moves keeps its old place)
RemoveMinUnplaced(h) ==
  FixDown([h EXCEPT !.q = SubSeq([h.q EXCEPT ![1] = h.q[Len(h.q)]], 1, Len(h.q) - 1)], 1)

\* The last task takes the first place.
RemoveMin(h) ==
  LET last == h.q[Len(h.q)]
  IN  FixDown([q |-> SubSeq([h.q EXCEPT ![1] = last], 1, Len(h.q) - 1),
               t |-> [h.t EXCEPT ![last].index = 1]], 1)

Becomes(H) == \E h \in H : queue' = h.q /\ task' = h.t

-----------------------------------------------------------------------------
(***************************************************************************)
(* Operations of handlers and tasks.                                       *)
(***************************************************************************)
May == phase \in {"idle", "run"}

\* The timer has read the clock, and aeAddMillisecondsToNow reads it again.
Elapsed == {e \in 0..MaxSlip : now + e <= MaxNow}
SetEvent(millis) ==
  \E e \in Elapsed : now' = now + e /\ slip' = e /\ event' = now' + millis

\* (mutant of OnScheduled: an event that exists is left as it is)
OnScheduledOnce(next, delay) ==
  IF event = NONE THEN SetEvent(delay) ELSE UNCHANGED <<now, slip, event>>

\* OnScheduled, before the task is in the heap: the time event is made, or
\* brought forward, if this task is the nearest; Routine sees to an event that
\* is left with no task.  The event gets the delay as a number of milliseconds,
\* whatever its unit.
OnScheduled(next, delay) ==
  IF /\ queue = <<>> \/ Time(queue[1]) > next
     /\ event = NONE \/ queue # <<>>
  THEN SetEvent(delay)
  ELSE UNCHANGED <<now, slip, event>>

\* The array is doubled before its last place is used; place 0 is not used.
Grown(n) == IF n + 1 = capacity THEN 2 * capacity ELSE capacity

\* GenerateTimerTaskID: one counter that all timers share and that starts
\* again at the end, so that the next id is free, whichever it is, or taken.
GenerateTimerTaskID ==
  LET free == IDs \ Scheduled
  IN  Scheduled \cup {id \in free : \A i \in free : id <= i}

NewTask(d) ==
  [next |-> now + Millis(d), state |-> "SCHEDULED", index |-> 0,
   period |-> IF d[3] THEN Millis(d) ELSE 0]

\* The table with a task that is not in the queue yet.
Entered(id, new) ==
  [q |-> queue, t |-> [i \in Scheduled \cup {id} |-> IF i = id THEN new ELSE task[i]]]

\* DoSchedule.  A task whose id is taken is not scheduled.
Schedule(id, d) ==
  /\ May /\ schedules < MaxSchedules
  /\ schedules' = schedules + 1
  /\ \/ /\ id \in Scheduled
        /\ UNCHANGED <<now, task, queue, capacity, event, slip>>
     \/ /\ id \notin Scheduled
        /\ OnScheduled(now + Millis(d), d[1])
        /\ capacity' = Grown(Len(queue))
        /\ Becomes(Add(Entered(id, NewTask(d)), id))
  /\ UNCHANGED <<phase, running, cancels>>

\* Cancel only marks the task; Routine removes it when its time comes.
Cancel(id) ==
  /\ May /\ id \in Scheduled
  /\ cancels < MaxCancels
  /\ cancels' = cancels + 1
  /\ task' = [task EXCEPT ![id].state = "CANCELLED"]
  /\ UNCHANGED <<now, queue, capacity, event, slip, phase, running, schedules>>

-----------------------------------------------------------------------------
(***************************************************************************)
(* The time event.                                                         *)
(***************************************************************************)
\* (mutant of TimeoutCB: the event only fires at its very time)
TimeoutCBExact ==
  /\ phase = "idle" /\ event # NONE /\ event = now
  /\ phase' = "routine"
  /\ UNCHANGED <<now, task, queue, capacity, event, slip, running, schedules, cancels>>

\* processTimeEvents calls TimeoutCB, which calls Routine.
TimeoutCB ==
  /\ phase = "idle" /\ event # NONE /\ event <= now
  /\ phase' = "routine"
  /\ UNCHANGED <<now, task, queue, capacity, event, slip, running, schedules, cancels>>

Min == queue[1]
Late == queue # <<>> /\ Time(Min) <= now

\* Routine is done: it returns how long the next task has time, which ae.c
\* adds to its own reading of the clock, or the event ends.
RoutineReturns ==
  /\ phase = "routine" /\ ~Late
  /\ \/ queue = <<>> /\ event' = NONE /\ UNCHANGED <<now, slip>>
     \/ queue # <<>> /\ SetEvent(Time(Min) - now)
  /\ phase' = "idle"
  /\ UNCHANGED <<task, queue, capacity, running, schedules, cancels>>

Due == phase = "routine" /\ Late

RunPeriodic ==
  /\ Due /\ task[Min].state = "SCHEDULED" /\ task[Min].period > 0
  /\ running' = Min /\ phase' = "run"
  /\ Becomes(RescheduleMin(Heap, now + task[Min].period))
  /\ UNCHANGED <<now, capacity, event, slip, schedules, cancels>>

RunOnce ==
  /\ Due /\ task[Min].state = "SCHEDULED" /\ task[Min].period = 0
  /\ running' = Min /\ phase' = "run"
  /\ \E h \in RemoveMin(Heap) : queue' = h.q /\ task' = [h.t EXCEPT ![Min].state = "EXECUTED"]
  /\ UNCHANGED <<now, capacity, event, slip, schedules, cancels>>

Without(f, id) == [i \in DOMAIN f \ {id} |-> f[i]]

\* Run returns; a task that runs once is terminated.
RunReturns ==
  /\ phase = "run"
  /\ task' = IF task[running].period > 0 THEN task ELSE Without(task, running)
  /\ running' = NONE /\ phase' = "routine"
  /\ UNCHANGED <<now, queue, capacity, event, slip, schedules, cancels>>

DropCancelled ==
  /\ Due /\ task[Min].state # "SCHEDULED"
  /\ \E h \in RemoveMin(Heap) : queue' = h.q /\ task' = Without(h.t, Min)
  /\ UNCHANGED <<now, capacity, event, slip, phase, running, schedules, cancels>>

Tick ==
  /\ now < MaxNow
  /\ now' = now + 1
  /\ UNCHANGED <<task, queue, capacity, event, slip, phase, running, schedules, cancels>>

-----------------------------------------------------------------------------
Routine == TimeoutCB \/ RoutineReturns \/ RunPeriodic \/ RunOnce \/ RunReturns \/ DropCancelled

TimerNext ==
  \/ \E id \in GenerateTimerTaskID, d \in Delays : Schedule(id, d)
  \/ \E id \in IDs : Cancel(id)
  \/ TimeoutCB \/ RoutineReturns \/ RunPeriodic \/ RunOnce \/ RunReturns \/ DropCancelled
  \/ Tick

\* The loop goes on, and so does time.
TimerSpec == TimerInit /\ [][TimerNext]_timerVars /\ WF_timerVars(Routine) /\ WF_timerVars(Tick)
-----------------------------------------------------------------------------
(***************************************************************************)
(* Properties.                                                             *)
(***************************************************************************)
TimerTypeOK ==
  /\ now \in 0..MaxNow /\ schedules \in 0..MaxSchedules
  /\ Scheduled \subseteq IDs
  /\ \A id \in Scheduled :
       /\ task[id].next \in Nat /\ task[id].period \in Nat
       /\ task[id].state \in {"SCHEDULED", "EXECUTED", "CANCELLED"}
  /\ \A i \in DOMAIN queue : queue[i] \in Scheduled
  /\ Len(queue) < capacity /\ slip \in Nat
  /\ phase \in {"idle", "routine", "run"}
  /\ running \in IDs \cup {NONE}

\* The heap is ordered, through additions, removals and periods: the task
\* Routine looks at is the nearest.
HeapOrder == \A k \in 2..Len(queue) : Time(queue[k \div 2]) <= Time(queue[k])

\* Every task in the heap knows its place, and the heap holds each task of the
\* table once, but for one that runs for the only time.
PlacesKnown ==
  /\ \A k \in DOMAIN queue : task[queue[k]].index = k
  /\ {queue[k] : k \in DOMAIN queue} =
       {id \in Scheduled : id # running \/ task[id].period > 0}

\* No task sleeps over its time: whenever the loop may go to sleep with tasks
\* left, the time event is there, and fires later than the first is due by no
\* more than passed between the two readings of the clock that set it.
Armed ==
  phase = "idle" /\ queue # <<>>
    => event # NONE /\ \A k \in DOMAIN queue : event <= Time(queue[k]) + slip

\* A task whose time comes is run, once or again and again, unless it is
\* cancelled first.
Runs ==
  \A id \in IDs :
    id \in Scheduled /\ task[id].next + MaxSlip <= MaxNow
      ~> id \notin Scheduled \/ running = id \/ task[id].state = "CANCELLED"

\* The heap and the table of tasks belong together, through every cancellation
\* and rescheduling: places, order and the room in the array.
HeapConsistent == TimerTypeOK /\ HeapOrder /\ PlacesKnown
=============================================================================
