----------------------------- MODULE Scheduler -----------------------------
(***************************************************************************)
(* The scheduler of src/c/scheduler.c: one thread that sleeps until the    *)
(* first schedule of a time ordered queue is due, and runs it itself, from *)
(* a thread pool or in a new thread, while clients create, add, remove,    *)
(* reset and delete schedules, start and stop the scheduler and free it.   *)
(*                                                                         *)
(* Times are relative to the clock: a start of 2 is two ticks ahead, a     *)
(* negative one is overdue.  One action is one critical section of the     *)
(* component mutex, or the part of it between two waits or callbacks.      *)
(***************************************************************************)
EXTENDS Integers, FiniteSets, ComponentState

CONSTANTS Schedules,
          Pooled,         \* schedules with a thread pool
          Concurrent,     \* schedules with the concurrent flag
          SetSyncs,       \* schedules whose sync flag clients change
          WithRunCb, WithAbortCb,
          Periods,        \* period of a new schedule
          Delays,         \* delays given to create, reset and add_randomised
          Repeats,        \* repeat counts, 0 for ever
          DefaultWake,    \* IOT_SCHEDULER_DEFAULT_WAKE
          MaxLate,        \* bound: ticks of lateness that are told apart
          MaxRuns,        \* bound: runs of one schedule in flight
          MaxUsers,       \* bound: references to the scheduler
          ThreadFails,    \* whether iot_thread_create may fail for a run
          TimelyExit,     \* whether free's sleeps outlast the scheduler thread
          None            \* no schedule

ASSUME SchedulerAssumption ==
  /\ IsFiniteSet(Schedules) /\ None \notin Schedules
  /\ Pooled \subseteq Schedules
  /\ Concurrent \subseteq Schedules /\ SetSyncs \subseteq Schedules
  /\ WithRunCb \subseteq Schedules /\ WithAbortCb \subseteq Schedules
  /\ Periods \subseteq Nat /\ Delays \subseteq Nat /\ Repeats \subseteq Nat
  /\ IsFiniteSet(Periods) /\ IsFiniteSet(Delays)   \* 64 bit in the code
  /\ DefaultWake \in Nat \ {0} /\ MaxRuns \in Nat \ {0} /\ MaxUsers \in Nat \ {0}
  /\ MaxLate \in Nat /\ MaxLate >= Cardinality(Schedules)
  /\ ThreadFails \in BOOLEAN /\ TimelyExit \in BOOLEAN

VARIABLES
  state, users,    \* component.state and component.refs
  freeStep,        \* progress of the iot_scheduler_free that was the last
  handle,          \* each schedule: "none", "held" by clients, "unlinked" by
                   \* the first half of iot_schedule_delete, or "gone"
  queued,          \* schedules in the queue map: those with scheduled set
  idle,            \* schedules in the idle map
  sync,            \* schedules the scheduler thread runs itself
  start,           \* start time, which is also the key in the queue
  period, repeat,
  refs,            \* schedule->refs
  running,         \* runs in the pool or in threads of their own
  spc,             \* where iot_scheduler_thread is
  current,         \* the schedule it holds across a callback
  schdTime         \* scheduler->schd_time

clientVars == <<state, users, freeStep>>
mapVars == <<handle, queued, idle, sync, start, period, repeat>>
runVars == <<refs, running>>
threadVars == <<spc, current, schdTime>>
vars == <<clientVars, mapVars, runVars, threadVars>>

MaxOf(S) == CHOOSE m \in S : \A n \in S : n =< m
Horizon == MaxOf(Periods \cup {0}) + MaxOf(Delays \cup {0}) + DefaultWake + Cardinality(Schedules)

TypeOK ==
  /\ state \in States /\ users \in 0..MaxUsers
  /\ freeStep \in {"none", "stop", "delete", "schedules", "freed"}
  /\ handle \in [Schedules -> {"none", "held", "unlinked", "gone"}]
  /\ queued \subseteq Schedules /\ idle \subseteq Schedules
  /\ sync \subseteq Schedules \ Concurrent
  /\ start \in [Schedules -> (-MaxLate)..Horizon]
  /\ period \in [Schedules -> Periods \cup {0}]
  /\ repeat \in [Schedules -> Nat]
  /\ refs \in [Schedules -> Nat] /\ running \in [Schedules -> 0..MaxRuns]
  /\ spc \in {"top", "statewait", "timedwait", "woken", "runcb", "abortcb", "exited"}
  /\ current \in Schedules \cup {None}
  /\ schdTime \in 0..Horizon

Init ==
  /\ state = "INITIAL" /\ users = 1 /\ freeStep = "none"
  /\ handle = [s \in Schedules |-> "none"]
  /\ queued = {} /\ idle = {} /\ sync = {}
  /\ start = [s \in Schedules |-> 0]
  /\ period = [s \in Schedules |-> 0] /\ repeat = [s \in Schedules |-> 0]
  /\ refs = [s \in Schedules |-> 0] /\ running = [s \in Schedules |-> 0]
  /\ spc = "top" /\ current = None /\ schdTime = 0

-----------------------------------------------------------------------------
(* Operators whose name ends in Slip are wrong on purpose: each is a mistake *)
(* the code could have, and some property of this module rejects it.         *)

(* iot_schedule_queue_add: the key is moved until it is unique.              *)
UniqueStartSlip(s, n, Q) == n
UniqueStart(s, n, Q) ==
  CHOOSE k \in n..(n + Cardinality(Q)) :
    /\ \A q \in Q \ {s} : start[q] # k
    /\ \A j \in n..(k - 1) : \E q \in Q \ {s} : start[q] = j

QueueAt(s, n) ==
  /\ queued' = queued \cup {s}
  /\ start' = [start EXCEPT ![s] = UniqueStart(s, n, queued)]

IsFront(s) == \A q \in queued' \ {s} : start'[q] > start'[s]

FrontSlip == CHOOSE s \in queued : \A q \in queued : start[q] =< start[s]
Front == CHOOSE s \in queued : \A q \in queued : start[s] =< start[q]

(* Late schedules keep their order when their lateness is no longer counted. *)
Floor(s) ==
  Cardinality({q \in queued \cup idle : start[q] < start[s]}) - MaxLate

Tick ==
  /\ start' = [s \in Schedules |->
                 IF s \notin queued \cup idle THEN 0
                 ELSE IF start[s] - 1 > Floor(s) THEN start[s] - 1 ELSE Floor(s)]
  /\ schdTime' = IF schdTime > 0 THEN schdTime - 1 ELSE 0
  /\ UNCHANGED <<clientVars, handle, queued, idle, sync, period, repeat, runVars, spc, current>>

-----------------------------------------------------------------------------
(* iot_scheduler_thread *)

ThreadTop ==
  /\ spc = "top"
  /\ spc' = CASE state = "DELETED" -> "exited"
              [] state = "RUNNING" -> "timedwait"
              [] OTHER -> "statewait"
  /\ UNCHANGED <<clientVars, mapVars, runVars, current, schdTime>>

TimedOut ==
  /\ spc = "timedwait" /\ schdTime = 0
  /\ spc' = "woken"
  /\ UNCHANGED <<clientVars, mapVars, runVars, current, schdTime>>

SpuriousWakeup ==
  /\ spc \in {"statewait", "timedwait"}
  /\ spc' = IF spc = "timedwait" THEN "woken" ELSE "top"
  /\ UNCHANGED <<clientVars, mapVars, runVars, current, schdTime>>

ThreadNotRunning ==
  /\ spc = "woken" /\ state # "RUNNING"
  /\ spc' = IF state = "DELETED" THEN "exited" ELSE "top"
  /\ UNCHANGED <<clientVars, mapVars, runVars, current, schdTime>>

Due == queued # {} /\ start[Front] < 0

(* Lines 255 to 257, with the queue as the pass leaves it.                   *)
EndPass ==
  /\ schdTime' = IF queued' = {} THEN DefaultWake
                 ELSE LET first == start'[CHOOSE s \in queued' :
                                            \A q \in queued' : start'[s] =< start'[q]]
                      IN IF first > 0 THEN first ELSE 0
  /\ spc' = "top"
  /\ current' = None

NothingDue ==
  /\ spc = "woken" /\ state = "RUNNING" /\ ~Due
  /\ UNCHANGED <<clientVars, mapVars, runVars>>
  /\ EndPass

RepeatLeftSlip(s) == repeat[s] - 1      \* also counts down from 0, for ever
RepeatLeft(s) == IF repeat[s] > 0 THEN repeat[s] - 1 ELSE 0

(* Lines 232 to 252: the schedule handled is requeued, or idle after its     *)
(* last repetition, unless it was found to have left the queue.              *)
Requeue(s, valid) ==
  /\ IF ~valid THEN UNCHANGED <<queued, idle, start, repeat>>
     ELSE IF repeat[s] = 1
     THEN /\ repeat' = [repeat EXCEPT ![s] = 0]
          /\ queued' = queued \ {s}
          /\ idle' = idle \cup {s}
          /\ UNCHANGED start
     ELSE /\ repeat' = [repeat EXCEPT ![s] = RepeatLeft(s)]
          /\ QueueAt(s, period[s])
          /\ UNCHANGED idle
  /\ UNCHANGED <<clientVars, handle, sync, period>>
  /\ EndPass

MayRunSlip(s) == refs[s] =< 2
MayRun(s) == s \in Concurrent \/ refs[s] = 1

SkipRunning ==
  /\ spc = "woken" /\ state = "RUNNING" /\ Due /\ ~MayRun(Front)
  /\ Requeue(Front, TRUE)
  /\ UNCHANGED runVars

ValidAfterAbortSlip(s) == refs[s] > 1
ValidAfterAbort(s) == refs[s] > 1 /\ s \in queued

(* A run that cannot be started: the reference taken for it, still counted   *)
(* in refs, is dropped after `valid' is read.                                *)
Aborted(s, valid) ==
  /\ refs' = [refs EXCEPT ![s] = @ - 1]
  /\ UNCHANGED running
  /\ Requeue(s, valid)

(* The reference for the run moves to it; a sync run is over when the action *)
(* is, the scheduler thread has called it with the mutex held.  With r the   *)
(* references before the run's is taken, this is lines 192 to 225.           *)
Dispatch(s, r, valid) ==
  \/ /\ s \in sync
     /\ refs' = [refs EXCEPT ![s] = r]
     /\ UNCHANGED running
     /\ Requeue(s, valid)
  \/ /\ s \notin sync /\ running[s] < MaxRuns
     /\ refs' = [refs EXCEPT ![s] = r + 1]
     /\ running' = [running EXCEPT ![s] = @ + 1]
     /\ Requeue(s, valid)
  \/ /\ s \in Pooled \ sync /\ s \notin WithAbortCb
     /\ refs' = [refs EXCEPT ![s] = r]
     /\ UNCHANGED running
     /\ Requeue(s, r > 0 /\ s \in queued)
  \/ /\ s \in (Pooled \cap WithAbortCb) \ sync
     /\ refs' = [refs EXCEPT ![s] = r + 1]
     /\ spc' = "abortcb" /\ current' = s
     /\ UNCHANGED <<clientVars, mapVars, running, schdTime>>
  \/ /\ s \notin sync \cup Pooled /\ ThreadFails
     /\ refs' = [refs EXCEPT ![s] = r]
     /\ UNCHANGED running
     /\ Requeue(s, r > 0)

RunWithoutCallback ==
  /\ spc = "woken" /\ state = "RUNNING" /\ Due
  /\ MayRun(Front) /\ Front \notin WithRunCb
  /\ Dispatch(Front, refs[Front], TRUE)

CallRunCb ==
  /\ spc = "woken" /\ state = "RUNNING" /\ Due
  /\ MayRun(Front) /\ Front \in WithRunCb
  /\ refs' = [refs EXCEPT ![Front] = @ + 1]
  /\ spc' = "runcb" /\ current' = Front
  /\ UNCHANGED <<clientVars, mapVars, running, schdTime>>

ValidAfterCbSlip(s) == TRUE
ValidAfterCb(s) == s \in queued

(* run_cb has returned and the mutex is held again.                          *)
RunCbReturns ==
  /\ spc = "runcb"
  /\ Dispatch(current, refs[current] - 1, ValidAfterCb(current))

AbortCbReturns ==
  /\ spc = "abortcb"
  /\ Aborted(current, ValidAfterAbort(current))

Thread ==
  \/ ThreadTop \/ TimedOut \/ ThreadNotRunning \/ NothingDue \/ SkipRunning
  \/ RunWithoutCallback \/ CallRunCb \/ RunCbReturns \/ AbortCbReturns

(* schedule_fn in a pool or in its own thread: the function returns and the  *)
(* reference of the run is dropped.                                          *)
RunEnds(s) ==
  /\ running[s] > 0
  /\ running' = [running EXCEPT ![s] = @ - 1]
  /\ refs' = [refs EXCEPT ![s] = @ - 1]
  /\ UNCHANGED <<clientVars, mapVars, threadVars>>

-----------------------------------------------------------------------------
(* Clients *)

InUse == users > 0

Create(s) ==
  /\ InUse /\ handle[s] = "none"
  /\ handle' = [handle EXCEPT ![s] = "held"]
  /\ \E d \in Delays : start' = [start EXCEPT ![s] = d]
  /\ \E p \in Periods : period' = [period EXCEPT ![s] = p]
  /\ \E n \in Repeats : repeat' = [repeat EXCEPT ![s] = n]
  /\ refs' = [refs EXCEPT ![s] = 1]
  /\ idle' = idle \cup {s}
  /\ UNCHANGED <<clientVars, queued, sync, running, threadVars>>

(* pthread_cond_signal on component.cond, where only this thread sleeps.     *)
WakeIf(cond) ==
  spc' = IF cond /\ state = "RUNNING"
         THEN CASE spc = "timedwait" -> "woken" [] spc = "statewait" -> "top" [] OTHER -> spc
         ELSE spc

Add(s) ==
  /\ InUse /\ handle[s] = "held" /\ s \notin queued
  /\ idle' = idle \ {s}
  /\ QueueAt(s, start[s])
  /\ WakeIf(IsFront(s))
  /\ UNCHANGED <<clientVars, handle, sync, period, repeat, runVars, current, schdTime>>

(* First half of iot_schedule_add_randomised; the second is Add.  Its        *)
(* callers add schedules that are not queued.                                *)
RandomiseStart(s) ==
  /\ InUse /\ handle[s] = "held" /\ s \notin queued
  /\ \E d \in Delays : start' = [start EXCEPT ![s] = d]
  /\ UNCHANGED <<clientVars, handle, queued, idle, sync, period, repeat, runVars, threadVars>>

Remove(s) ==
  /\ InUse /\ handle[s] = "held" /\ s \in queued
  /\ queued' = queued \ {s}
  /\ idle' = idle \cup {s}
  /\ UNCHANGED <<clientVars, handle, sync, start, period, repeat, runVars, threadVars>>

Reset(s) ==
  /\ InUse /\ handle[s] = "held"
  /\ \E d \in Delays :
       IF s \in queued
       THEN QueueAt(s, period[s] + d) /\ WakeIf(IsFront(s))
       ELSE /\ start' = [start EXCEPT ![s] = period[s] + d]
            /\ UNCHANGED <<queued, spc>>
  /\ UNCHANGED <<clientVars, handle, idle, sync, period, repeat, runVars, current, schdTime>>

(* iot_schedule_set_sync: refused for a concurrent schedule.                 *)
SetSync(s, enable) ==
  /\ InUse /\ handle[s] = "held" /\ s \in SetSyncs
  /\ ~(enable /\ s \in Concurrent)
  /\ sync' = IF enable THEN sync \cup {s} ELSE sync \ {s}
  /\ UNCHANGED <<clientVars, handle, queued, idle, start, period, repeat, runVars, threadVars>>

(* iot_schedule_delete under the mutex, then its iot_schedule_free.          *)
DeleteUnlink(s) ==
  /\ InUse /\ handle[s] = "held"
  /\ handle' = [handle EXCEPT ![s] = "unlinked"]
  /\ IF s \in queued THEN queued' = queued \ {s} /\ UNCHANGED idle
                     ELSE idle' = idle \ {s} /\ UNCHANGED queued
  /\ UNCHANGED <<clientVars, sync, start, period, repeat, runVars, threadVars>>

DeleteFree(s) ==
  /\ handle[s] = "unlinked"
  /\ handle' = [handle EXCEPT ![s] = "gone"]
  /\ refs' = [refs EXCEPT ![s] = @ - 1]
  /\ UNCHANGED <<clientVars, queued, idle, sync, start, period, repeat, running, threadVars>>

(* iot_component_set_state and its broadcast.                                *)
StateWakesSlip(new) == spc
StateWakes(new) ==
  IF ~SetStateValid(state, new) THEN spc
  ELSE CASE spc = "statewait" -> "top" [] spc = "timedwait" -> "woken" [] OTHER -> spc

SetState(new) ==
  /\ state' = AfterSetState(state, new)
  /\ spc' = StateWakes(new)
  /\ UNCHANGED <<mapVars, runVars, current, schdTime>>

StartScheduler == InUse /\ SetState("RUNNING") /\ UNCHANGED <<users, freeStep>>
StopScheduler == InUse /\ SetState("STOPPED") /\ UNCHANGED <<users, freeStep>>

AddRef ==
  /\ InUse /\ users < MaxUsers
  /\ users' = users + 1
  /\ UNCHANGED <<state, freeStep, mapVars, runVars, threadVars>>

FreeScheduler ==
  /\ InUse
  /\ users = 1 => \A s \in Schedules : handle[s] # "unlinked"
  /\ users' = users - 1
  /\ freeStep' = IF users = 1 THEN "stop" ELSE freeStep
  /\ UNCHANGED <<state, mapVars, runVars, threadVars>>

FreeStop ==
  /\ freeStep = "stop" /\ SetState("STOPPED")
  /\ freeStep' = "delete" /\ UNCHANGED users

FreeDelete ==
  /\ freeStep = "delete" /\ SetState("DELETED")
  /\ freeStep' = "schedules" /\ UNCHANGED users

(* The maps, the schedules in them and the scheduler itself.  The sleep      *)
(* before this is all that waits for the scheduler thread.                   *)
FreeSchedules ==
  /\ freeStep = "schedules"
  /\ TimelyExit => spc = "exited"
  /\ refs' = [s \in Schedules |-> IF s \in queued \cup idle THEN refs[s] - 1 ELSE refs[s]]
  /\ handle' = [s \in Schedules |-> IF s \in queued \cup idle THEN "gone" ELSE handle[s]]
  /\ queued' = {} /\ idle' = {}
  /\ freeStep' = "freed"
  /\ UNCHANGED <<state, users, sync, start, period, repeat, running, threadVars>>

Free == FreeStop \/ FreeDelete \/ FreeSchedules

Client ==
  \/ \E s \in Schedules : \/ Create(s) \/ Add(s) \/ RandomiseStart(s) \/ Remove(s)
                          \/ Reset(s) \/ DeleteUnlink(s) \/ SetSync(s, TRUE) \/ SetSync(s, FALSE)
  \/ StartScheduler \/ StopScheduler \/ AddRef \/ FreeScheduler

Next ==
  \/ Tick \/ Thread \/ SpuriousWakeup \/ Client \/ Free
  \/ \E s \in Schedules : RunEnds(s) \/ DeleteFree(s)

(* Time passes, the scheduler thread and a free in progress go on, and the   *)
(* callbacks and sync functions that run on that thread return.  Functions   *)
(* that run elsewhere need not.                                              *)
Fairness == WF_vars(Tick) /\ WF_vars(Thread) /\ WF_vars(Free)

Spec == Init /\ [][Next]_vars
FairSpec == Spec /\ Fairness

-----------------------------------------------------------------------------
(* A schedule its clients hold is in one of the two maps, never in both, and *)
(* a deleted one is in neither: what a client does while the scheduler       *)
(* thread is in a callback is not undone (scheduler.c:187, 205).  In the     *)
(* queue it has its start, which is the key, for itself (lines 48, 94).      *)
InOneMap ==
  /\ \A s \in Schedules : IF handle[s] = "held" THEN (s \in queued) # (s \in idle)
                                                 ELSE s \notin queued \cup idle
  /\ \A s, q \in queued : start[s] = start[q] => s = q

(* The references counted are those that exist: the clients' handle, one for *)
(* each run and the scheduler thread's.  A schedule is freed with the last,  *)
(* so what a map or the thread still points to has not been freed.           *)
NoUseAfterFree == \A s \in Schedules :
  /\ refs[s] = running[s] + (IF handle[s] \in {"held", "unlinked"} THEN 1 ELSE 0)
                          + (IF current = s THEN 1 ELSE 0)
  /\ s \in queued \cup idle \/ current = s => refs[s] > 0

(* A schedule that is not concurrent never runs twice at once, whatever its  *)
(* clients do between its runs (line 181).                                   *)
NoOverlap == \A s \in Schedules \ Concurrent :
  running[s] + (IF current = s THEN 1 ELSE 0) =< 1

(* While the scheduler stays running an overdue schedule is handled, also    *)
(* when the thread missed the signal for it and sleeps out a later schd_time *)
(* first.  A client that removes and adds for ever a schedule with an older  *)
(* start could starve the others.                                            *)
DueHandled == \A s \in Schedules :
  <>[](state = "RUNNING") /\ <>[][\A r \in Schedules : ~Remove(r)]_vars =>
    (s \in queued /\ start[s] < 0 ~> s \notin queued \/ start[s] >= 0)

(* iot_scheduler_free gets the thread out of both waits and ends (lines 451, *)
(* 453).                                                                     *)
FreeCompletes == freeStep = "stop" ~> freeStep = "freed"

(* schd_time is the "Time for next schedule" (line 51): a thread asleep on   *)
(* it wakes when the first schedule is due.                                  *)
WakesInTime ==
  spc = "timedwait" /\ state = "RUNNING" /\ queued # {} =>
    schdTime =< (IF start[Front] > 0 THEN start[Front] ELSE 0)

(* The scheduler is freed after its thread was broken out of its waits       *)
(* (comments of lines 451 and 453), so the thread never touches it again.    *)
FreedAfterExit == freeStep = "freed" => spc = "exited"

=============================================================================
