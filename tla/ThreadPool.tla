----------------------------- MODULE ThreadPool -----------------------------
(***************************************************************************)
(* The thread pool of src/c/threadpool.c: worker threads that pull jobs    *)
(* from a bounded priority queue, callers that add jobs, wait for the pool *)
(* to drain, start, stop and free it, and jobs that call back into their   *)
(* own pool.                                                               *)
(*                                                                         *)
(* Every critical section of the component mutex is one action: between    *)
(* lock and unlock, or up to a pthread_cond_wait, no other thread sees the *)
(* pool's fields.  A caller between two critical sections is at a program  *)
(* counter of its own.                                                     *)
(***************************************************************************)
EXTENDS Integers, FiniteSets, SequencesExt, CondVar, ComponentState

CONSTANTS Threads,      \* thread_array
          Clients,      \* threads of the program that use the pool
          Creator,      \* the client that allocates the pool
          Waiters,      \* the clients that call iot_threadpool_wait
          JobCalls,     \* pool calls a running job makes: some of "add", "try"
          MaxJobs,      \* the max_jobs argument, 0 for no limit
          UINT32_MAX,   \* the limit when there is none
          Priorities,   \* priorities callers give their jobs
          MaxSubmit,    \* bound: jobs submitted in one behaviour
          CreateFails,  \* bound: whether iot_thread_create may fail
          None          \* no thread, no job

NO_PRIORITY == -1       \* IOT_THREAD_NO_PRIORITY

ASSUME PoolAssumption ==
  /\ IsFiniteSet(Threads) /\ IsFiniteSet(Clients)
  /\ Threads \cap Clients = {} /\ None \notin Threads \cup Clients
  /\ Creator \in Clients /\ Waiters \subseteq Clients
  /\ JobCalls \subseteq {"add", "try"}
  /\ MaxJobs \in Nat /\ UINT32_MAX \in Nat \ {0} /\ MaxSubmit \in Nat
  /\ Priorities \subseteq Nat \cup {NO_PRIORITY}
  /\ CreateFails \in BOOLEAN

Callers == Clients \cup Threads
maxJobs == IF MaxJobs # 0 THEN MaxJobs ELSE UINT32_MAX

VARIABLES
  state,          \* component.state
  refs,           \* component.refs
  clientRefs,     \* clients that hold a counted reference
  jobRefs,        \* ids of the jobs whose argument holds one
  allocStep,      \* progress of iot_threadpool_alloc
  created,        \* pool->created
  queue,          \* the list from front to rear
  jobs, working,  \* the counters of the same names
  nextId,         \* pool->next_id
  wpc,            \* where each worker is in iot_threadpool_thread
  wjob,           \* the worker's copy of the job it runs
  pendingDelete,  \* workers with pending_delete set
  deletedThreads, \* workers with deleted set
  cpc,            \* where each caller is in the pool's functions
  freer,          \* the caller whose dec_ref was the last, once there is one
  freeStep,       \* its progress in iot_threadpool_free
  freed           \* times iot_threadpool_final_free has run

poolVars == <<state, refs, clientRefs, jobRefs, allocStep, created>>
jobVars == <<queue, jobs, working, nextId>>
workerVars == <<wpc, wjob, pendingDelete, deletedThreads>>
freeVars == <<freer, freeStep, freed>>
vars == <<poolVars, jobVars, workerVars, cpc, freeVars>>

Job == [id : Nat, priority : Priorities]

TypeOK ==
  /\ state \in States
  /\ refs \in Nat /\ created \in Nat
  /\ clientRefs \subseteq Clients /\ jobRefs \subseteq Nat
  /\ allocStep \in {"create", "wait", "done"}
  /\ queue \in Seq(Job)
  /\ jobs \in 0..maxJobs /\ working \in Nat /\ nextId \in Nat
  /\ wpc \in [Threads -> {"none", "new", "top", "statewait", "jobwait", "run",
                          "exit", "exitFree", "final", "exited"}]
  /\ wjob \in [Threads -> Job \cup {None}]
  /\ pendingDelete \subseteq Threads /\ deletedThreads \subseteq Threads
  /\ cpc \in [Callers -> {"idle", "add", "spacewait", "wait", "workwait", "bcast"}]
  /\ freer \in Callers \cup {None}
  /\ freeStep \in {"none", "mark", "stop", "bcast", "delete", "join", "final", "returned"}
  /\ freed \in Nat

Init ==
  /\ state = "INITIAL" /\ refs = 1 /\ clientRefs = {Creator} /\ jobRefs = {}
  /\ allocStep = "create" /\ created = 0
  /\ queue = <<>> /\ jobs = 0 /\ working = 0 /\ nextId = 0
  /\ wpc = [t \in Threads |-> "none"] /\ wjob = [t \in Threads |-> None]
  /\ pendingDelete = {} /\ deletedThreads = {}
  /\ cpc = [c \in Callers |-> "idle"]
  /\ freer = None /\ freeStep = "none" /\ freed = 0

-----------------------------------------------------------------------------
(* iot_threadpool_alloc *)

CreateThread(t) ==
  /\ allocStep = "create" /\ wpc[t] = "none"
  /\ wpc' = [wpc EXCEPT ![t] = "new"]
  /\ UNCHANGED <<poolVars, jobVars, wjob, pendingDelete, deletedThreads, cpc, freeVars>>

EndCreate ==
  /\ allocStep = "create"
  /\ CreateFails \/ \A t \in Threads : wpc[t] # "none"
  /\ allocStep' = "wait"
  /\ UNCHANGED <<state, refs, clientRefs, jobRefs, created, jobVars, workerVars, cpc, freeVars>>

AllocReturns ==
  /\ allocStep = "wait"
  /\ created = Cardinality({t \in Threads : wpc[t] # "none"})
  /\ allocStep' = "done"
  /\ UNCHANGED <<state, refs, clientRefs, jobRefs, created, jobVars, workerVars, cpc, freeVars>>

-----------------------------------------------------------------------------
(* iot_threadpool_thread *)

WorkerStart(t) ==
  /\ wpc[t] = "new"
  /\ created' = created + 1
  /\ wpc' = [wpc EXCEPT ![t] = "top"]
  /\ UNCHANGED <<state, refs, clientRefs, jobRefs, allocStep, jobVars, wjob,
                 pendingDelete, deletedThreads, cpc, freeVars>>

WorkerStateWait(t) ==
  /\ wpc[t] = "top" /\ state \notin {"RUNNING", "DELETED"}
  /\ wpc' = [wpc EXCEPT ![t] = "statewait"]
  /\ UNCHANGED <<poolVars, jobVars, wjob, pendingDelete, deletedThreads, cpc, freeVars>>

WorkerLeave(t) ==
  /\ wpc[t] = "top" /\ state = "DELETED"
  /\ deletedThreads' = deletedThreads \cup {t}
  /\ wpc' = [wpc EXCEPT ![t] = IF t \in pendingDelete THEN "exitFree" ELSE "exit"]
  /\ UNCHANGED <<poolVars, jobVars, wjob, pendingDelete, cpc, freeVars>>

(* Operators whose name ends in Slip are wrong on purpose: each is a mistake *)
(* the code could have, and some property of this module rejects it.         *)
AfterPullSlip == IF jobs =< 2 THEN <<>> ELSE Tail(queue)
AfterPull == IF jobs = 1 THEN <<>> ELSE Tail(queue)

FreesSpaceSlip == jobs = maxJobs + 1   \* max_jobs compared before the decrement
FreesSpace == jobs = maxJobs

SpaceWakesSlip(pc) ==                  \* one caller woken, for the one place
  IF FreesSpace THEN Signal(pc, "spacewait", "add") ELSE {pc}
(* Every blocked caller is woken when the list stops being full: nobody      *)
(* signals them for the places that come after.                              *)
SpaceWakes(pc) ==
  IF FreesSpace THEN {Broadcast(pc, "spacewait", "add")} ELSE {pc}

WorkerPull(t) ==
  /\ wpc[t] = "top" /\ state = "RUNNING" /\ queue # <<>>
  /\ wjob' = [wjob EXCEPT ![t] = Head(queue)]
  /\ wpc' = [wpc EXCEPT ![t] = "run"]
  /\ queue' = AfterPull
  /\ jobs' = jobs - 1
  /\ working' = working + 1
  /\ \E pc \in IF jobs = 1 THEN Signal(cpc, "workwait", "wait") ELSE {cpc} :
       cpc' \in SpaceWakes(pc)
  /\ UNCHANGED <<poolVars, nextId, pendingDelete, deletedThreads, freeVars>>

WorkerJobWait(t) ==
  /\ wpc[t] = "top" /\ state = "RUNNING" /\ queue = <<>>
  /\ wpc' = [wpc EXCEPT ![t] = "jobwait"]
  /\ UNCHANGED <<poolVars, jobVars, wjob, pendingDelete, deletedThreads, cpc, freeVars>>

LastWorkingSlip == working = 0         \* tested before the decrement
LastWorking == working = 1

(* The job function returns and the worker takes the mutex again. *)
WorkerDone(t) ==
  /\ wpc[t] = "run" /\ cpc[t] = "idle"
  /\ freer = t => freeStep = "returned"
  /\ wpc' = [wpc EXCEPT ![t] = "top"]
  /\ wjob' = [wjob EXCEPT ![t] = None]
  /\ working' = working - 1
  /\ cpc' \in IF LastWorking THEN Signal(cpc, "workwait", "wait") ELSE {cpc}
  /\ UNCHANGED <<poolVars, queue, jobs, nextId, pendingDelete, deletedThreads, freeVars>>

WorkerExit(t) ==
  /\ wpc[t] \in {"exit", "exitFree"}
  /\ created' = created - 1
  /\ wpc' = [wpc EXCEPT ![t] = IF @ = "exitFree" THEN "final" ELSE "exited"]
  /\ UNCHANGED <<state, refs, clientRefs, jobRefs, allocStep, jobVars, wjob,
                 pendingDelete, deletedThreads, cpc, freeVars>>

WorkerFinalFree(t) ==
  /\ wpc[t] = "final"
  /\ wpc' = [wpc EXCEPT ![t] = "exited"]
  /\ freed' = freed + 1
  /\ UNCHANGED <<poolVars, jobVars, wjob, pendingDelete, deletedThreads, cpc, freer, freeStep>>

-----------------------------------------------------------------------------
(* Callers.  A client may use the pool while it holds a reference; a job may *)
(* use it while it runs, which is what keeps the pool from being freed.      *)

MayCall(c, call) ==
  /\ allocStep = "done" /\ cpc[c] = "idle" /\ freer # c
  /\ \/ c \in clientRefs
     \/ c \in Threads /\ wpc[c] = "run" /\ call \in JobCalls

(* Bound: calls that have added or will add a job. *)
SubmitsLeft == nextId + Cardinality({c \in Callers : cpc[c] \in {"add", "spacewait"}}) < MaxSubmit

GoesBeforeSlip(p, job) ==              \* equal priorities served last in first out
  p # NO_PRIORITY /\ (job.priority = NO_PRIORITY \/ job.priority =< p)

(* The scan of iot_threadpool_add_work_locked stops before the first job of  *)
(* a lower rank; a job without a priority goes to the back.                  *)
GoesBefore(p, job) ==
  p # NO_PRIORITY /\ (job.priority = NO_PRIORITY \/ job.priority < p)

ScanStopsAt(p, n) ==
  /\ \A i \in 1..(n - 1) : ~GoesBefore(p, queue[i])
  /\ n =< Len(queue) => GoesBefore(p, queue[n])

NewJobWakesSlip ==                     \* signals only when the queue was empty
  IF jobs = 0 THEN Signal(wpc, "jobwait", "top") ELSE {wpc}
NewJobWakes == Signal(wpc, "jobwait", "top")

(* The job's argument may hold a reference, taken by its submitter. *)
AddWorkLocked ==
  \E p \in Priorities, n \in 1..(Len(queue) + 1), ref \in BOOLEAN :
    /\ ScanStopsAt(p, n)
    /\ queue' = InsertAt(queue, n, [id |-> nextId, priority |-> p])
    /\ jobs' = jobs + 1
    /\ nextId' = nextId + 1
    /\ ref => freeStep = "none"
    /\ refs' = IF ref THEN refs + 1 ELSE refs
    /\ jobRefs' = IF ref THEN jobRefs \cup {nextId} ELSE jobRefs
    /\ wpc' \in NewJobWakes
    /\ UNCHANGED <<state, clientRefs, allocStep, created, working, wjob,
                   pendingDelete, deletedThreads, freeVars>>

HasSpaceSlip == jobs =< maxJobs
HasSpace == jobs < maxJobs

(* Without space iot_threadpool_try_work returns false and changes nothing.  *)
TryWork(c) ==
  /\ MayCall(c, "try") /\ SubmitsLeft /\ HasSpace
  /\ AddWorkLocked
  /\ UNCHANGED cpc

CallAddWork(c) ==
  /\ MayCall(c, "add") /\ SubmitsLeft
  /\ cpc' = [cpc EXCEPT ![c] = "add"]
  /\ UNCHANGED <<poolVars, jobVars, workerVars, freeVars>>

AddWorkBlocks(c) ==
  /\ cpc[c] = "add" /\ jobs = maxJobs
  /\ cpc' = [cpc EXCEPT ![c] = "spacewait"]
  /\ UNCHANGED <<poolVars, jobVars, workerVars, freeVars>>

AddWork(c) ==
  /\ cpc[c] = "add" /\ jobs # maxJobs
  /\ AddWorkLocked
  /\ cpc' = [cpc EXCEPT ![c] = "idle"]

CallWait(c) ==
  /\ c \in Waiters /\ MayCall(c, "wait")
  /\ cpc' = [cpc EXCEPT ![c] = "wait"]
  /\ UNCHANGED <<poolVars, jobVars, workerVars, freeVars>>

WaitBlocks(c) ==
  /\ cpc[c] = "wait" /\ (jobs # 0 \/ working # 0)
  /\ cpc' = [cpc EXCEPT ![c] = "workwait"]
  /\ UNCHANGED <<poolVars, jobVars, workerVars, freeVars>>

WaitReturns(c) ==
  /\ cpc[c] = "wait" /\ jobs = 0 /\ working = 0
  /\ cpc' = [cpc EXCEPT ![c] = "idle"]
  /\ UNCHANGED <<poolVars, jobVars, workerVars, freeVars>>

StateWakesSlip(new) == wpc             \* set_state without its broadcast
(* iot_component_set_state: the broadcast on component.cond wakes the        *)
(* workers that wait for a state.                                            *)
StateWakes(new) ==
  IF SetStateValid(state, new) THEN Broadcast(wpc, "statewait", "top") ELSE wpc

SetState(new) ==
  /\ state' = AfterSetState(state, new)
  /\ wpc' = StateWakes(new)
  /\ UNCHANGED <<refs, clientRefs, jobRefs, allocStep, created, jobVars, wjob,
                 pendingDelete, deletedThreads>>

Start(c) ==
  /\ MayCall(c, "start")
  /\ SetState("RUNNING")
  /\ cpc' = [cpc EXCEPT ![c] = "bcast"]
  /\ UNCHANGED freeVars

Stop(c) ==
  /\ MayCall(c, "stop")
  /\ SetState("STOPPED")
  /\ cpc' = [cpc EXCEPT ![c] = "bcast"]
  /\ UNCHANGED freeVars

JobWakesSlip == wpc                    \* stop without its broadcast on job_cond
JobWakes == Broadcast(wpc, "jobwait", "top")

(* Second critical section of start and of stop. *)
BroadcastJobs(c) ==
  /\ cpc[c] = "bcast"
  /\ wpc' = JobWakes
  /\ cpc' = [cpc EXCEPT ![c] = "idle"]
  /\ UNCHANGED <<poolVars, jobVars, wjob, pendingDelete, deletedThreads, freeVars>>

(* iot_threadpool_add_ref: somebody who holds a reference gives c one. *)
AddRef(c) ==
  /\ allocStep = "done" /\ c \notin clientRefs /\ clientRefs # {}
  /\ refs' = refs + 1
  /\ clientRefs' = clientRefs \cup {c}
  /\ UNCHANGED <<state, jobRefs, allocStep, created, jobVars, workerVars, cpc, freeVars>>

-----------------------------------------------------------------------------
(* iot_threadpool_free, called by a client or by the job that holds a        *)
(* reference.                                                                *)

DropRef(c) ==
  /\ refs' = refs - 1
  /\ IF refs =< 1 THEN freer' = c /\ freeStep' = "mark"
                  ELSE UNCHANGED <<freer, freeStep>>
  /\ UNCHANGED <<state, allocStep, created, jobVars, workerVars, cpc, freed>>

ClientFree(c) ==
  /\ allocStep = "done" /\ c \in clientRefs /\ cpc[c] = "idle"
  /\ clientRefs' = clientRefs \ {c}
  /\ DropRef(c)
  /\ UNCHANGED jobRefs

JobFree(t) ==
  /\ wpc[t] = "run" /\ cpc[t] = "idle" /\ wjob[t].id \in jobRefs
  /\ jobRefs' = jobRefs \ {wjob[t].id}
  /\ DropRef(t)
  /\ UNCHANGED clientRefs

SelfDelete == freer \in pendingDelete

FreeMark ==
  /\ freeStep = "mark"
  /\ pendingDelete' = pendingDelete \cup (({freer} \cap Threads) \ deletedThreads)
  /\ freeStep' = "stop"
  /\ UNCHANGED <<poolVars, jobVars, wpc, wjob, deletedThreads, cpc, freer, freed>>

FreeStop ==
  /\ freeStep = "stop"
  /\ SetState("STOPPED")
  /\ freeStep' = "bcast"
  /\ UNCHANGED <<cpc, freer, freed>>

FreeBroadcast ==
  /\ freeStep = "bcast"
  /\ wpc' = JobWakes
  /\ freeStep' = "delete"
  /\ UNCHANGED <<poolVars, jobVars, wjob, pendingDelete, deletedThreads, cpc, freer, freed>>

FreeDelete ==
  /\ freeStep = "delete"
  /\ SetState("DELETED")
  /\ freeStep' = "join"
  /\ UNCHANGED <<cpc, freer, freed>>

ThreadsLeftSlip == 1                   \* the self delete allowance given to all
ThreadsLeft == IF SelfDelete THEN 1 ELSE 0

(* The wait for the workers, then the free of the jobs left in the list. *)
FreeJoin ==
  /\ freeStep = "join" /\ created =< ThreadsLeft
  /\ queue' = <<>>
  /\ freeStep' = "final"
  /\ UNCHANGED <<poolVars, jobs, working, nextId, workerVars, cpc, freer, freed>>

FreeFinal ==
  /\ freeStep = "final"
  /\ freed' = IF SelfDelete THEN freed ELSE freed + 1
  /\ freeStep' = "returned"
  /\ UNCHANGED <<poolVars, jobVars, workerVars, cpc, freer>>

-----------------------------------------------------------------------------
(* pthread_cond_wait may return without a signal. *)
SpuriousWakeup ==
  \/ \E t \in Threads :
       /\ wpc[t] \in {"statewait", "jobwait"}
       /\ wpc' = [wpc EXCEPT ![t] = "top"]
       /\ UNCHANGED <<poolVars, jobVars, wjob, pendingDelete, deletedThreads, cpc, freeVars>>
  \/ \E c \in Callers :
       /\ cpc[c] \in {"spacewait", "workwait"}
       /\ cpc' = [cpc EXCEPT ![c] = IF @ = "spacewait" THEN "add" ELSE "wait"]
       /\ UNCHANGED <<poolVars, jobVars, workerVars, freeVars>>

Worker(t) ==
  \/ WorkerStart(t) \/ WorkerStateWait(t) \/ WorkerLeave(t) \/ WorkerPull(t)
  \/ WorkerJobWait(t) \/ WorkerDone(t) \/ WorkerExit(t) \/ WorkerFinalFree(t)

(* The steps a caller takes once it is inside a call. *)
InCall(c) ==
  \/ AddWorkBlocks(c) \/ AddWork(c) \/ WaitBlocks(c) \/ WaitReturns(c) \/ BroadcastJobs(c)

BeginsCall(c) ==
  \/ TryWork(c) \/ CallAddWork(c) \/ CallWait(c) \/ Start(c) \/ Stop(c)

Free ==
  FreeMark \/ FreeStop \/ FreeBroadcast \/ FreeDelete \/ FreeJoin \/ FreeFinal

Alloc == (\E t \in Threads : CreateThread(t)) \/ EndCreate \/ AllocReturns

Next ==
  \/ Alloc
  \/ \E t \in Threads : Worker(t) \/ JobFree(t)
  \/ \E c \in Callers : InCall(c) \/ BeginsCall(c)
  \/ \E c \in Clients : AddRef(c) \/ ClientFree(c)
  \/ Free
  \/ SpuriousWakeup

(* Every thread inside a function of the pool goes on, and a job's function  *)
(* returns.  Nobody has to call the pool.                                    *)
Fairness ==
  /\ WF_vars(Alloc) /\ WF_vars(Free)
  /\ \A t \in Threads : WF_vars(Worker(t))
  /\ \A c \in Callers : WF_vars(InCall(c))

Spec == Init /\ [][Next]_vars
FairSpec == Spec /\ Fairness

-----------------------------------------------------------------------------
(* Safety *)

(* iot_threadpool_final_free runs once at most, and only when every worker   *)
(* has left iot_threadpool_thread and no client is inside the pool: nobody   *)
(* uses the pool after it is freed (threadpool.c:324).                       *)
SafeFree ==
  /\ freed =< 1
  /\ freed = 1 => /\ \A t \in Threads : wpc[t] \in {"none", "exited"}
                  /\ \A c \in Callers : cpc[c] = "idle"
                  /\ freeStep = "returned"

(* The signal for a new job (line 258) is not lost: while a worker sleeps on *)
(* job_cond, each queued job has a worker on its way to the queue.           *)
NoLostJobSignal ==
  Asleep(wpc, "jobwait") # {} =>
    jobs =< Cardinality({t \in Threads : wpc[t] \in {"new", "top", "statewait"}})

(* A caller asleep in iot_threadpool_add_work has a full queue in front of   *)
(* it: the broadcast on queue_cond (line 127) comes whenever there is space. *)
BlockedAddersOnlyWhenFull == Asleep(cpc, "spacewait") # {} => jobs = maxJobs

(* A caller asleep in iot_threadpool_wait has a job to wait for: with one    *)
(* waiter the two signals on work_cond (lines 125 and 145) are enough.       *)
SleepingWaiterHasWork == Asleep(cpc, "workwait") # {} => jobs # 0 \/ working # 0

(* The counters that the loops test agree with what they count, until the    *)
(* list is freed: jobs with the list, working with the running threads.      *)
CountersMatch ==
  /\ freeStep \notin {"final", "returned"} => jobs = Len(queue)
  /\ working = Cardinality({t \in Threads : wpc[t] = "run"})
  /\ refs = Cardinality(clientRefs) + Cardinality(jobRefs)

(* Jobs start by priority and, within one, in order of submission; they are  *)
(* discarded only by a free that nobody else's job overlaps.                 *)
Contract == INSTANCE PriorityJobs WITH
  pending <- {queue[i] : i \in DOMAIN queue},
  active <- {wjob[t] : t \in {u \in Threads : wpc[u] = "run"}}
ImplementsContract == Contract!Spec

-----------------------------------------------------------------------------
(* Liveness *)

SomeWorker == \E t \in Threads : wpc[t] # "none"

(* A client's iot_threadpool_add_work returns unless the pool stops running, *)
(* also with several callers blocked on queue_cond (threadpool.c:127) and a  *)
(* place taken again by somebody who was not, before those woken run.  This  *)
(* supposes that submissions end, which MaxSubmit says: the mutex is given   *)
(* in no order, and one who submits for ever may take every place in time.   *)
AddReturns == \A c \in Clients :
  cpc[c] \in {"add", "spacewait"} ~> cpc[c] = "idle" \/ state # "RUNNING" \/ ~SomeWorker

(* iot_threadpool_wait returns unless the pool stops running, if the waiter  *)
(* is the only one (threadpool.h:71) and submissions end.                    *)
WaitReturnsEventually == \A c \in Waiters :
  cpc[c] \in {"wait", "workwait"} ~> cpc[c] = "idle" \/ state # "RUNNING" \/ ~SomeWorker

(* Freeing the pool ends, from a client and from a job, and frees the pool   *)
(* (threadpool.h:98).                                                        *)
FreeCompletes == freeStep = "mark" ~> freed = 1

=============================================================================
