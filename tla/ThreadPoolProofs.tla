-------------------------- MODULE ThreadPoolProofs --------------------------
(***************************************************************************)
(* Proofs about ThreadPool: its types, its counters, that no wake-up of a  *)
(* worker or of a blocked caller is lost, that the pool is freed once and  *)
(* by the last to leave, and that it implements PriorityJobs, for every    *)
(* number of threads, clients, jobs and priorities and every limit.        *)
(***************************************************************************)
EXTENDS ThreadPool, CondVarProofs, SequenceTheorems

WPCs == {"none", "new", "top", "statewait", "jobwait", "run", "exit", "exitFree", "final", "exited"}
CPCs == {"idle", "add", "spacewait", "wait", "workwait", "bcast"}

(* Threads counted in `created': started, and not past the decrement.        *)
Active == {t \in Threads : wpc[t] \in {"top", "statewait", "jobwait", "run", "exit", "exitFree"}}

(* A job's reference belongs to a job that was submitted.                    *)
JobRefsInv == jobRefs \subseteq 0..(nextId - 1)

RefsInv == refs = Cardinality(clientRefs) + Cardinality(jobRefs)

(* Once the last reference is dropped there is none, and one caller frees.   *)
FreerInv ==
  /\ (freer = None) = (freeStep = "none")
  /\ freeStep # "none" => clientRefs = {} /\ jobRefs = {}

(* Until the allocation returns nobody uses the pool; then every worker has  *)
(* started.                                                                  *)
AllocInv ==
  /\ allocStep # "done" =>
       /\ freeStep = "none" /\ state = "INITIAL"
       /\ \A t \in Threads : wpc[t] \in {"none", "new", "top", "statewait"}
       /\ \A c \in Callers : cpc[c] = "idle"
  /\ allocStep = "done" => \A t \in Threads : wpc[t] # "new"

CreatedInv == created = Cardinality(Active)

WorkingInv == working = Cardinality(Asleep(wpc, "run"))

JobsInv == IF freeStep \in {"final", "returned"} THEN queue = <<>> ELSE jobs = Len(queue)

(* A caller inside the pool is a client with a reference or a running job,   *)
(* and not the one that frees the pool.                                      *)
CallerInv == \A c \in Callers : cpc[c] # "idle" =>
  /\ c \in clientRefs \/ (c \in Threads /\ wpc[c] = "run")
  /\ c # freer

Freeing == freeStep \in {"mark", "stop", "bcast", "delete", "join", "final"}

(* A job that frees the pool runs until the free returns, and is the only    *)
(* one marked to finish the deletion on its exit.                            *)
MarkInv ==
  /\ Freeing /\ freer \in Threads => wpc[freer] = "run"
  /\ pendingDelete \subseteq {freer}
  /\ freeStep \in {"none", "mark"} => pendingDelete = {}
  /\ freeStep \notin {"none", "mark"} /\ freer \in Threads => freer \in pendingDelete
  /\ deletedThreads = {t \in Threads : wpc[t] \in {"exit", "exitFree", "final", "exited"}}
  /\ \A t \in Threads : wpc[t] \in {"exitFree", "final"} => t \in pendingDelete

(* After the wait for the workers only the job that frees the pool is left.  *)
LeftInv == freeStep \in {"final", "returned"} =>
  \A t \in Threads : t # freer => wpc[t] \in {"none", "exited"}

(* From the stop on, the pool does not run again, and from the broadcast on  *)
(* no worker waits for a job.                                                *)
StoppedInv ==
  /\ freeStep \in {"bcast", "delete"} => state = "STOPPED"
  /\ freeStep \in {"join", "final", "returned"} => state = "DELETED"
  /\ state = "DELETED" => freeStep \in {"join", "final", "returned"}
  /\ freeStep \in {"delete", "join", "final", "returned"} => Asleep(wpc, "jobwait") = {}

(* The final free runs once, and after everything else.                      *)
FreedInv == SafeFree /\ freed \in {0, 1}

IInv ==
  /\ TypeOK /\ JobRefsInv /\ RefsInv /\ FreerInv /\ AllocInv /\ CreatedInv /\ WorkingInv
  /\ JobsInv /\ CallerInv /\ MarkInv /\ LeftInv /\ StoppedInv /\ FreedInv
  /\ NoLostJobSignal /\ BlockedAddersOnlyWhenFull

-----------------------------------------------------------------------------
(* Which actions change which variables. *)

(* Each group of variables is changed by a few actions only.                 *)
LEMMA StepChanges ==
  ASSUME [Next]_vars
  PROVE  /\ \/ UNCHANGED <<refs, clientRefs, jobRefs>>
            \/ \E c \in Clients : AddRef(c) \/ ClientFree(c)
            \/ \E t \in Threads : JobFree(t)
            \/ \E c \in Callers : AddWork(c) \/ TryWork(c)
         /\ \/ UNCHANGED <<freer, freeStep>>
            \/ \E c \in Clients : ClientFree(c)
            \/ \E t \in Threads : JobFree(t)
            \/ Free
         /\ \/ UNCHANGED <<queue, jobs, nextId>>
            \/ \E t \in Threads : WorkerPull(t)
            \/ \E c \in Callers : AddWork(c) \/ TryWork(c)
            \/ FreeJoin
         /\ UNCHANGED state \/ (\E c \in Callers : Start(c) \/ Stop(c)) \/ FreeStop \/ FreeDelete
         /\ UNCHANGED created \/ \E t \in Threads : WorkerStart(t) \/ WorkerExit(t)
         /\ UNCHANGED <<wjob, working>> \/ \E t \in Threads : WorkerPull(t) \/ WorkerDone(t)
         /\ UNCHANGED pendingDelete \/ FreeMark
         /\ UNCHANGED deletedThreads \/ \E t \in Threads : WorkerLeave(t)
         /\ UNCHANGED freed \/ FreeFinal \/ \E t \in Threads : WorkerFinalFree(t)
         /\ UNCHANGED allocStep \/ EndCreate \/ AllocReturns
<1> USE DEF poolVars, jobVars, workerVars, freeVars
<1>1. CASE Alloc
  BY <1>1 DEF Alloc, CreateThread, EndCreate, AllocReturns
<1>2. CASE \E t \in Threads : Worker(t) \/ JobFree(t)
  BY <1>2 DEF Worker, WorkerStart, WorkerStateWait, WorkerLeave, WorkerPull, WorkerJobWait,
              WorkerDone, WorkerExit, WorkerFinalFree, JobFree, DropRef
<1>3. CASE \E c \in Callers : InCall(c)
  BY <1>3 DEF InCall, AddWorkBlocks, AddWork, AddWorkLocked, WaitBlocks, WaitReturns, BroadcastJobs
<1>4. CASE \E c \in Callers : BeginsCall(c)
  BY <1>4 DEF BeginsCall, TryWork, AddWorkLocked, CallAddWork, CallWait, Start, Stop, SetState
<1>5. CASE \E c \in Clients : AddRef(c) \/ ClientFree(c)
  BY <1>5 DEF AddRef, ClientFree, DropRef
<1>6. CASE Free
  BY <1>6 DEF Free, FreeMark, FreeStop, FreeBroadcast, FreeDelete, FreeJoin, FreeFinal, SetState
<1>7. CASE SpuriousWakeup
  BY <1>7 DEF SpuriousWakeup
<1>8. CASE UNCHANGED vars
  BY <1>8 DEF vars
<1> QED BY <1>1, <1>2, <1>3, <1>4, <1>5, <1>6, <1>7, <1>8 DEF Next

(* A step that wakes workers, or leaves all of them where they are.          *)
Wakes == \A t \in Threads :
  wpc'[t] = wpc[t] \/ (wpc[t] \in {"jobwait", "statewait"} /\ wpc'[t] = "top")

(* A signal for a new job, the broadcast of start and stop and a change of   *)
(* state only move sleeping workers back to the top of their loop.           *)
LEMMA WakesFacts ==
  ASSUME TypeOK
  PROVE  /\ \A w \in NewJobWakes : /\ w \in [Threads -> WPCs]
                                   /\ \A t \in Threads : w[t] = wpc[t] \/ (wpc[t] = "jobwait" /\ w[t] = "top")
         /\ JobWakes \in [Threads -> WPCs]
         /\ \A t \in Threads : JobWakes[t] = IF wpc[t] = "jobwait" THEN "top" ELSE wpc[t]
         /\ \A new : /\ StateWakes(new) \in [Threads -> WPCs]
                     /\ \A t \in Threads : StateWakes(new)[t] = wpc[t]
                                        \/ (wpc[t] = "statewait" /\ StateWakes(new)[t] = "top")
BY DEF TypeOK, NewJobWakes, JobWakes, StateWakes, Signal, Broadcast, Asleep, WPCs

(* Program counters of the workers.                                          *)
LEMMA WpcChange ==
  ASSUME TypeOK, [Next]_vars
  PROVE  \/ Wakes /\ wpc' \in [Threads -> WPCs]
         \/ \E t \in Threads : CreateThread(t) \/ Worker(t)
<1> USE DEF poolVars, jobVars, workerVars, freeVars
<1>0. wpc \in [Threads -> WPCs]
  BY DEF TypeOK, WPCs
<1>1. CASE Alloc
  BY <1>0, <1>1 DEF Alloc, EndCreate, AllocReturns, Wakes
<1>2. CASE \E t \in Threads : JobFree(t)
  BY <1>0, <1>2 DEF JobFree, DropRef, Wakes
<1>3. CASE \E c \in Callers : InCall(c)
  <2>1. CASE \E c \in Callers : AddWork(c)
    BY <1>0, <2>1, WakesFacts DEF AddWork, AddWorkLocked, Wakes
  <2>2. CASE \E c \in Callers : BroadcastJobs(c)
    BY <1>0, <2>2, WakesFacts DEF BroadcastJobs, Wakes
  <2> QED BY <1>0, <1>3, <2>1, <2>2 DEF InCall, AddWorkBlocks, WaitBlocks, WaitReturns, Wakes
<1>4. CASE \E c \in Callers : BeginsCall(c)
  <2>1. CASE \E c \in Callers : TryWork(c)
    BY <1>0, <2>1, WakesFacts DEF TryWork, AddWorkLocked, Wakes
  <2>2. CASE \E c \in Callers : Start(c) \/ Stop(c)
    BY <1>0, <2>2, WakesFacts DEF Start, Stop, SetState, Wakes
  <2> QED BY <1>0, <1>4, <2>1, <2>2 DEF BeginsCall, CallAddWork, CallWait, Wakes
<1>5. CASE \E c \in Clients : AddRef(c) \/ ClientFree(c)
  BY <1>0, <1>5 DEF AddRef, ClientFree, DropRef, Wakes
<1>6. CASE Free
  <2>1. CASE FreeStop \/ FreeDelete
    BY <1>0, <2>1, WakesFacts DEF FreeStop, FreeDelete, SetState, Wakes
  <2>2. CASE FreeBroadcast
    BY <1>0, <2>2, WakesFacts DEF FreeBroadcast, Wakes
  <2> QED BY <1>0, <1>6, <2>1, <2>2 DEF Free, FreeMark, FreeJoin, FreeFinal, Wakes
<1>7. CASE SpuriousWakeup
  BY <1>0, <1>7 DEF SpuriousWakeup, Wakes, WPCs
<1>8. CASE UNCHANGED vars
  BY <1>0, <1>8 DEF vars, Wakes
<1> QED BY <1>1, <1>2, <1>3, <1>4, <1>5, <1>6, <1>7, <1>8 DEF Next, Alloc

(* Program counters of the callers.                                          *)
CWakes == \A c \in Callers :
  \/ cpc'[c] = cpc[c]
  \/ cpc[c] = "spacewait" /\ cpc'[c] = "add"
  \/ cpc[c] = "workwait" /\ cpc'[c] = "wait"

(* A caller moves by its own step or is woken.                               *)
LEMMA CpcChange ==
  ASSUME TypeOK, [Next]_vars
  PROVE  \/ CWakes /\ cpc' \in [Callers -> CPCs]
         \/ \E c \in Callers : InCall(c) \/ BeginsCall(c)
<1> USE DEF poolVars, jobVars, workerVars, freeVars
<1>0. cpc \in [Callers -> CPCs]
  BY DEF TypeOK, CPCs
<1>1. CASE Alloc
  BY <1>0, <1>1 DEF Alloc, CreateThread, EndCreate, AllocReturns, CWakes
<1>2. CASE \E t \in Threads : WorkerPull(t)
  <2>1. PICK p \in {cpc} \cup Signal(cpc, "workwait", "wait") :
             cpc' = p \/ cpc' = Broadcast(p, "spacewait", "add")
    BY <1>2 DEF WorkerPull, SpaceWakes
  <2>2. p \in [Callers -> CPCs] /\ \A c \in Callers :
           p[c] = cpc[c] \/ (cpc[c] = "workwait" /\ p[c] = "wait")
    BY <1>0, <2>1 DEF Signal, Asleep, CPCs
  <2> QED BY <1>0, <2>1, <2>2 DEF Broadcast, CPCs, CWakes
<1>3. CASE \E t \in Threads : WorkerDone(t)
  BY <1>0, <1>3 DEF WorkerDone, Signal, Asleep, CPCs, CWakes
<1>4. CASE \E t \in Threads : Worker(t) \/ JobFree(t)
  BY <1>0, <1>2, <1>3, <1>4 DEF Worker, WorkerStart, WorkerStateWait, WorkerLeave, WorkerJobWait,
     WorkerExit, WorkerFinalFree, JobFree, DropRef, CWakes
<1>5. CASE \E c \in Clients : AddRef(c) \/ ClientFree(c)
  BY <1>0, <1>5 DEF AddRef, ClientFree, DropRef, CWakes
<1>6. CASE Free
  BY <1>0, <1>6 DEF Free, FreeMark, FreeStop, FreeBroadcast, FreeDelete, FreeJoin, FreeFinal, CWakes
<1>7. CASE SpuriousWakeup
  BY <1>0, <1>7 DEF SpuriousWakeup, CWakes, CPCs
<1>8. CASE UNCHANGED vars
  BY <1>0, <1>8 DEF vars, CWakes
<1> QED BY <1>1, <1>4, <1>5, <1>6, <1>7, <1>8 DEF Next

-----------------------------------------------------------------------------
(* Program counters keep their types. *)

(* No step takes a worker to an unknown place.                               *)
LEMMA WpcType ==
  ASSUME TypeOK, [Next]_vars
  PROVE  wpc' \in [Threads -> WPCs]
<1>1. wpc \in [Threads -> WPCs]
  BY DEF TypeOK, WPCs
<1>2. CASE \E t \in Threads : CreateThread(t)
  BY <1>1, <1>2 DEF CreateThread, WPCs
<1>3. CASE \E t \in Threads : Worker(t)
  BY <1>1, <1>3 DEF Worker, WorkerStart, WorkerStateWait, WorkerLeave, WorkerPull, WorkerJobWait,
     WorkerDone, WorkerExit, WorkerFinalFree, WPCs
<1> QED BY <1>2, <1>3, WpcChange

(* No step takes a caller to an unknown place.                               *)
LEMMA CpcType ==
  ASSUME TypeOK, [Next]_vars
  PROVE  cpc' \in [Callers -> CPCs]
<1>1. cpc \in [Callers -> CPCs]
  BY DEF TypeOK, CPCs
<1>2. CASE \E c \in Callers : InCall(c)
  BY <1>1, <1>2 DEF InCall, AddWorkBlocks, AddWork, WaitBlocks, WaitReturns, BroadcastJobs, CPCs
<1>3. CASE \E c \in Callers : BeginsCall(c)
  BY <1>1, <1>3 DEF BeginsCall, TryWork, CallAddWork, CallWait, Start, Stop, CPCs
<1> QED BY <1>2, <1>3, CpcChange

-----------------------------------------------------------------------------
(* References *)

(* Both sets of reference holders are finite, and a new job's id is fresh.   *)
LEMMA JobRefsFacts ==
  ASSUME TypeOK, JobRefsInv
  PROVE  /\ IsFiniteSet(jobRefs) /\ Cardinality(jobRefs) \in Nat /\ nextId \notin jobRefs
         /\ IsFiniteSet(clientRefs) /\ Cardinality(clientRefs) \in Nat
<1>1. nextId \in Nat /\ clientRefs \subseteq Clients
  BY DEF TypeOK
<1>2. IsFiniteSet(0..(nextId - 1))
  BY <1>1, FS_Interval
<1>3. IsFiniteSet(jobRefs) /\ IsFiniteSet(clientRefs)
  BY <1>1, <1>2, FS_Subset, PoolAssumption DEF JobRefsInv
<1>4. nextId \notin jobRefs
  BY <1>1 DEF JobRefsInv
<1> QED BY <1>3, <1>4, FS_CardinalityType

(* The count follows the holders: each add or drop moves both by one.        *)
LEMMA RefsStep ==
  ASSUME TypeOK, JobRefsInv, RefsInv, [Next]_vars
  PROVE  /\ RefsInv' /\ JobRefsInv'
         /\ clientRefs' \subseteq Clients /\ jobRefs' \subseteq Nat /\ refs' \in Nat
<1>0. clientRefs \subseteq Clients /\ jobRefs \subseteq Nat /\ nextId \in Nat /\ refs \in Nat
  BY DEF TypeOK
<1>1. nextId' = nextId \/ nextId' = nextId + 1
  BY StepChanges DEF WorkerPull, AddWork, TryWork, AddWorkLocked, FreeJoin, jobVars
<1>2. CASE UNCHANGED <<refs, clientRefs, jobRefs>>
  BY <1>0, <1>2, <1>1 DEF RefsInv, JobRefsInv
<1>3. ASSUME NEW c \in Clients, AddRef(c)
      PROVE  RefsInv' /\ JobRefsInv' /\ clientRefs' \subseteq Clients /\ jobRefs' \subseteq Nat
  <2>1. Cardinality(clientRefs \cup {c}) = Cardinality(clientRefs) + 1
    BY <1>3, JobRefsFacts, FS_AddElement DEF AddRef
  <2> QED BY <1>0, <1>3, <2>1, JobRefsFacts DEF AddRef, RefsInv, JobRefsInv, jobVars
<1>4. ASSUME NEW c \in Clients, ClientFree(c)
      PROVE  RefsInv' /\ JobRefsInv' /\ clientRefs' \subseteq Clients /\ jobRefs' \subseteq Nat
  <2>1. Cardinality(clientRefs \ {c}) = Cardinality(clientRefs) - 1
    BY <1>4, JobRefsFacts, FS_RemoveElement DEF ClientFree
  <2> QED BY <1>0, <1>4, <2>1, JobRefsFacts DEF ClientFree, DropRef, RefsInv, JobRefsInv, jobVars
<1>5. ASSUME NEW t \in Threads, JobFree(t)
      PROVE  RefsInv' /\ JobRefsInv' /\ clientRefs' \subseteq Clients /\ jobRefs' \subseteq Nat
  <2>1. PICK id \in jobRefs : jobRefs' = jobRefs \ {id}
    BY <1>5 DEF JobFree
  <2>2. Cardinality(jobRefs \ {id}) = Cardinality(jobRefs) - 1
    BY <2>1, JobRefsFacts, FS_RemoveElement
  <2>3. refs' = refs - 1 /\ UNCHANGED <<clientRefs, nextId>>
    BY <1>5 DEF JobFree, DropRef, jobVars
  <2> QED BY <1>0, <2>1, <2>2, <2>3, JobRefsFacts DEF RefsInv, JobRefsInv
<1>6. ASSUME AddWorkLocked
      PROVE  RefsInv' /\ JobRefsInv' /\ clientRefs' \subseteq Clients /\ jobRefs' \subseteq Nat
  <2>1. PICK ref \in BOOLEAN :
             /\ refs' = IF ref THEN refs + 1 ELSE refs
             /\ jobRefs' = IF ref THEN jobRefs \cup {nextId} ELSE jobRefs
    BY <1>6 DEF AddWorkLocked
  <2>2. nextId' = nextId + 1 /\ clientRefs' = clientRefs
    BY <1>6 DEF AddWorkLocked
  <2>3. Cardinality(jobRefs \cup {nextId}) = Cardinality(jobRefs) + 1
    BY JobRefsFacts, FS_AddElement
  <2> QED BY <1>0, <2>1, <2>2, <2>3, JobRefsFacts DEF RefsInv, JobRefsInv
<1>7. RefsInv' /\ JobRefsInv' /\ clientRefs' \subseteq Clients /\ jobRefs' \subseteq Nat
  BY <1>0, <1>2, <1>3, <1>4, <1>5, <1>6, StepChanges DEF AddWork, TryWork
<1>8. refs' \in Nat
  <2>1. IsFiniteSet(clientRefs')
    BY <1>7, FS_Subset, PoolAssumption
  <2>2. IsFiniteSet(jobRefs')
    <3>1. IsFiniteSet(0..(nextId' - 1))
      BY <1>0, <1>1, FS_Interval
    <3> QED BY <1>7, <3>1, FS_Subset DEF JobRefsInv
  <2> QED BY <1>7, <2>1, <2>2, FS_CardinalityType DEF RefsInv
<1> QED BY <1>7, <1>8

(* A count of zero means that nobody holds a reference.                      *)
LEMMA NoRefsLeft ==
  ASSUME TypeOK, JobRefsInv, RefsInv, [Next]_vars, refs' = 0
  PROVE  clientRefs' = {} /\ jobRefs' = {}
<1>0. clientRefs' \subseteq Clients /\ JobRefsInv' /\ RefsInv'
  BY RefsStep
<1>1. nextId' \in Nat
  <2>1. nextId \in Nat
    BY DEF TypeOK
  <2>2. nextId' = nextId \/ nextId' = nextId + 1
    BY StepChanges DEF WorkerPull, AddWork, TryWork, AddWorkLocked, FreeJoin, jobVars
  <2> QED BY <2>1, <2>2
<1>2. IsFiniteSet(clientRefs') /\ Cardinality(clientRefs') \in Nat
  BY <1>0, FS_Subset, FS_CardinalityType, PoolAssumption
<1>3. IsFiniteSet(jobRefs') /\ Cardinality(jobRefs') \in Nat
  <2>1. IsFiniteSet(0..(nextId' - 1))
    BY <1>1, FS_Interval
  <2> QED BY <1>0, <2>1, FS_Subset, FS_CardinalityType DEF JobRefsInv
<1>4. Cardinality(clientRefs') = 0 /\ Cardinality(jobRefs') = 0
  BY <1>0, <1>2, <1>3 DEF RefsInv
<1> QED BY <1>2, <1>3, <1>4, FS_EmptySet

(* Whoever drops the last reference becomes the freer, for good.             *)
LEMMA FreerStep ==
  ASSUME TypeOK, JobRefsInv, RefsInv, FreerInv, [Next]_vars
  PROVE  FreerInv'
<1>0. None \notin Callers
  BY PoolAssumption DEF Callers
<1>1. ASSUME NEW c \in Callers, DropRef(c)
      PROVE  FreerInv'
  <2>1. CASE refs =< 1
    <3>1. refs' = 0
      BY <1>1, <2>1, RefsStep DEF DropRef, TypeOK
    <3> QED BY <1>0, <1>1, <2>1, <3>1, NoRefsLeft DEF DropRef, FreerInv
  <2>2. CASE ~(refs =< 1)
    <3>1. UNCHANGED <<freer, freeStep>>
      BY <1>1, <2>2 DEF DropRef
    <3>2. freeStep = "none"
      <4>1. SUFFICES ASSUME freeStep # "none"
                     PROVE  FALSE
        OBVIOUS
      <4>2. refs = 0
        BY <4>1, FS_EmptySet DEF FreerInv, RefsInv
      <4> QED BY <2>2, <4>2
    <3> QED BY <3>1, <3>2 DEF FreerInv
  <2> QED BY <2>1, <2>2
<1>2. CASE Free
  <2>1. UNCHANGED <<freer, clientRefs, jobRefs>> /\ freeStep # "none" /\ freeStep' # "none"
    BY <1>2 DEF Free, FreeMark, FreeStop, FreeBroadcast, FreeDelete, FreeJoin, FreeFinal, SetState,
                poolVars
  <2> QED BY <2>1 DEF FreerInv
<1>3. CASE UNCHANGED <<freer, freeStep>>
  <2>1. SUFFICES ASSUME freeStep # "none"
                 PROVE  clientRefs' = {} /\ jobRefs' = {}
    BY <1>3 DEF FreerInv
  <2> QED BY <1>3, <2>1, StepChanges
          DEF FreerInv, AddRef, ClientFree, JobFree, AddWork, TryWork, AddWorkLocked
<1> QED BY <1>1, <1>2, <1>3, StepChanges DEF ClientFree, JobFree, Callers

-----------------------------------------------------------------------------
(* Callers *)

(* Nobody inside a call loses what entitles it: a client frees only outside  *)
(* a call, and a job's function returns only then.                           *)
LEMMA CallerStep ==
  ASSUME TypeOK, FreerInv, AllocInv, CallerInv, [Next]_vars
  PROVE  CallerInv'
<1> USE DEF poolVars, jobVars, workerVars, freeVars
<1> SUFFICES ASSUME NEW c \in Callers, cpc'[c] # "idle"
             PROVE  /\ c \in clientRefs' \/ (c \in Threads /\ wpc'[c] = "run")
                    /\ c # freer'
  BY DEF CallerInv
<1>0. cpc \in [Callers -> CPCs] /\ wpc \in [Threads -> WPCs]
  BY DEF TypeOK, CPCs, WPCs
<1>1. \/ cpc[c] # "idle"
      \/ cpc[c] = "idle" /\ (InCall(c) \/ BeginsCall(c))
  <2>1. ASSUME NEW d \in Callers, InCall(d) \/ BeginsCall(d), d # c
        PROVE  cpc'[c] = cpc[c]
    BY <1>0, <2>1 DEF InCall, AddWorkBlocks, AddWork, WaitBlocks, WaitReturns, BroadcastJobs,
       BeginsCall, TryWork, CallAddWork, CallWait, Start, Stop
  <2> QED BY <2>1, CpcChange DEF CWakes
<1>2. CASE cpc[c] = "idle" /\ (InCall(c) \/ BeginsCall(c))
  <2>1. CallAddWork(c) \/ CallWait(c) \/ Start(c) \/ Stop(c)
    BY <1>0, <1>2 DEF InCall, AddWorkBlocks, AddWork, WaitBlocks, WaitReturns, BroadcastJobs,
       BeginsCall, TryWork
  <2>2. MayCall(c, "add") \/ MayCall(c, "wait") \/ MayCall(c, "start") \/ MayCall(c, "stop")
    BY <2>1 DEF CallAddWork, CallWait, Start, Stop
  <2>3. UNCHANGED <<freer, clientRefs>>
    BY <2>1 DEF CallAddWork, CallWait, Start, Stop, SetState
  <2>4. wpc'[c] = wpc[c] \/ wpc[c] # "run" \/ c \notin Threads
    BY <2>1, WakesFacts DEF CallAddWork, CallWait, Start, Stop, SetState
  <2> QED BY <2>2, <2>3, <2>4 DEF MayCall
<1>3. CASE cpc[c] # "idle"
  <2>1. (c \in clientRefs \/ (c \in Threads /\ wpc[c] = "run")) /\ c # freer
    BY <1>3 DEF CallerInv
  <2>2. c \in clientRefs => c \in clientRefs'
    <3>1. ~ClientFree(c)
      BY <1>3 DEF ClientFree
    <3> QED BY <3>1, StepChanges DEF AddRef, ClientFree, JobFree, AddWork, TryWork, AddWorkLocked
  <2>3. c \in Threads /\ wpc[c] = "run" => wpc'[c] = "run"
    <3>1. ~WorkerDone(c)
      BY <1>3 DEF WorkerDone
    <3>2. SUFFICES ASSUME NEW t \in Threads, CreateThread(t) \/ Worker(t), c \in Threads, wpc[c] = "run"
                   PROVE  wpc'[c] = "run"
      BY WpcChange DEF Wakes
    <3> QED BY <1>0, <3>1, <3>2 DEF CreateThread, Worker, WorkerStart, WorkerStateWait, WorkerLeave,
               WorkerPull, WorkerJobWait, WorkerDone, WorkerExit, WorkerFinalFree
  <2>4. c # freer'
    BY <1>3, <2>1, StepChanges DEF ClientFree, JobFree, DropRef, Free, FreeMark, FreeStop,
       FreeBroadcast, FreeDelete, FreeJoin, FreeFinal
  <2> QED BY <2>1, <2>2, <2>3, <2>4
<1> QED BY <1>1, <1>2, <1>3

-----------------------------------------------------------------------------
(* The allocation and the count of the workers *)

(* The workers counted in `created' can be counted.                          *)
LEMMA WorkersFinite ==
  ASSUME TypeOK
  PROVE  /\ DOMAIN wpc = Threads
         /\ IsFiniteSet(Active) /\ Cardinality(Active) \in Nat
<1>1. IsFiniteSet(Active)
  BY FS_Subset, PoolAssumption DEF Active
<1> QED BY <1>1, FS_CardinalityType DEF TypeOK

(* iot_threadpool_alloc returns only when each thread it made is counted.    *)
LEMMA AllocStep ==
  ASSUME TypeOK, AllocInv, CreatedInv, [Next]_vars
  PROVE  AllocInv'
<1> USE DEF poolVars, jobVars, workerVars, freeVars
<1>0. /\ wpc \in [Threads -> WPCs] /\ wpc' \in [Threads -> WPCs]
      /\ cpc \in [Callers -> CPCs] /\ cpc' \in [Callers -> CPCs]
  BY WpcType, CpcType DEF TypeOK, WPCs, CPCs
<1>1. allocStep' = allocStep \/ EndCreate \/ AllocReturns
  BY StepChanges
<1>2. CASE allocStep' # "done"
  <2>1. /\ allocStep # "done" /\ freeStep = "none" /\ state = "INITIAL"
        /\ \A t \in Threads : wpc[t] \in {"none", "new", "top", "statewait"}
        /\ \A c \in Callers : cpc[c] = "idle"
    BY <1>1, <1>2 DEF EndCreate, AllocReturns, AllocInv
  <2>2. freeStep' = "none"
    BY <2>1, StepChanges DEF ClientFree, JobFree, Free, FreeMark, FreeStop, FreeBroadcast,
       FreeDelete, FreeJoin, FreeFinal
  <2>3. state' = "INITIAL"
    BY <2>1, StepChanges DEF Start, Stop, MayCall, FreeStop, FreeDelete
  <2>4. \A t \in Threads : wpc'[t] \in {"none", "new", "top", "statewait"}
    <3>1. CASE Wakes
      BY <2>1, <3>1 DEF Wakes
    <3>2. ASSUME NEW t \in Threads, CreateThread(t) \/ Worker(t)
          PROVE  CreateThread(t) \/ WorkerStart(t) \/ WorkerStateWait(t)
      BY <2>1, <3>2 DEF Worker, WorkerLeave, WorkerPull, WorkerJobWait, WorkerDone, WorkerExit,
         WorkerFinalFree
    <3>3. ASSUME NEW t \in Threads, CreateThread(t) \/ WorkerStart(t) \/ WorkerStateWait(t)
          PROVE  \A u \in Threads : wpc'[u] \in {"none", "new", "top", "statewait"}
      BY <1>0, <2>1, <3>3 DEF CreateThread, WorkerStart, WorkerStateWait
    <3> QED BY <3>1, <3>2, <3>3, WpcChange
  <2>5. \A c \in Callers : cpc'[c] = "idle"
    <3>1. ASSUME NEW c \in Callers
          PROVE  ~InCall(c) /\ ~BeginsCall(c)
      BY <2>1 DEF InCall, AddWorkBlocks, AddWork, WaitBlocks, WaitReturns, BroadcastJobs,
         BeginsCall, TryWork, CallAddWork, CallWait, Start, Stop, MayCall
    <3> QED BY <2>1, <3>1, CpcChange DEF CWakes
  <2> QED BY <1>2, <2>2, <2>3, <2>4, <2>5 DEF AllocInv
<1>3. CASE AllocReturns
  <2> DEFINE Made == {t \in Threads : wpc[t] # "none"}
  <2>1. \A t \in Threads : wpc[t] \in {"none", "new", "top", "statewait"}
    BY <1>3 DEF AllocReturns, AllocInv
  <2>2. IsFiniteSet(Made) /\ Active \subseteq Made
    BY FS_Subset, PoolAssumption DEF Active
  <2>3. Cardinality(Active) = Cardinality(Made)
    BY <1>3 DEF AllocReturns, CreatedInv
  <2>4. Active = Made
    BY <2>2, <2>3, FS_Subset
  <2>5. \A t \in Threads : wpc[t] # "new"
    BY <2>4 DEF Active
  <2> QED BY <1>3, <2>5 DEF AllocReturns, AllocInv
<1>4. CASE allocStep' = "done" /\ ~AllocReturns
  <2>1. allocStep = "done"
    BY <1>1, <1>4 DEF EndCreate
  <2>2. \A t \in Threads : wpc[t] # "new"
    BY <2>1 DEF AllocInv
  <2>3. \A t \in Threads : wpc'[t] # "new"
    <3>1. ASSUME NEW t \in Threads, Worker(t)
          PROVE  \A u \in Threads : wpc'[u] # "new"
      BY <1>0, <2>2, <3>1 DEF Worker, WorkerStart, WorkerStateWait, WorkerLeave, WorkerPull,
         WorkerJobWait, WorkerDone, WorkerExit, WorkerFinalFree
    <3> QED BY <2>1, <2>2, <3>1, WpcChange DEF Wakes, CreateThread
  <2> QED BY <1>4, <2>3 DEF AllocInv
<1> QED BY <1>2, <1>3, <1>4

(* `created' moves by one where a worker starts or exits, and only there.    *)
LEMMA CreatedStep ==
  ASSUME TypeOK, CreatedInv, [Next]_vars
  PROVE  CreatedInv' /\ created' \in Nat
<1> USE DEF poolVars, jobVars, workerVars, freeVars
<1>0. wpc \in [Threads -> WPCs]
  BY DEF TypeOK, WPCs
<1>1. ASSUME NEW t \in Threads, WorkerStart(t)
      PROVE  CreatedInv'
  <2>1. Active' = Active \cup {t} /\ t \notin Active
    BY <1>0, <1>1 DEF WorkerStart, Active
  <2>2. Cardinality(Active \cup {t}) = Cardinality(Active) + 1
    BY <2>1, WorkersFinite, FS_AddElement
  <2> QED BY <1>1, <2>1, <2>2 DEF WorkerStart, CreatedInv
<1>2. ASSUME NEW t \in Threads, WorkerExit(t)
      PROVE  CreatedInv'
  <2>1. Active' = Active \ {t} /\ t \in Active
    BY <1>0, <1>2 DEF WorkerExit, Active
  <2>2. Cardinality(Active \ {t}) = Cardinality(Active) - 1
    BY <2>1, WorkersFinite, FS_RemoveElement
  <2> QED BY <1>2, <2>1, <2>2 DEF WorkerExit, CreatedInv
<1>3. ASSUME UNCHANGED created, ~\E t \in Threads : WorkerStart(t) \/ WorkerExit(t)
      PROVE  CreatedInv'
  <2>1. CASE Wakes
    <3>1. Active' = Active
      BY <2>1 DEF Wakes, Active
    <3> QED BY <1>3, <3>1 DEF CreatedInv
  <2>2. ASSUME NEW t \in Threads, CreateThread(t) \/ Worker(t)
        PROVE  Active' = Active
    BY <1>0, <1>3, <2>2 DEF Active, CreateThread, Worker, WorkerStateWait, WorkerLeave, WorkerPull,
       WorkerJobWait, WorkerDone, WorkerFinalFree
  <2> QED BY <1>3, <2>1, <2>2, WpcChange DEF CreatedInv
<1>4. CreatedInv'
  BY <1>1, <1>2, <1>3, StepChanges
<1>5. Cardinality(Active') \in Nat
  BY FS_Subset, FS_CardinalityType, PoolAssumption DEF Active
<1> QED BY <1>4, <1>5 DEF CreatedInv

(* `working' moves by one where a job starts or ends, and only there.        *)
LEMMA WorkingStep ==
  ASSUME TypeOK, WorkingInv, [Next]_vars
  PROVE  WorkingInv' /\ working' \in Nat
<1>0. /\ wpc \in [Threads -> WPCs] /\ wpc' \in [Threads -> WPCs]
      /\ IsFiniteSet(DOMAIN wpc) /\ IsFiniteSet(DOMAIN wpc')
  BY WpcType, PoolAssumption DEF TypeOK, WPCs
<1>1. ASSUME NEW t \in Threads, WorkerPull(t)
      PROVE  WorkingInv'
  <2>1. t \notin Asleep(wpc, "run") /\ Asleep(wpc', "run") = Asleep(wpc, "run") \cup {t}
    BY <1>0, <1>1 DEF WorkerPull, Asleep
  <2>2. Cardinality(Asleep(wpc', "run")) = Cardinality(Asleep(wpc, "run")) + 1
    BY <1>0, <2>1, Arrival
  <2> QED BY <1>1, <2>2 DEF WorkerPull, WorkingInv
<1>2. ASSUME NEW t \in Threads, WorkerDone(t)
      PROVE  WorkingInv'
  <2>1. t \in Asleep(wpc, "run") /\ Asleep(wpc', "run") = Asleep(wpc, "run") \ {t}
    BY <1>0, <1>2 DEF WorkerDone, Asleep
  <2>2. Cardinality(Asleep(wpc', "run")) = Cardinality(Asleep(wpc, "run")) - 1
    BY <1>0, <2>1, Departure
  <2> QED BY <1>2, <2>2 DEF WorkerDone, WorkingInv
<1>3. ASSUME ~\E t \in Threads : WorkerPull(t) \/ WorkerDone(t)
      PROVE  WorkingInv'
  <2>1. working' = working
    BY <1>3, StepChanges
  <2>2. ASSUME NEW t \in Threads, CreateThread(t) \/ Worker(t)
        PROVE  \A u \in Threads : wpc'[u] = "run" <=> wpc[u] = "run"
    BY <1>0, <1>3, <2>2 DEF CreateThread, Worker, WorkerStart, WorkerStateWait, WorkerLeave,
       WorkerJobWait, WorkerExit, WorkerFinalFree
  <2>3. \A u \in Threads : wpc'[u] = "run" <=> wpc[u] = "run"
    BY <2>2, WpcChange DEF Wakes
  <2>4. Asleep(wpc', "run") = Asleep(wpc, "run")
    BY <1>0, <2>3 DEF Asleep
  <2> QED BY <2>1, <2>4 DEF WorkingInv
<1>4. WorkingInv'
  BY <1>1, <1>2, <1>3
<1> QED BY <1>0, <1>4, CountType DEF WorkingInv

-----------------------------------------------------------------------------
(* The free *)

(* The last reference is dropped once.                                       *)
LEMMA NoLateDrop ==
  ASSUME FreerInv, freeStep # "none"
  PROVE  /\ ~\E c \in Clients : AddRef(c) \/ ClientFree(c)
         /\ ~\E t \in Threads : JobFree(t)
         /\ ~\E c \in Callers : Start(c) \/ Stop(c)
BY PoolAssumption DEF FreerInv, AddRef, ClientFree, JobFree, Start, Stop, MayCall

(* A worker that runs goes on running, unless its job's function returns.    *)
LEMMA RunStays ==
  ASSUME TypeOK, [Next]_vars, NEW t \in Threads, wpc[t] = "run", wpc'[t] # "run"
  PROVE  WorkerDone(t)
<1>0. wpc \in [Threads -> WPCs]
  BY DEF TypeOK, WPCs
<1>1. ~Wakes
  BY DEF Wakes
<1>2. PICK u \in Threads : CreateThread(u) \/ Worker(u)
  BY <1>1, WpcChange
<1>3. u = t
  BY <1>0, <1>2 DEF CreateThread, Worker, WorkerStart, WorkerStateWait, WorkerLeave, WorkerPull,
     WorkerJobWait, WorkerDone, WorkerExit, WorkerFinalFree
<1> QED BY <1>2, <1>3 DEF CreateThread, Worker, WorkerStart, WorkerStateWait, WorkerLeave,
     WorkerPull, WorkerJobWait, WorkerExit, WorkerFinalFree

(* A job that frees its own pool is marked once, before it stops the pool,   *)
(* and cannot leave its loop until the free returns.                         *)
LEMMA MarkStep ==
  ASSUME TypeOK, FreerInv, MarkInv, [Next]_vars
  PROVE  MarkInv'
<1> USE DEF poolVars, jobVars, workerVars, freeVars
<1>0. /\ wpc \in [Threads -> WPCs] /\ wpc' \in [Threads -> WPCs]
      /\ pendingDelete \subseteq Threads /\ deletedThreads \subseteq Threads
      /\ Threads \cap Clients = {}
  BY WpcType, PoolAssumption DEF TypeOK, WPCs
<1>1. UNCHANGED pendingDelete \/ FreeMark
  BY StepChanges
<1>2. freeStep # "none" => freer' = freer /\ freeStep' # "none"
  BY StepChanges, NoLateDrop DEF Free, FreeMark, FreeStop, FreeBroadcast, FreeDelete, FreeJoin,
     FreeFinal
<1>3. freeStep = "none" => freeStep' \in {"none", "mark"}
  BY StepChanges DEF ClientFree, JobFree, DropRef, Free, FreeMark, FreeStop, FreeBroadcast,
     FreeDelete, FreeJoin, FreeFinal
<1>4. ASSUME Freeing', freer' \in Threads
      PROVE  wpc'[freer'] = "run"
  <2>1. CASE freeStep = "none"
    <3>1. \/ \E c \in Clients : ClientFree(c) /\ freer' = c
          \/ \E t \in Threads : JobFree(t) /\ freer' = t
      BY <1>4, <2>1, StepChanges DEF Freeing, ClientFree, JobFree, DropRef, Free, FreeMark,
         FreeStop, FreeBroadcast, FreeDelete, FreeJoin, FreeFinal
    <3> QED BY <1>0, <1>4, <3>1 DEF JobFree, DropRef
  <2>2. CASE freeStep # "none"
    <3>1. Freeing /\ freer' = freer
      BY <1>2, <1>4, <2>2, StepChanges, NoLateDrop DEF Freeing, Free, FreeMark, FreeStop,
         FreeBroadcast, FreeDelete, FreeJoin, FreeFinal
    <3>2. wpc[freer] = "run" /\ freer \in Threads
      BY <1>4, <3>1 DEF MarkInv
    <3>3. ~WorkerDone(freer)
      BY <3>1 DEF WorkerDone, Freeing
    <3> QED BY <3>1, <3>2, <3>3, RunStays
  <2> QED BY <2>1, <2>2
<1>5. pendingDelete' \subseteq {freer'}
  BY <1>1, <1>2 DEF MarkInv, FreeMark
<1>6. freeStep' \in {"none", "mark"} => pendingDelete' = {}
  <2>1. freeStep' \in {"none", "mark"} => freeStep \in {"none", "mark"} /\ ~FreeMark
    BY StepChanges, NoLateDrop DEF Free, FreeMark, FreeStop, FreeBroadcast, FreeDelete, FreeJoin,
       FreeFinal
  <2> QED BY <1>1, <2>1 DEF MarkInv
<1>7. ASSUME freeStep' \notin {"none", "mark"}, freer' \in Threads
      PROVE  freer' \in pendingDelete'
  <2>1. freeStep # "none" /\ freer' = freer
    BY <1>2, <1>3, <1>7
  <2>2. CASE freeStep = "mark"
    <3>1. FreeMark
      BY <1>7, <2>1, <2>2, StepChanges, NoLateDrop DEF Free, FreeMark, FreeStop, FreeBroadcast,
         FreeDelete, FreeJoin, FreeFinal
    <3>2. wpc[freer] = "run"
      BY <1>7, <2>1, <2>2 DEF MarkInv, Freeing
    <3>3. freer \notin deletedThreads
      BY <3>2 DEF MarkInv
    <3> QED BY <1>7, <2>1, <3>1, <3>3 DEF FreeMark
  <2>3. CASE freeStep # "mark"
    BY <1>1, <1>7, <2>1, <2>3 DEF MarkInv, FreeMark
  <2> QED BY <2>2, <2>3
<1>8. /\ deletedThreads' = {t \in Threads : wpc'[t] \in {"exit", "exitFree", "final", "exited"}}
      /\ \A t \in Threads : wpc'[t] \in {"exitFree", "final"} => t \in pendingDelete'
  <2>0. pendingDelete \subseteq pendingDelete'
    BY <1>1 DEF FreeMark
  <2>1. ASSUME NEW t \in Threads, WorkerLeave(t)
        PROVE  <1>8!1 /\ <1>8!2
    BY <1>0, <2>0, <2>1 DEF WorkerLeave, MarkInv
  <2>2. ASSUME NEW t \in Threads, CreateThread(t) \/ Worker(t), ~WorkerLeave(t)
        PROVE  /\ deletedThreads' = deletedThreads
               /\ \A u \in Threads : /\ wpc'[u] \in {"exit", "exitFree", "final", "exited"}
                                          <=> wpc[u] \in {"exit", "exitFree", "final", "exited"}
                                     /\ wpc'[u] \in {"exitFree", "final"}
                                          => wpc[u] \in {"exitFree", "final"}
    BY <1>0, <2>2 DEF CreateThread, Worker, WorkerStart, WorkerStateWait, WorkerPull, WorkerJobWait,
       WorkerDone, WorkerExit, WorkerFinalFree
  <2>3. CASE Wakes /\ UNCHANGED deletedThreads
    BY <2>0, <2>3 DEF Wakes, MarkInv
  <2> QED BY <2>0, <2>1, <2>2, <2>3, WpcChange, StepChanges DEF MarkInv
<1> QED BY <1>4, <1>5, <1>6, <1>7, <1>8 DEF MarkInv

(* The stop and the delete: from its stop on, a pool that is freed does not  *)
(* run again.                                                                *)
LEMMA StoppedStep ==
  ASSUME TypeOK, FreerInv, AllocInv, StoppedInv, [Next]_vars
  PROVE  StoppedInv' /\ state' \in States
<1> USE DEF poolVars, jobVars, workerVars, freeVars
<1>0. wpc \in [Threads -> WPCs] /\ wpc' \in [Threads -> WPCs] /\ state \in States
  BY WpcType DEF TypeOK, WPCs
<1>1. CASE \E c \in Callers : Start(c) \/ Stop(c)
  <2>1. freeStep = "none" /\ freeStep' = "none"
    BY <1>1, NoLateDrop DEF Start, Stop
  <2>2. state # "DELETED"
    BY <2>1 DEF StoppedInv
  <2>3. state' \in {"RUNNING", "STOPPED"}
    BY <1>1, <2>2 DEF Start, Stop, SetState, AfterSetState, SetStateValid
  <2> QED BY <2>1, <2>3 DEF StoppedInv, States
<1>2. CASE FreeStop
  <2>1. freeStep = "stop" /\ freeStep' = "bcast" /\ state # "DELETED"
    BY <1>2 DEF FreeStop, StoppedInv
  <2>2. state' = "STOPPED"
    BY <1>2, <2>1 DEF FreeStop, SetState, AfterSetState, SetStateValid
  <2> QED BY <2>1, <2>2 DEF StoppedInv, States
<1>3. CASE FreeDelete
  <2>1. freeStep = "delete" /\ freeStep' = "join" /\ state = "STOPPED"
    BY <1>3 DEF FreeDelete, StoppedInv
  <2>2. state' = "DELETED"
    BY <1>3, <2>1 DEF FreeDelete, SetState, AfterSetState, SetStateValid
  <2>3. Asleep(wpc, "jobwait") = {}
    BY <2>1 DEF StoppedInv
  <2>4. \A t \in Threads : wpc'[t] # "jobwait"
    BY <1>0, <1>3, <2>3, WakesFacts DEF FreeDelete, SetState, Asleep
  <2>5. Asleep(wpc', "jobwait") = {}
    BY <1>0, <2>4 DEF Asleep
  <2> QED BY <2>1, <2>2, <2>5 DEF StoppedInv, States
<1>4. CASE FreeBroadcast
  <2>1. freeStep = "bcast" /\ freeStep' = "delete" /\ state = "STOPPED" /\ state' = state
    BY <1>4 DEF FreeBroadcast, StoppedInv
  <2>2. \A t \in Threads : wpc'[t] # "jobwait"
    BY <1>0, <1>4, WakesFacts DEF FreeBroadcast
  <2>3. Asleep(wpc', "jobwait") = {}
    BY <1>0, <2>2 DEF Asleep
  <2> QED BY <1>0, <2>1, <2>3 DEF StoppedInv
<1>5. ASSUME state' = state, ~FreeStop, ~FreeDelete, ~FreeBroadcast
      PROVE  StoppedInv'
  <2>1. CASE freeStep = "none"
    <3>1. freeStep' \in {"none", "mark"}
      BY <2>1, StepChanges DEF ClientFree, JobFree, DropRef, Free, FreeMark, FreeStop,
         FreeBroadcast, FreeDelete, FreeJoin, FreeFinal
    <3> QED BY <1>5, <2>1, <3>1 DEF StoppedInv
  <2>2. CASE freeStep # "none"
    <3>1. freeStep' = freeStep \/ FreeMark \/ FreeJoin \/ FreeFinal
      BY <1>5, <2>2, StepChanges, NoLateDrop DEF Free
    <3>2. ASSUME freeStep' \in {"delete", "join", "final", "returned"}
          PROVE  Asleep(wpc', "jobwait") = {}
      <4>1. freeStep \in {"delete", "join", "final", "returned"}
        BY <3>1, <3>2 DEF FreeMark, FreeJoin, FreeFinal
      <4>2. Asleep(wpc, "jobwait") = {} /\ state # "RUNNING"
        BY <4>1 DEF StoppedInv
      <4>3. \A t \in Threads : wpc[t] # "jobwait"
        BY <1>0, <4>2 DEF Asleep
      <4>4. ASSUME NEW t \in Threads, CreateThread(t) \/ Worker(t)
            PROVE  \A u \in Threads : wpc'[u] # "jobwait"
        BY <1>0, <4>2, <4>3, <4>4 DEF CreateThread, Worker, WorkerStart, WorkerStateWait,
           WorkerLeave, WorkerPull, WorkerJobWait, WorkerDone, WorkerExit, WorkerFinalFree
      <4>5. \A u \in Threads : wpc'[u] # "jobwait"
        BY <4>3, <4>4, WpcChange DEF Wakes
      <4> QED BY <1>0, <4>5 DEF Asleep
    <3>3. /\ freeStep' \in {"bcast", "delete"} => state' = "STOPPED"
          /\ freeStep' \in {"join", "final", "returned"} => state' = "DELETED"
          /\ state' = "DELETED" => freeStep' \in {"join", "final", "returned"}
      BY <1>5, <3>1 DEF StoppedInv, FreeMark, FreeJoin, FreeFinal
    <3> QED BY <3>2, <3>3 DEF StoppedInv
  <2> QED BY <2>1, <2>2
<1>6. \/ \E c \in Callers : Start(c) \/ Stop(c)
      \/ FreeStop \/ FreeDelete \/ FreeBroadcast
      \/ state' = state /\ ~FreeStop /\ ~FreeDelete /\ ~FreeBroadcast
  BY StepChanges
<1> QED BY <1>0, <1>1, <1>2, <1>3, <1>4, <1>5, <1>6

(* The wait for the workers: at its end no other worker is left.             *)
LEMMA LeftStep ==
  ASSUME TypeOK, FreerInv, AllocInv, CreatedInv, MarkInv, LeftInv, [Next]_vars
  PROVE  LeftInv'
<1> USE DEF poolVars, jobVars, workerVars, freeVars
<1>0. wpc \in [Threads -> WPCs] /\ wpc' \in [Threads -> WPCs] /\ pendingDelete \subseteq Threads
  BY WpcType DEF TypeOK, WPCs
<1>1. CASE FreeJoin
  <2>0. /\ freeStep = "join" /\ created =< ThreadsLeft
        /\ freer' = freer /\ wpc' = wpc /\ allocStep = "done"
    BY <1>1 DEF FreeJoin, AllocInv
  <2>1. \A t \in Active : t = freer
    <3>1. CASE SelfDelete
      <4>1. freer \in Active
        BY <1>0, <2>0, <3>1 DEF SelfDelete, MarkInv, Freeing, Active
      <4>2. Cardinality({freer}) = 1 /\ IsFiniteSet({freer})
        BY FS_Singleton
      <4>3. Cardinality(Active) =< 1
        BY <2>0, <3>1 DEF ThreadsLeft, CreatedInv
      <4>4. Cardinality({freer}) =< Cardinality(Active)
        BY <4>1, WorkersFinite, FS_Subset
      <4>5. Cardinality(Active) = Cardinality({freer})
        BY <4>2, <4>3, <4>4, WorkersFinite
      <4> QED BY <4>1, <4>5, WorkersFinite, FS_Subset
    <3>2. CASE ~SelfDelete
      <4>1. Cardinality(Active) = 0
        BY <2>0, <3>2, WorkersFinite DEF ThreadsLeft, CreatedInv
      <4> QED BY <4>1, WorkersFinite, FS_EmptySet
    <3> QED BY <3>1, <3>2
  <2>2. \A t \in Threads : wpc[t] # "new" /\ (wpc[t] = "final" => t = freer)
    BY <2>0 DEF AllocInv, MarkInv
  <2> QED BY <1>0, <2>0, <2>1, <2>2 DEF LeftInv, Active, WPCs
<1>2. ASSUME ~FreeJoin, freeStep' \in {"final", "returned"}
      PROVE  \A t \in Threads : t # freer' => wpc'[t] \in {"none", "exited"}
  <2>1. freeStep \in {"final", "returned"} /\ freer' = freer
    BY <1>2, StepChanges, NoLateDrop DEF Free, FreeMark, FreeStop, FreeBroadcast, FreeDelete,
       FreeFinal, ClientFree, JobFree, DropRef
  <2>2. allocStep = "done"
    BY <2>1 DEF AllocInv
  <2>3. \A t \in Threads : t # freer => wpc[t] \in {"none", "exited"}
    BY <2>1 DEF LeftInv
  <2>4. ASSUME NEW t \in Threads, Worker(t)
        PROVE  t = freer /\ \A u \in Threads : u # t => wpc'[u] = wpc[u]
    BY <1>0, <2>3, <2>4 DEF Worker, WorkerStart, WorkerStateWait, WorkerLeave, WorkerPull,
       WorkerJobWait, WorkerDone, WorkerExit, WorkerFinalFree
  <2> QED BY <2>1, <2>2, <2>3, <2>4, WpcChange DEF Wakes, CreateThread
<1> QED BY <1>1, <1>2 DEF LeftInv

-----------------------------------------------------------------------------
(* The job list *)

(* An insertion lengthens a sequence by one.                                 *)
LEMMA InsertOne ==
  ASSUME NEW S, NEW s \in Seq(S), NEW n \in 1..(Len(s) + 1), NEW e \in S
  PROVE  InsertAt(s, n, e) \in Seq(S) /\ Len(InsertAt(s, n, e)) = Len(s) + 1
<1>0. Len(s) \in Nat /\ \A i \in 1..Len(s) : s[i] \in S
  BY LenProperties, ElementOfSeq
<1>1. SubSeq(s, 1, n - 1) \in Seq(S) /\ Len(SubSeq(s, 1, n - 1)) = n - 1
  BY <1>0, SubSeqProperties
<1>2. /\ SubSeq(s, n, Len(s)) \in Seq(S)
      /\ Len(SubSeq(s, n, Len(s))) = (IF n =< Len(s) THEN Len(s) - n + 1 ELSE 0)
  BY <1>0, SubSeqProperties
<1>3. <<e>> \in Seq(S) /\ Len(<<e>>) = 1
  OBVIOUS
<1>4. /\ SubSeq(s, 1, n - 1) \o <<e>> \in Seq(S)
      /\ Len(SubSeq(s, 1, n - 1) \o <<e>>) = n
  BY <1>1, <1>3, ConcatProperties
<1>5. /\ (SubSeq(s, 1, n - 1) \o <<e>>) \o SubSeq(s, n, Len(s)) \in Seq(S)
      /\ Len((SubSeq(s, 1, n - 1) \o <<e>>) \o SubSeq(s, n, Len(s)))
           = n + Len(SubSeq(s, n, Len(s)))
  BY <1>2, <1>4, ConcatProperties
<1>6. n + (IF n =< Len(s) THEN Len(s) - n + 1 ELSE 0) = Len(s) + 1
  BY <1>0
<1>7. InsertAt(s, n, e) = (SubSeq(s, 1, n - 1) \o <<e>>) \o SubSeq(s, n, Len(s))
  BY DEF InsertAt
<1> QED BY <1>2, <1>5, <1>6, <1>7, Zenon

(* When the jobs left in the list are freed nobody is inside the pool.       *)
LEMMA NobodyInside ==
  ASSUME TypeOK, FreerInv, CallerInv, LeftInv, freeStep \in {"final", "returned"}
  PROVE  /\ \A c \in Callers : cpc[c] = "idle"
         /\ \A c \in Callers, call \in {"add", "try", "wait", "start", "stop"} : ~MayCall(c, call)
BY DEF FreerInv, CallerInv, LeftInv, MayCall

(* What a caller adds: one job with the next id.                             *)
LEMMA AddedJob ==
  ASSUME TypeOK, AddWorkLocked
  PROVE  /\ queue' \in Seq(Job) /\ Len(queue') = Len(queue) + 1
         /\ jobs' = jobs + 1 /\ nextId' = nextId + 1
         /\ UNCHANGED <<freeStep, wjob>>
<1>0. queue \in Seq(Job) /\ nextId \in Nat
  BY DEF TypeOK
<1>1. PICK p \in Priorities, n \in 1..(Len(queue) + 1) :
           queue' = InsertAt(queue, n, [id |-> nextId, priority |-> p])
  BY DEF AddWorkLocked
<1>2. [id |-> nextId, priority |-> p] \in Job
  BY <1>0 DEF Job
<1>3. queue' \in Seq(Job) /\ Len(queue') = Len(queue) + 1
  BY <1>0, <1>1, <1>2, InsertOne
<1> QED BY <1>3 DEF AddWorkLocked, freeVars

(* What a worker takes: one job, from a list that the counter matches; the   *)
(* case jobs = 1 of the code empties a list of length one.                   *)
LEMMA PulledJob ==
  ASSUME TypeOK, JobsInv, NEW t \in Threads, WorkerPull(t)
  PROVE  /\ queue' \in Seq(Job) /\ jobs = Len(queue) /\ jobs # 0 /\ jobs' = jobs - 1
         /\ jobs' = Len(queue')
         /\ Head(queue) \in Job
         /\ UNCHANGED <<freeStep, nextId>> /\ freeStep \notin {"final", "returned"}
<1>0. queue \in Seq(Job) /\ queue # <<>>
  BY DEF TypeOK, WorkerPull
<1>1. freeStep \notin {"final", "returned"} /\ jobs = Len(queue)
  BY <1>0 DEF JobsInv
<1>2. Len(queue) \in Nat \ {0}
  BY <1>0, EmptySeq
<1>3. Head(queue) \in Job /\ Tail(queue) \in Seq(Job) /\ Len(Tail(queue)) = Len(queue) - 1
  BY <1>0, HeadTailProperties
<1>4. <<>> \in Seq(Job) /\ Len(<<>>) = 0
  BY EmptySeq
<1>5. queue' = AfterPull /\ jobs' = jobs - 1 /\ UNCHANGED <<freeStep, nextId>>
  BY DEF WorkerPull, freeVars
<1>6. CASE jobs = 1
  BY <1>1, <1>2, <1>3, <1>4, <1>5, <1>6 DEF AfterPull
<1>7. CASE jobs # 1
  BY <1>1, <1>2, <1>3, <1>5, <1>7 DEF AfterPull
<1> QED BY <1>6, <1>7

(* `jobs' is the length of the list and stays within the limit.              *)
LEMMA JobsStep ==
  ASSUME TypeOK, FreerInv, CallerInv, LeftInv, JobsInv, [Next]_vars
  PROVE  JobsInv' /\ queue' \in Seq(Job) /\ jobs' \in 0..maxJobs /\ nextId' \in Nat
<1>0. queue \in Seq(Job) /\ jobs \in 0..maxJobs /\ nextId \in Nat /\ maxJobs \in Nat
  BY PoolAssumption DEF TypeOK, maxJobs
<1>1. ASSUME NEW t \in Threads, WorkerPull(t)
      PROVE  JobsInv' /\ queue' \in Seq(Job) /\ jobs' \in 0..maxJobs /\ nextId' \in Nat
  <2>1. queue' \in Seq(Job) /\ jobs' = Len(queue') /\ jobs' = jobs - 1 /\ jobs # 0
    BY <1>1, PulledJob
  <2>2. UNCHANGED <<freeStep, nextId>> /\ freeStep \notin {"final", "returned"}
    BY <1>1, PulledJob
  <2> QED BY <1>0, <2>1, <2>2 DEF JobsInv
<1>2. ASSUME NEW c \in Callers, AddWork(c) \/ TryWork(c)
      PROVE  JobsInv' /\ queue' \in Seq(Job) /\ jobs' \in 0..maxJobs /\ nextId' \in Nat
  <2>1. AddWorkLocked /\ jobs # maxJobs
    BY <1>0, <1>2 DEF AddWork, TryWork, HasSpace
  <2>2. freeStep \notin {"final", "returned"}
    BY <1>2, NobodyInside DEF AddWork, TryWork
  <2>3. /\ queue' \in Seq(Job) /\ Len(queue') = Len(queue) + 1
        /\ jobs' = jobs + 1 /\ nextId' = nextId + 1 /\ freeStep' = freeStep
    BY <2>1, AddedJob
  <2>4. jobs = Len(queue)
    BY <2>2 DEF JobsInv
  <2> QED BY <1>0, <2>1, <2>2, <2>3, <2>4 DEF JobsInv
<1>3. CASE FreeJoin
  <2>1. queue' = <<>> /\ freeStep' = "final" /\ UNCHANGED <<jobs, nextId>>
    BY <1>3 DEF FreeJoin
  <2> QED BY <1>0, <2>1, EmptySeq DEF JobsInv
<1>4. ASSUME UNCHANGED <<queue, jobs, nextId>>, ~FreeJoin
      PROVE  JobsInv'
  <2>1. freeStep' \in {"final", "returned"} <=> freeStep \in {"final", "returned"}
    BY <1>4, StepChanges, NoLateDrop DEF ClientFree, JobFree, DropRef, Free, FreeMark, FreeStop,
       FreeBroadcast, FreeDelete, FreeFinal
  <2> QED BY <1>4, <2>1 DEF JobsInv
<1> QED BY <1>0, <1>1, <1>2, <1>3, <1>4, StepChanges

(* What a worker runs has the type of a job.                                 *)
LEMMA WjobStep ==
  ASSUME TypeOK, JobsInv, [Next]_vars
  PROVE  wjob' \in [Threads -> Job \cup {None}]
<1>0. wjob \in [Threads -> Job \cup {None}]
  BY DEF TypeOK
<1>1. ASSUME NEW t \in Threads, WorkerPull(t)
      PROVE  wjob' \in [Threads -> Job \cup {None}]
  <2>1. PICK job \in Job : wjob' = [wjob EXCEPT ![t] = job]
    BY <1>1, PulledJob DEF WorkerPull
  <2> QED BY <1>0, <2>1
<1>2. ASSUME NEW t \in Threads, WorkerDone(t)
      PROVE  wjob' \in [Threads -> Job \cup {None}]
  BY <1>0, <1>2 DEF WorkerDone
<1> QED BY <1>0, <1>1, <1>2, StepChanges

-----------------------------------------------------------------------------
(* Wake-ups *)

OnTheWay(pc) == {t \in Threads : pc[t] \in {"new", "top", "statewait"}}

(* The workers on their way to the list can be counted.                      *)
LEMMA OnTheWayFinite ==
  ASSUME NEW pc
  PROVE  IsFiniteSet(OnTheWay(pc)) /\ Cardinality(OnTheWay(pc)) \in Nat
<1>1. IsFiniteSet(OnTheWay(pc))
  BY FS_Subset, PoolAssumption DEF OnTheWay
<1> QED BY <1>1, FS_CardinalityType

(* The signal for a new job wakes a worker if one sleeps; one that pulls a   *)
(* job takes it off the list; one that goes to sleep found the list empty.   *)
LEMMA JobSignalStep ==
  ASSUME TypeOK, AllocInv, FreerInv, JobsInv, StoppedInv, NoLostJobSignal, [Next]_vars, StoppedInv'
  PROVE  NoLostJobSignal'
<1> USE DEF poolVars, jobVars, workerVars, freeVars
<1>0. /\ wpc \in [Threads -> WPCs] /\ wpc' \in [Threads -> WPCs]
      /\ jobs \in Nat /\ queue \in Seq(Job)
  BY WpcType, PoolAssumption DEF TypeOK, WPCs, maxJobs
<1>1. SUFFICES ASSUME Asleep(wpc', "jobwait") # {}
               PROVE  jobs' =< Cardinality(OnTheWay(wpc'))
  BY DEF NoLostJobSignal, OnTheWay
<1>2. freeStep' \notin {"delete", "join", "final", "returned"} /\ state' # "DELETED"
  BY <1>1 DEF StoppedInv
<1>3. Asleep(wpc, "jobwait") # {} => jobs =< Cardinality(OnTheWay(wpc))
  BY DEF NoLostJobSignal, OnTheWay
<1>4. ASSUME AddWorkLocked
      PROVE  jobs' =< Cardinality(OnTheWay(wpc'))
  <2>1. jobs' = jobs + 1 /\ wpc' \in Signal(wpc, "jobwait", "top")
    BY <1>4 DEF AddWorkLocked, NewJobWakes
  <2>2. PICK t \in Threads : wpc[t] = "jobwait" /\ wpc' = [wpc EXCEPT ![t] = "top"]
    BY <1>0, <1>1, <2>1, SignalMoves
  <2>3. t \notin OnTheWay(wpc) /\ OnTheWay(wpc') = OnTheWay(wpc) \cup {t}
    BY <1>0, <2>2 DEF OnTheWay
  <2>4. Cardinality(OnTheWay(wpc')) = Cardinality(OnTheWay(wpc)) + 1
    BY <2>3, OnTheWayFinite, FS_AddElement
  <2>5. Asleep(wpc, "jobwait") # {}
    BY <1>0, <2>2 DEF Asleep
  <2> QED BY <1>0, <1>3, <2>1, <2>4, <2>5, OnTheWayFinite
<1>5. ASSUME NEW t \in Threads, WorkerPull(t)
      PROVE  jobs' =< Cardinality(OnTheWay(wpc'))
  <2>1. jobs' = jobs - 1 /\ wpc[t] = "top" /\ wpc' = [wpc EXCEPT ![t] = "run"]
    BY <1>5 DEF WorkerPull
  <2>2. t \in OnTheWay(wpc) /\ OnTheWay(wpc') = OnTheWay(wpc) \ {t}
    BY <1>0, <2>1 DEF OnTheWay
  <2>3. Cardinality(OnTheWay(wpc')) = Cardinality(OnTheWay(wpc)) - 1
    BY <2>2, OnTheWayFinite, FS_RemoveElement
  <2>4. Asleep(wpc, "jobwait") # {}
    BY <1>0, <1>1, <2>1 DEF Asleep
  <2> QED BY <1>0, <1>3, <2>1, <2>3, <2>4, OnTheWayFinite
<1>6. ASSUME NEW t \in Threads, WorkerJobWait(t)
      PROVE  jobs' =< Cardinality(OnTheWay(wpc'))
  <2>1. jobs' = jobs /\ queue = <<>> /\ state = "RUNNING" /\ freeStep \notin {"final", "returned"}
    BY <1>6 DEF WorkerJobWait, StoppedInv
  <2>2. jobs = Len(queue)
    BY <2>1 DEF JobsInv
  <2>3. jobs = 0
    BY <2>1, <2>2, EmptySeq
  <2> QED BY <2>1, <2>3, OnTheWayFinite
<1>7. ASSUME jobs' = jobs, Asleep(wpc', "jobwait") \subseteq Asleep(wpc, "jobwait"),
             OnTheWay(wpc) \subseteq OnTheWay(wpc')
      PROVE  jobs' =< Cardinality(OnTheWay(wpc'))
  <2>1. Cardinality(OnTheWay(wpc)) =< Cardinality(OnTheWay(wpc'))
    BY <1>7, OnTheWayFinite, FS_Subset
  <2>2. jobs =< Cardinality(OnTheWay(wpc))
    BY <1>1, <1>3, <1>7
  <2> QED BY <1>0, <1>7, <2>1, <2>2, OnTheWayFinite
<1>8. CASE Wakes /\ jobs' = jobs
  <2>1. Asleep(wpc', "jobwait") \subseteq Asleep(wpc, "jobwait")
    BY <1>0, <1>8 DEF Wakes, Asleep
  <2>2. OnTheWay(wpc) \subseteq OnTheWay(wpc')
    BY <1>0, <1>8 DEF Wakes, OnTheWay
  <2> QED BY <1>7, <1>8, <2>1, <2>2
<1>9. ASSUME NEW t \in Threads, CreateThread(t) \/ Worker(t), ~WorkerPull(t), ~WorkerJobWait(t)
      PROVE  jobs' =< Cardinality(OnTheWay(wpc'))
  <2>1. ~WorkerLeave(t)
    BY <1>2 DEF WorkerLeave
  <2>2. \/ CreateThread(t) \/ WorkerStart(t) \/ WorkerStateWait(t) \/ WorkerDone(t)
        \/ WorkerExit(t) \/ WorkerFinalFree(t)
    BY <1>9, <2>1 DEF Worker
  <2>3. jobs' = jobs
    BY <2>2 DEF CreateThread, WorkerStart, WorkerStateWait, WorkerDone, WorkerExit, WorkerFinalFree
  <2>4. Asleep(wpc', "jobwait") \subseteq Asleep(wpc, "jobwait")
    BY <1>0, <2>2 DEF CreateThread, WorkerStart, WorkerStateWait, WorkerDone, WorkerExit,
       WorkerFinalFree, Asleep
  <2>5. OnTheWay(wpc) \subseteq OnTheWay(wpc')
    BY <1>0, <2>2 DEF CreateThread, WorkerStart, WorkerStateWait, WorkerDone, WorkerExit,
       WorkerFinalFree, OnTheWay
  <2> QED BY <1>7, <2>3, <2>4, <2>5
<1>10. ~FreeJoin
  BY <1>2 DEF FreeJoin
<1> QED BY <1>4, <1>5, <1>6, <1>8, <1>9, <1>10, WpcChange, StepChanges DEF AddWork, TryWork

(* Space appears only by a pull from a full list, which wakes everybody who  *)
(* waits for it.                                                             *)
LEMMA SpaceSignalStep ==
  ASSUME TypeOK, BlockedAddersOnlyWhenFull, [Next]_vars
  PROVE  BlockedAddersOnlyWhenFull'
<1> USE DEF poolVars, jobVars, workerVars, freeVars
<1>0. cpc \in [Callers -> CPCs] /\ cpc' \in [Callers -> CPCs]
  BY CpcType DEF TypeOK, CPCs
<1>1. SUFFICES ASSUME NEW c \in Callers, cpc'[c] = "spacewait"
               PROVE  jobs' = maxJobs
  BY <1>0 DEF BlockedAddersOnlyWhenFull, Asleep
<1>2. (\E d \in Callers : cpc[d] = "spacewait") => jobs = maxJobs
  BY <1>0 DEF BlockedAddersOnlyWhenFull, Asleep
<1>3. ASSUME NEW t \in Threads, WorkerPull(t)
      PROVE  FALSE
  <2>1. PICK p \in {cpc} \cup Signal(cpc, "workwait", "wait") :
             cpc' = IF FreesSpace THEN Broadcast(p, "spacewait", "add") ELSE p
    BY <1>3 DEF WorkerPull, SpaceWakes
  <2>2. p \in [Callers -> CPCs] /\ \A d \in Callers : p[d] = "spacewait" => cpc[d] = "spacewait"
    BY <1>0, <2>1 DEF Signal, Asleep, CPCs
  <2>3. CASE FreesSpace
    BY <1>1, <2>1, <2>2, <2>3 DEF Broadcast
  <2>4. CASE ~FreesSpace
    BY <1>1, <1>2, <2>1, <2>2, <2>4 DEF FreesSpace
  <2> QED BY <2>3, <2>4
<1>4. ASSUME NEW d \in Callers, AddWork(d) \/ TryWork(d)
      PROVE  FALSE
  <2>1. jobs # maxJobs
    BY <1>4, PoolAssumption DEF AddWork, TryWork, HasSpace, TypeOK, maxJobs
  <2>2. cpc[c] = "spacewait"
    BY <1>0, <1>1, <1>4 DEF AddWork, TryWork
  <2> QED BY <1>2, <2>1, <2>2
<1>5. ASSUME NEW d \in Callers, InCall(d) \/ BeginsCall(d), ~AddWorkBlocks(d), jobs' = jobs
      PROVE  jobs' = maxJobs
  <2>1. cpc[c] = "spacewait"
    BY <1>0, <1>1, <1>5 DEF InCall, AddWork, WaitBlocks, WaitReturns, BroadcastJobs, BeginsCall,
       TryWork, CallAddWork, CallWait, Start, Stop
  <2> QED BY <1>2, <1>5, <2>1
<1>6. ASSUME NEW d \in Callers, AddWorkBlocks(d)
      PROVE  jobs' = maxJobs
  BY <1>6 DEF AddWorkBlocks
<1>7. CASE CWakes /\ jobs' = jobs
  BY <1>1, <1>2, <1>7 DEF CWakes
<1>8. jobs' = jobs \/ (\E t \in Threads : WorkerPull(t)) \/ (\E d \in Callers : AddWork(d) \/ TryWork(d))
  BY StepChanges DEF FreeJoin
<1> QED BY <1>3, <1>4, <1>5, <1>6, <1>7, <1>8, CpcChange

-----------------------------------------------------------------------------
(* The final free *)

(* The two places that run the final free exclude each other: the freer's    *)
(* worker if it was marked, else the freer itself.                           *)
LEMMA FreedStep ==
  ASSUME TypeOK, FreerInv, AllocInv, CallerInv, MarkInv, LeftInv, FreedInv, [Next]_vars
  PROVE  FreedInv'
<1> USE DEF poolVars, jobVars, workerVars, freeVars
<1>0. /\ wpc \in [Threads -> WPCs] /\ wpc' \in [Threads -> WPCs]
      /\ cpc \in [Callers -> CPCs] /\ cpc' \in [Callers -> CPCs]
      /\ pendingDelete \subseteq Threads
  BY WpcType, CpcType DEF TypeOK, WPCs, CPCs
<1>1. CASE FreeFinal
  <2>0. /\ freeStep = "final" /\ freeStep' = "returned" /\ wpc' = wpc /\ cpc' = cpc
        /\ freed' = IF SelfDelete THEN freed ELSE freed + 1
    BY <1>1 DEF FreeFinal
  <2>1. freed = 0
    BY <2>0 DEF FreedInv, SafeFree
  <2>2. CASE SelfDelete
    BY <2>0, <2>1, <2>2 DEF FreedInv, SafeFree
  <2>3. CASE ~SelfDelete
    <3>1. freer \notin Threads
      BY <2>0, <2>3 DEF MarkInv, SelfDelete
    <3>2. \A t \in Threads : wpc[t] \in {"none", "exited"}
      BY <2>0, <3>1 DEF LeftInv
    <3>3. \A c \in Callers : cpc[c] = "idle"
      BY <2>0, NobodyInside
    <3> QED BY <2>0, <2>1, <2>3, <3>2, <3>3 DEF FreedInv, SafeFree
  <2> QED BY <2>2, <2>3
<1>2. ASSUME NEW t \in Threads, WorkerFinalFree(t)
      PROVE  FreedInv'
  <2>0. /\ wpc[t] = "final" /\ wpc' = [wpc EXCEPT ![t] = "exited"] /\ freed' = freed + 1
        /\ UNCHANGED <<cpc, freeStep>>
    BY <1>2 DEF WorkerFinalFree
  <2>1. freed = 0
    BY <2>0 DEF FreedInv, SafeFree
  <2>2. t = freer /\ t \in pendingDelete
    BY <2>0 DEF MarkInv
  <2>3. freeStep = "returned"
    BY <2>0, <2>2 DEF MarkInv, Freeing, TypeOK
  <2>4. \A u \in Threads : wpc'[u] \in {"none", "exited"}
    BY <1>0, <2>0, <2>2, <2>3 DEF LeftInv
  <2>5. \A c \in Callers : cpc'[c] = "idle"
    BY <2>0, <2>3, NobodyInside
  <2> QED BY <2>0, <2>1, <2>3, <2>4, <2>5 DEF FreedInv, SafeFree
<1>3. ASSUME freed' = freed, freed = 1
      PROVE  FreedInv'
  <2>0. /\ freeStep = "returned" /\ allocStep = "done"
        /\ \A t \in Threads : wpc[t] \in {"none", "exited"}
        /\ \A c \in Callers : cpc[c] = "idle"
    BY <1>3 DEF FreedInv, SafeFree, AllocInv
  <2>1. freeStep' = "returned"
    BY <2>0, StepChanges, NoLateDrop DEF Free, FreeMark, FreeStop, FreeBroadcast, FreeDelete,
       FreeJoin, FreeFinal
  <2>2. ASSUME NEW t \in Threads
        PROVE  ~CreateThread(t) /\ ~Worker(t)
    BY <2>0, <2>2 DEF CreateThread, Worker, WorkerStart, WorkerStateWait, WorkerLeave, WorkerPull,
       WorkerJobWait, WorkerDone, WorkerExit, WorkerFinalFree
  <2>3. \A t \in Threads : wpc'[t] \in {"none", "exited"}
    BY <2>0, <2>2, WpcChange DEF Wakes
  <2>4. ASSUME NEW c \in Callers
        PROVE  ~InCall(c) /\ ~BeginsCall(c)
    BY <2>0, <2>4, NobodyInside DEF InCall, AddWorkBlocks, AddWork, WaitBlocks, WaitReturns,
       BroadcastJobs, BeginsCall, TryWork, CallAddWork, CallWait, Start, Stop
  <2>5. \A c \in Callers : cpc'[c] = "idle"
    BY <2>0, <2>4, CpcChange DEF CWakes
  <2> QED BY <1>3, <2>1, <2>3, <2>5 DEF FreedInv, SafeFree
<1>4. CASE freed' = freed /\ freed # 1
  BY <1>4 DEF FreedInv, SafeFree
<1> QED BY <1>1, <1>2, <1>3, <1>4, StepChanges

-----------------------------------------------------------------------------
(* The inductive invariant *)

(* Every variable keeps its type.                                            *)
LEMMA TypeStep ==
  ASSUME IInv, [Next]_vars
  PROVE  TypeOK'
<1> USE DEF poolVars, jobVars, workerVars, freeVars
<1>1. state' \in States /\ created' \in Nat /\ working' \in Nat
  BY StoppedStep, CreatedStep, WorkingStep DEF IInv
<1>2. refs' \in Nat /\ clientRefs' \subseteq Clients /\ jobRefs' \subseteq Nat
  BY RefsStep DEF IInv
<1>3. queue' \in Seq(Job) /\ jobs' \in 0..maxJobs /\ nextId' \in Nat
  BY JobsStep DEF IInv
<1>4. wjob' \in [Threads -> Job \cup {None}]
  BY WjobStep DEF IInv
<1>5. wpc' \in [Threads -> WPCs] /\ cpc' \in [Callers -> CPCs]
  BY WpcType, CpcType DEF IInv
<1>6. freer' \in Callers \cup {None}
      /\ freeStep' \in {"none", "mark", "stop", "bcast", "delete", "join", "final", "returned"}
  <2>1. freer \in Callers \cup {None}
        /\ freeStep \in {"none", "mark", "stop", "bcast", "delete", "join", "final", "returned"}
    BY DEF IInv, TypeOK
  <2> QED BY <2>1, StepChanges DEF ClientFree, JobFree, DropRef, Callers, Free, FreeMark, FreeStop,
             FreeBroadcast, FreeDelete, FreeJoin, FreeFinal
<1>7. allocStep' \in {"create", "wait", "done"}
  <2>1. allocStep \in {"create", "wait", "done"}
    BY DEF IInv, TypeOK
  <2> QED BY <2>1, StepChanges DEF EndCreate, AllocReturns
<1>8. pendingDelete' \subseteq Threads /\ deletedThreads' \subseteq Threads
  <2>1. pendingDelete \subseteq Threads /\ deletedThreads \subseteq Threads
    BY DEF IInv, TypeOK
  <2> QED BY <2>1, StepChanges DEF FreeMark, WorkerLeave
<1>9. freed' \in Nat
  <2>1. FreedInv'
    BY FreedStep DEF IInv
  <2> QED BY <2>1 DEF FreedInv
<1> QED BY <1>1, <1>2, <1>3, <1>4, <1>5, <1>6, <1>7, <1>8, <1>9 DEF TypeOK, WPCs, CPCs

(* The invariant holds initially.                                            *)
LEMMA InitInv ==
  ASSUME Init
  PROVE  IInv
<1> USE DEF Init
<1>0. Cardinality({}) = 0 /\ IsFiniteSet({}) /\ Cardinality({Creator}) = 1
  BY FS_EmptySet, FS_Singleton
<1>1. TypeOK
  <2>1. queue \in Seq(Job)
    BY EmptySeq
  <2>2. jobs \in 0..maxJobs
    BY PoolAssumption DEF maxJobs
  <2>3. freer \in Callers \cup {None}
    OBVIOUS
  <2> QED BY <2>1, <2>2, <2>3, PoolAssumption DEF TypeOK, States
<1>2. JobRefsInv /\ RefsInv /\ FreerInv
  BY <1>0, PoolAssumption DEF JobRefsInv, RefsInv, FreerInv
<1>3. AllocInv
  BY DEF AllocInv
<1>4. Active = {} /\ Asleep(wpc, "run") = {} /\ Asleep(wpc, "jobwait") = {}
      /\ Asleep(cpc, "spacewait") = {}
  BY DEF Active, Asleep
<1>5. CreatedInv /\ WorkingInv
  BY <1>0, <1>4 DEF CreatedInv, WorkingInv
<1>6. JobsInv
  <2>1. Len(queue) = 0
    BY EmptySeq
  <2> QED BY <2>1 DEF JobsInv
<1>7. CallerInv /\ MarkInv /\ LeftInv /\ StoppedInv
  BY <1>4 DEF CallerInv, MarkInv, Freeing, LeftInv, StoppedInv
<1>8. FreedInv /\ NoLostJobSignal /\ BlockedAddersOnlyWhenFull
  BY <1>4 DEF FreedInv, SafeFree, NoLostJobSignal, BlockedAddersOnlyWhenFull
<1> QED BY <1>1, <1>2, <1>3, <1>5, <1>6, <1>7, <1>8 DEF IInv

(* Every step keeps the invariant.                                           *)
LEMMA NextInv ==
  ASSUME IInv, [Next]_vars
  PROVE  IInv'
<1>1. TypeOK'
  BY TypeStep
<1>2. JobRefsInv' /\ RefsInv' /\ FreerInv'
  BY RefsStep, FreerStep DEF IInv
<1>3. AllocInv' /\ CreatedInv' /\ WorkingInv'
  BY AllocStep, CreatedStep, WorkingStep DEF IInv
<1>4. JobsInv' /\ CallerInv' /\ MarkInv'
  BY JobsStep, CallerStep, MarkStep DEF IInv
<1>5. LeftInv' /\ StoppedInv' /\ FreedInv'
  BY LeftStep, StoppedStep, FreedStep DEF IInv
<1>6. NoLostJobSignal' /\ BlockedAddersOnlyWhenFull'
  BY <1>5, JobSignalStep, SpaceSignalStep DEF IInv
<1> QED BY <1>1, <1>2, <1>3, <1>4, <1>5, <1>6 DEF IInv

(* The inductive invariant holds in every behaviour.                         *)
LEMMA Invariance == Spec => []IInv
BY InitInv, NextInv, PTL DEF Spec

-----------------------------------------------------------------------------
(* One waiter *)

OnlyWaitersWait == \A c \in Callers : cpc[c] \in {"wait", "workwait"} => c \in Waiters

(* A single signal on work_cond wakes the only waiter there can be; every    *)
(* other step leaves a sleeping waiter something to wait for.                *)
LEMMA WaiterStep ==
  ASSUME \A a, b \in Waiters : a = b,
         IInv, OnlyWaitersWait, SleepingWaiterHasWork, [Next]_vars
  PROVE  OnlyWaitersWait' /\ SleepingWaiterHasWork'
<1> USE DEF poolVars, jobVars, workerVars, freeVars
<1>0. /\ cpc \in [Callers -> CPCs] /\ cpc' \in [Callers -> CPCs]
      /\ jobs \in Nat /\ working \in Nat
      /\ wpc \in [Threads -> WPCs] /\ TypeOK
  BY CpcType, PoolAssumption DEF IInv, TypeOK, WPCs, CPCs, maxJobs
<1>1. OnlyWaitersWait'
  <2>1. ASSUME NEW d \in Callers, InCall(d) \/ BeginsCall(d)
        PROVE  OnlyWaitersWait'
    BY <1>0, <2>1 DEF OnlyWaitersWait, InCall, AddWorkBlocks, AddWork, WaitBlocks, WaitReturns,
       BroadcastJobs, BeginsCall, TryWork, CallAddWork, CallWait, Start, Stop
  <2>2. CASE CWakes
    BY <2>2 DEF OnlyWaitersWait, CWakes
  <2> QED BY <1>0, <2>1, <2>2, CpcChange
<1>2. SUFFICES ASSUME NEW c \in Callers, cpc'[c] = "workwait"
               PROVE  jobs' # 0 \/ working' # 0
  BY <1>0, <1>1 DEF SleepingWaiterHasWork, Asleep
<1>3. cpc[c] = "workwait" => jobs # 0 \/ working # 0
  BY <1>0 DEF SleepingWaiterHasWork, Asleep
<1>4. ASSUME NEW t \in Threads, WorkerPull(t)
      PROVE  jobs' # 0 \/ working' # 0
  BY <1>0, <1>4 DEF WorkerPull
<1>5. ASSUME NEW d \in Callers, AddWork(d) \/ TryWork(d)
      PROVE  jobs' # 0 \/ working' # 0
  BY <1>0, <1>5, AddedJob DEF AddWork, TryWork
<1>6. ASSUME NEW t \in Threads, WorkerDone(t)
      PROVE  jobs' # 0 \/ working' # 0
  <2>1. working # 0
    <3>1. t \in Asleep(wpc, "run")
      BY <1>0, <1>6 DEF WorkerDone, Asleep
    <3>2. IsFiniteSet(DOMAIN wpc)
      BY <1>0, PoolAssumption
    <3>3. IsFiniteSet(Asleep(wpc, "run")) /\ Cardinality(Asleep(wpc, "run")) # 0
      BY <3>1, <3>2, CountType, FS_EmptySet
    <3> QED BY <3>3 DEF IInv, WorkingInv
  <2>2. CASE LastWorking
    <3>1. cpc' \in Signal(cpc, "workwait", "wait")
      BY <1>6, <2>2 DEF WorkerDone
    <3>2. PICK d \in Callers : cpc[d] = "workwait" /\ cpc' = [cpc EXCEPT ![d] = "wait"]
      <4>1. Asleep(cpc, "workwait") # {}
        BY <1>0, <1>2, <3>1 DEF Signal, Asleep
      <4> QED BY <1>0, <3>1, <4>1, SignalMoves
    <3>3. c # d /\ cpc[c] = "workwait"
      BY <1>0, <1>2, <3>2
    <3> QED BY <3>2, <3>3 DEF OnlyWaitersWait
  <2>3. CASE ~LastWorking
    BY <1>0, <1>6, <2>1, <2>3 DEF WorkerDone, LastWorking
  <2> QED BY <2>2, <2>3
<1>7. ASSUME UNCHANGED <<jobs, working>>
      PROVE  jobs' # 0 \/ working' # 0
  <2>1. ASSUME NEW d \in Callers, WaitBlocks(d)
        PROVE  jobs' # 0 \/ working' # 0
    BY <1>7, <2>1 DEF WaitBlocks
  <2>2. ASSUME NEW d \in Callers, InCall(d) \/ BeginsCall(d), ~WaitBlocks(d)
        PROVE  cpc[c] = "workwait"
    BY <1>0, <1>2, <2>2 DEF InCall, AddWorkBlocks, AddWork, WaitReturns, BroadcastJobs, BeginsCall,
       TryWork, CallAddWork, CallWait, Start, Stop
  <2>3. CASE CWakes
    BY <1>2, <1>3, <1>7, <2>3 DEF CWakes
  <2> QED BY <1>0, <1>3, <1>7, <2>1, <2>2, <2>3, CpcChange
<1> QED BY <1>4, <1>5, <1>6, <1>7, StepChanges DEF FreeJoin

-----------------------------------------------------------------------------
(* The variables of the pool keep their types: jobs never leaves             *)
(* 0..max_jobs, so that the tests for a full and an empty list are exact.    *)
THEOREM TypeCorrect == Spec => []TypeOK
<1>1. IInv => TypeOK
  BY DEF IInv
<1> QED BY <1>1, Invariance, PTL

(* iot_threadpool_final_free runs at most once and only when every worker    *)
(* and every caller has left the pool, whoever drops the last reference.     *)
THEOREM FreedOnceAndLast == Spec => []SafeFree
<1>1. IInv => SafeFree
  BY DEF IInv, FreedInv
<1> QED BY <1>1, Invariance, PTL

(* One signal for each new job is enough: no job waits in the list while     *)
(* every worker that could run it sleeps.                                    *)
THEOREM JobSignalsSuffice == Spec => []NoLostJobSignal
<1>1. IInv => NoLostJobSignal
  BY DEF IInv
<1> QED BY <1>1, Invariance, PTL

(* A caller sleeps in iot_threadpool_add_work only in front of a full list.  *)
THEOREM AddersWoken == Spec => []BlockedAddersOnlyWhenFull
<1>1. IInv => BlockedAddersOnlyWhenFull
  BY DEF IInv
<1> QED BY <1>1, Invariance, PTL

(* The counters the loops of the pool test are those of what they count.     *)
THEOREM CountersCorrect == Spec => []CountersMatch
<1>1. IInv => CountersMatch
  <2>1. SUFFICES ASSUME IInv
                 PROVE  CountersMatch
    OBVIOUS
  <2>2. Asleep(wpc, "run") = {t \in Threads : wpc[t] = "run"}
    BY <2>1 DEF IInv, TypeOK, Asleep
  <2> QED BY <2>1, <2>2 DEF IInv, JobsInv, WorkingInv, RefsInv, CountersMatch
<1> QED BY <1>1, Invariance, PTL

(* With one waiter the two signals on work_cond are enough: whoever sleeps   *)
(* in iot_threadpool_wait has a job to wait for.  (With two it is not so.)   *)
THEOREM OneWaiterSleepsForWork ==
  ASSUME \A a, b \in Waiters : a = b
  PROVE  Spec => []SleepingWaiterHasWork
<1>1. Init => OnlyWaitersWait /\ SleepingWaiterHasWork
  BY DEF Init, OnlyWaitersWait, SleepingWaiterHasWork, Asleep
<1>2. IInv /\ OnlyWaitersWait /\ SleepingWaiterHasWork /\ [Next]_vars
        => OnlyWaitersWait' /\ SleepingWaiterHasWork'
  BY WaiterStep
<1> QED BY <1>1, <1>2, Invariance, PTL DEF Spec

-----------------------------------------------------------------------------
(* ThreadPool implements PriorityJobs: jobs start by priority and in order of *)
(* submission within one, each is run once, and the jobs left in the list    *)
(* are discarded when at most one job still runs.                            *)

Running == {t \in Threads : wpc[t] = "run"}

(* Jobs get their ids from the counter, so it is above all of them.          *)
IdsBelow ==
  /\ \A i \in 1..Len(queue) : queue[i].id < nextId
  /\ \A t \in Running : wjob[t] \in Job /\ wjob[t].id < nextId

Precedes(a, b) == a.id # b.id /\ Contract!StartsBefore(a, b)

(* The list is in the order in which its jobs are to start.                  *)
Sorted == \A j \in 1..Len(queue) : \A i \in 1..(j - 1) : Precedes(queue[i], queue[j])

(* A job is in the list or with one worker.                                  *)
IdsDiffer ==
  /\ \A t \in Running : \A i \in 1..Len(queue) : wjob[t].id # queue[i].id
  /\ \A t, u \in Running : t # u => wjob[t].id # wjob[u].id

OrderInv == IdsBelow /\ Sorted /\ IdsDiffer

-----------------------------------------------------------------------------
(* The insertion *)

(* An insertion moves what follows it by one place and nothing else.         *)
LEMMA InsertElements ==
  ASSUME NEW S, NEW s \in Seq(S), NEW n \in 1..(Len(s) + 1), NEW e \in S,
         NEW i \in 1..(Len(s) + 1)
  PROVE  InsertAt(s, n, e)[i] = IF i < n THEN s[i] ELSE IF i = n THEN e ELSE s[i - 1]
<1> DEFINE front == SubSeq(s, 1, n - 1)
           back == SubSeq(s, n, Len(s))
           head == front \o <<e>>
<1>0. Len(s) \in Nat /\ \A k \in 1..Len(s) : s[k] \in S
  BY LenProperties, ElementOfSeq
<1>1. front \in Seq(S) /\ Len(front) = n - 1 /\ \A k \in 1..(n - 1) : front[k] = s[k]
  BY <1>0, SubSeqProperties
<1>2. /\ back \in Seq(S)
      /\ n =< Len(s) => Len(back) = Len(s) - n + 1 /\ \A k \in 1..(Len(s) - n + 1) : back[k] = s[n + k - 1]
      /\ n > Len(s) => Len(back) = 0
  BY <1>0, SubSeqProperties
<1>3. <<e>> \in Seq(S) /\ Len(<<e>>) = 1 /\ <<e>>[1] = e
  OBVIOUS
<1>4. InsertAt(s, n, e) = head \o back
  BY DEF InsertAt
<1> HIDE DEF front, back
<1>5. /\ head \in Seq(S) /\ Len(head) = n
      /\ \A k \in 1..n : head[k] = IF k =< n - 1 THEN front[k] ELSE <<e>>[k - (n - 1)]
  BY <1>1, <1>3, ConcatProperties
<1> HIDE DEF head
<1>6. \A k \in 1..(n + Len(back)) : (head \o back)[k] = IF k =< n THEN head[k] ELSE back[k - n]
  BY <1>2, <1>5, ConcatProperties
<1>7. CASE i < n
  BY <1>0, <1>1, <1>2, <1>4, <1>5, <1>6, <1>7
<1>8. CASE i = n
  BY <1>0, <1>2, <1>3, <1>4, <1>5, <1>6, <1>8
<1>9. CASE i > n
  <2>1. n =< Len(s) /\ Len(back) = Len(s) - n + 1 /\ i - n \in 1..(Len(s) - n + 1)
    BY <1>0, <1>2, <1>9
  <2>2. i \in 1..(n + Len(back)) /\ ~(i =< n)
    BY <1>0, <1>9, <2>1
  <2>3. InsertAt(s, n, e)[i] = back[i - n]
    BY <1>4, <1>6, <2>2
  <2>4. back[i - n] = s[n + (i - n) - 1]
    BY <1>2, <2>1
  <2>5. n + (i - n) - 1 = i - 1
    BY <1>0
  <2> QED BY <1>9, <2>3, <2>4, <2>5
<1> QED BY <1>7, <1>8, <1>9

(* A job that outranks another starts before all that follow that one.       *)
LEMMA OutranksFollowing ==
  ASSUME NEW a \in Job, NEW b \in Job, NEW c \in Job,
         GoesBefore(a.priority, b), Contract!StartsBefore(b, c)
  PROVE  Contract!StartsBefore(a, c)
<1>1. /\ a.priority \in Nat \cup {NO_PRIORITY} /\ b.priority \in Nat \cup {NO_PRIORITY}
      /\ c.priority \in Nat \cup {NO_PRIORITY}
  BY PoolAssumption DEF Job
<1> QED BY <1>1 DEF GoesBefore, NO_PRIORITY, Contract!StartsBefore, Contract!Outranks

(* The place where the scan of iot_threadpool_add_work_locked stops keeps    *)
(* the list sorted.                                                          *)
LEMMA InsertSorted ==
  ASSUME TypeOK, IdsBelow, Sorted, NEW p \in Priorities,
         NEW n \in 1..(Len(queue) + 1), ScanStopsAt(p, n),
         queue' = InsertAt(queue, n, [id |-> nextId, priority |-> p])
  PROVE  /\ Sorted'
         /\ Len(queue') = Len(queue) + 1
         /\ \A i \in 1..Len(queue') : queue'[i].id =< nextId
         /\ {queue'[i] : i \in DOMAIN queue'}
              = {queue[i] : i \in DOMAIN queue} \cup {[id |-> nextId, priority |-> p]}
         /\ \A i \in 1..Len(queue') :
              queue'[i].id = nextId \/ \E k \in 1..Len(queue) : queue'[i] = queue[k]
<1> DEFINE e == [id |-> nextId, priority |-> p]
<1>0. queue \in Seq(Job) /\ nextId \in Nat /\ e \in Job
  BY DEF TypeOK, Job
<1>1. Len(queue) \in Nat /\ \A i \in 1..Len(queue) : queue[i] \in Job
  BY <1>0, LenProperties, ElementOfSeq
<1>2. queue' \in Seq(Job) /\ Len(queue') = Len(queue) + 1
  BY <1>0, InsertOne
<1>3. \A i \in 1..(Len(queue) + 1) :
        queue'[i] = IF i < n THEN queue[i] ELSE IF i = n THEN e ELSE queue[i - 1]
  BY <1>0, InsertElements
<1>4. e.id = nextId /\ e.priority = p
  OBVIOUS
<1> HIDE DEF e
<1>5. \A i \in 1..(n - 1) : Precedes(queue[i], e)
  <2>1. TAKE i \in 1..(n - 1)
  <2>2. /\ i \in 1..Len(queue) /\ ~GoesBefore(p, queue[i])
        /\ queue[i].id < nextId /\ queue[i].id \in Nat
    BY <1>1 DEF ScanStopsAt, IdsBelow, Job
  <2> QED BY <1>0, <1>4, <2>2 DEF GoesBefore, Precedes, Contract!StartsBefore, Contract!Outranks
<1>6. \A i \in n..Len(queue) : Precedes(e, queue[i])
  <2>1. TAKE i \in n..Len(queue)
  <2>2. /\ n \in 1..Len(queue) /\ i \in 1..Len(queue) /\ GoesBefore(p, queue[n])
        /\ queue[i].id # e.id
    BY <1>0, <1>1, <1>4 DEF ScanStopsAt, IdsBelow, Job
  <2>3. CASE i = n
    BY <1>4, <2>2, <2>3 DEF GoesBefore, Precedes, Contract!StartsBefore, Contract!Outranks
  <2>4. CASE i # n
    <3>1. n \in 1..(i - 1)
      BY <1>1, <2>2, <2>4
    <3>2. Precedes(queue[n], queue[i])
      BY <2>2, <3>1 DEF Sorted
    <3> QED BY <1>0, <1>1, <1>4, <2>2, <3>2, OutranksFollowing DEF Precedes
  <2> QED BY <2>3, <2>4
<1>7. \A j \in 1..(Len(queue) + 1) : \A i \in 1..(j - 1) : Precedes(queue'[i], queue'[j])
  <2>1. TAKE j \in 1..(Len(queue) + 1)
  <2>2. TAKE i \in 1..(j - 1)
  <2>3. i \in 1..(Len(queue) + 1)
    BY <1>1
  <2>4. queue'[i] = IF i < n THEN queue[i] ELSE IF i = n THEN e ELSE queue[i - 1]
    BY <1>3, <2>3
  <2>5. queue'[j] = IF j < n THEN queue[j] ELSE IF j = n THEN e ELSE queue[j - 1]
    BY <1>3
  <2>6. CASE j < n
    <3>1. j \in 1..Len(queue) /\ i < n
      BY <1>1, <2>6
    <3> QED BY <2>4, <2>5, <2>6, <3>1 DEF Sorted
  <2>7. CASE j = n
    <3>1. i \in 1..(n - 1) /\ i < n /\ ~(j < n)
      BY <1>1, <2>7
    <3> QED BY <1>5, <2>4, <2>5, <2>7, <3>1
  <2>8. CASE j > n /\ i < n
    <3>1. j - 1 \in 1..Len(queue) /\ i \in 1..((j - 1) - 1) /\ ~(j < n) /\ j # n
      BY <1>1, <2>8
    <3>2. Precedes(queue[i], queue[j - 1])
      BY <3>1 DEF Sorted
    <3> QED BY <2>4, <2>5, <2>8, <3>1, <3>2
  <2>9. CASE j > n /\ i = n
    <3>1. j - 1 \in n..Len(queue) /\ ~(j < n) /\ j # n /\ ~(i < n)
      BY <1>1, <2>9
    <3>2. Precedes(e, queue[j - 1])
      BY <1>6, <3>1
    <3> QED BY <2>4, <2>5, <2>9, <3>1, <3>2
  <2>10. CASE j > n /\ i > n
    <3>1. /\ j - 1 \in 1..Len(queue) /\ i - 1 \in 1..((j - 1) - 1)
          /\ ~(j < n) /\ j # n /\ ~(i < n) /\ i # n
      BY <1>1, <2>10
    <3>2. Precedes(queue[i - 1], queue[j - 1])
      BY <3>1 DEF Sorted
    <3> QED BY <2>4, <2>5, <3>1, <3>2
  <2> QED BY <1>1, <2>6, <2>7, <2>8, <2>9, <2>10
<1>8. Sorted'
  BY <1>2, <1>7 DEF Sorted
<1>9. \A i \in 1..(Len(queue) + 1) : queue'[i] = e \/ \E k \in 1..Len(queue) : queue'[i] = queue[k]
  <2>1. TAKE i \in 1..(Len(queue) + 1)
  <2>2. CASE i < n
    BY <1>1, <1>3, <2>2
  <2>3. CASE i > n
    <3>1. i - 1 \in 1..Len(queue) /\ ~(i < n) /\ i # n
      BY <1>1, <2>3
    <3> QED BY <1>3, <3>1
  <2> QED BY <1>1, <1>3, <2>2, <2>3
<1>10. \A k \in 1..Len(queue) : \E i \in 1..(Len(queue) + 1) : queue'[i] = queue[k]
  <2>1. TAKE k \in 1..Len(queue)
  <2>2. CASE k < n
    <3>1. k \in 1..(Len(queue) + 1)
      BY <1>1
    <3> QED BY <1>3, <2>2, <3>1
  <2>3. CASE k >= n
    <3>1. k + 1 \in 1..(Len(queue) + 1) /\ ~(k + 1 < n) /\ k + 1 # n /\ (k + 1) - 1 = k
      BY <1>1, <2>3
    <3>2. queue'[k + 1] = queue[k]
      BY <1>3, <3>1
    <3> QED BY <3>1, <3>2
  <2> QED BY <1>1, <2>2, <2>3
<1>11. n \in 1..(Len(queue) + 1) /\ queue'[n] = e
  BY <1>1, <1>3
<1>12. DOMAIN queue = 1..Len(queue) /\ DOMAIN queue' = 1..(Len(queue) + 1)
  BY <1>0, <1>2, LenProperties
<1>13. {queue'[i] : i \in DOMAIN queue'} = {queue[i] : i \in DOMAIN queue} \cup {e}
  <2>1. ASSUME NEW i \in DOMAIN queue'
        PROVE  queue'[i] \in {queue[k] : k \in DOMAIN queue} \cup {e}
    BY <1>9, <1>12
  <2>2. ASSUME NEW k \in DOMAIN queue
        PROVE  queue[k] \in {queue'[i] : i \in DOMAIN queue'}
    BY <1>10, <1>12
  <2>3. e \in {queue'[i] : i \in DOMAIN queue'}
    BY <1>11, <1>12
  <2> QED BY <2>1, <2>2, <2>3, Zenon
<1>14. \A i \in 1..Len(queue') : queue'[i].id =< nextId
  <2>1. TAKE i \in 1..Len(queue')
  <2>2. queue'[i] = e \/ \E k \in 1..Len(queue) : queue'[i] = queue[k]
    BY <1>2, <1>9
  <2>3. \A k \in 1..Len(queue) : queue[k].id \in Nat /\ queue[k].id < nextId
    BY <1>1 DEF Job, IdsBelow
  <2> QED BY <1>0, <1>4, <2>2, <2>3
<1> QED BY <1>2, <1>4, <1>8, <1>9, <1>13, <1>14 DEF e

-----------------------------------------------------------------------------
(* The steps of the contract *)

(* Which workers run, and what, changes by a pull and a return only.         *)
LEMMA RunningChanges ==
  ASSUME TypeOK, [Next]_vars, \A t \in Threads : ~WorkerPull(t) /\ ~WorkerDone(t)
  PROVE  Running' = Running /\ wjob' = wjob
<1>0. wpc \in [Threads -> WPCs]
  BY DEF TypeOK, WPCs
<1>1. wjob' = wjob
  BY StepChanges
<1>2. ASSUME NEW t \in Threads
      PROVE  wpc'[t] = "run" <=> wpc[t] = "run"
  <2>1. CASE Wakes
    BY <1>2, <2>1 DEF Wakes
  <2>2. ASSUME NEW u \in Threads, CreateThread(u) \/ Worker(u)
        PROVE  wpc'[t] = "run" <=> wpc[t] = "run"
    BY <1>0, <1>2, <2>2 DEF CreateThread, Worker, WorkerStart, WorkerStateWait, WorkerLeave,
       WorkerJobWait, WorkerExit, WorkerFinalFree
  <2> QED BY <2>1, <2>2, WpcChange
<1> QED BY <1>1, <1>2 DEF Running

(* Jobs are what the list holds; in a sorted list no two are the same.       *)
LEMMA QueueFacts ==
  ASSUME TypeOK, OrderInv
  PROVE  /\ queue \in Seq(Job) /\ Len(queue) \in Nat /\ nextId \in Nat
         /\ DOMAIN queue = 1..Len(queue)
         /\ \A i \in 1..Len(queue) : queue[i] \in Job
         /\ \A j \in 1..Len(queue) : \A i \in 1..(j - 1) : queue[i] # queue[j]
<1>1. queue \in Seq(Job) /\ nextId \in Nat
  BY DEF TypeOK
<1>2. Len(queue) \in Nat /\ DOMAIN queue = 1..Len(queue) /\ \A i \in 1..Len(queue) : queue[i] \in Job
  BY <1>1, LenProperties, ElementOfSeq
<1>3. ASSUME NEW j \in 1..Len(queue), NEW i \in 1..(j - 1), queue[i] = queue[j]
      PROVE  FALSE
  <2>1. Contract!StartsBefore(queue[j], queue[j])
    BY <1>3 DEF OrderInv, Sorted, Precedes
  <2>2. queue[j].id \in Nat /\ queue[j].priority \in Nat \cup {NO_PRIORITY}
    BY <1>2, PoolAssumption DEF Job
  <2> QED BY <2>1, <2>2 DEF NO_PRIORITY, Contract!StartsBefore, Contract!Outranks
<1> QED BY <1>1, <1>2, <1>3

Pending == {queue[i] : i \in DOMAIN queue}
InProgress == {wjob[t] : t \in Running}

(* A new job.                                                                *)
LEMMA SubmitStep ==
  ASSUME TypeOK, OrderInv, AddWorkLocked, UNCHANGED <<Running, wjob>>
  PROVE  OrderInv' /\ Contract!Submit
<1>1. PICK p \in Priorities, n \in 1..(Len(queue) + 1) :
           /\ ScanStopsAt(p, n)
           /\ queue' = InsertAt(queue, n, [id |-> nextId, priority |-> p])
  BY DEF AddWorkLocked
<1>2. nextId' = nextId + 1 /\ nextId \in Nat
  BY DEF AddWorkLocked, TypeOK
<1>3. /\ Sorted' /\ Len(queue') = Len(queue) + 1
      /\ \A i \in 1..Len(queue') : queue'[i].id =< nextId
      /\ Pending' = Pending \cup {[id |-> nextId, priority |-> p]}
      /\ \A i \in 1..Len(queue') :
           queue'[i].id = nextId \/ \E k \in 1..Len(queue) : queue'[i] = queue[k]
  BY <1>1, InsertSorted DEF OrderInv, Pending
<1>4. /\ \A i \in 1..Len(queue) : queue[i].id \in Nat /\ queue[i].id < nextId
      /\ \A t \in Running : wjob[t] \in Job /\ wjob[t].id \in Nat /\ wjob[t].id < nextId
  BY QueueFacts DEF OrderInv, IdsBelow, Job
<1>5. IdsBelow'
  <2>1. ASSUME NEW i \in 1..Len(queue')
        PROVE  queue'[i].id < nextId'
    BY <1>2, <1>3, <1>4, <2>1
  <2>2. ASSUME NEW t \in Running
        PROVE  wjob[t] \in Job /\ wjob[t].id < nextId'
    BY <1>2, <1>4, <2>2
  <2> QED BY <2>1, <2>2 DEF IdsBelow
<1>6. IdsDiffer'
  <2>1. ASSUME NEW t \in Running, NEW i \in 1..Len(queue')
        PROVE  wjob[t].id # queue'[i].id
    <3>1. CASE queue'[i].id = nextId
      BY <1>2, <1>4, <2>1, <3>1
    <3>2. CASE \E k \in 1..Len(queue) : queue'[i] = queue[k]
      BY <2>1, <3>2 DEF OrderInv, IdsDiffer
    <3> QED BY <1>3, <3>1, <3>2
  <2> QED BY <2>1 DEF OrderInv, IdsDiffer
<1>7. InProgress' = InProgress
  BY DEF InProgress
<1> QED BY <1>2, <1>3, <1>5, <1>6, <1>7 DEF OrderInv, Contract!Submit, Pending, InProgress, Running

(* A worker takes the first job of the list, which no other job precedes.    *)
LEMMA StartStep ==
  ASSUME TypeOK, JobsInv, OrderInv, NEW t \in Threads, WorkerPull(t)
  PROVE  OrderInv' /\ Contract!Start
<1>0. wpc \in [Threads -> WPCs] /\ wjob \in [Threads -> Job \cup {None}]
  BY DEF TypeOK, WPCs
<1>1. /\ queue \in Seq(Job) /\ Len(queue) \in Nat /\ nextId \in Nat
      /\ DOMAIN queue = 1..Len(queue) /\ queue # <<>>
      /\ \A i \in 1..Len(queue) : queue[i] \in Job
      /\ \A j \in 1..Len(queue) : \A i \in 1..(j - 1) : queue[i] # queue[j]
  BY QueueFacts DEF WorkerPull
<1>2. Len(queue) # 0 /\ Head(queue) = queue[1]
  BY <1>1, EmptySeq, HeadTailProperties
<1>3. /\ Tail(queue) \in Seq(Job) /\ Len(Tail(queue)) = Len(queue) - 1
      /\ \A i \in 1..(Len(queue) - 1) : Tail(queue)[i] = queue[i + 1]
  BY <1>1, HeadTailProperties
<1>4. /\ queue' \in Seq(Job) /\ Len(queue') = Len(queue) - 1
      /\ \A i \in 1..(Len(queue) - 1) : queue'[i] = queue[i + 1]
  <2>1. queue' = AfterPull /\ jobs = Len(queue)
    BY PulledJob DEF WorkerPull
  <2>2. CASE jobs = 1
    BY <2>1, <2>2, EmptySeq DEF AfterPull
  <2>3. CASE jobs # 1
    BY <1>3, <2>1, <2>3 DEF AfterPull
  <2> QED BY <2>2, <2>3
<1>5. /\ wjob' = [wjob EXCEPT ![t] = queue[1]] /\ nextId' = nextId
      /\ Running' = Running \cup {t} /\ t \notin Running
  BY <1>0, <1>2 DEF WorkerPull, Running
<1>6. \A j \in 2..Len(queue) : Precedes(queue[1], queue[j]) /\ queue[1] # queue[j]
  <2>1. TAKE j \in 2..Len(queue)
  <2>2. j \in 1..Len(queue) /\ 1 \in 1..(j - 1)
    BY <1>1
  <2> QED BY <1>1, <2>2 DEF OrderInv, Sorted
<1>7. IdsBelow'
  <2>1. ASSUME NEW i \in 1..Len(queue')
        PROVE  queue'[i].id < nextId
    <3>1. i \in 1..(Len(queue) - 1) /\ i + 1 \in 1..Len(queue)
      BY <1>1, <1>2, <1>4
    <3> QED BY <1>4, <3>1 DEF OrderInv, IdsBelow
  <2>2. ASSUME NEW u \in Running'
        PROVE  wjob'[u] \in Job /\ wjob'[u].id < nextId
    <3>1. 1 \in 1..Len(queue)
      BY <1>1, <1>2
    <3> QED BY <1>0, <1>1, <1>5, <3>1 DEF OrderInv, IdsBelow, Running
  <2> QED BY <1>5, <2>1, <2>2 DEF IdsBelow
<1>8. Sorted'
  <2>1. ASSUME NEW j \in 1..Len(queue'), NEW i \in 1..(j - 1)
        PROVE  Precedes(queue'[i], queue'[j])
    <3>1. /\ j \in 1..(Len(queue) - 1) /\ i \in 1..(Len(queue) - 1)
          /\ j + 1 \in 1..Len(queue) /\ i + 1 \in 1..((j + 1) - 1)
      BY <1>1, <1>2, <1>4
    <3> QED BY <1>4, <3>1 DEF OrderInv, Sorted
  <2> QED BY <2>1 DEF Sorted
<1>9. IdsDiffer'
  <2>1. \A i \in 1..Len(queue') : i + 1 \in 1..Len(queue) /\ queue'[i] = queue[i + 1]
    BY <1>1, <1>2, <1>4
  <2>2. ASSUME NEW i \in 1..Len(queue')
        PROVE  queue[1].id # queue'[i].id
    <3>1. 1 \in 1..Len(queue) /\ i + 1 \in 2..Len(queue) /\ i + 1 \in 1..Len(queue)
      BY <1>1, <1>2, <1>4
    <3> QED BY <1>6, <2>1, <3>1 DEF Precedes
  <2> QED BY <1>0, <1>1, <1>5, <2>1, <2>2 DEF OrderInv, IdsDiffer, Running
<1>10. 1 \in DOMAIN queue /\ Pending' = Pending \ {queue[1]}
  <2>1. 1 \in 1..Len(queue)
    BY <1>1, <1>2
  <2>2. DOMAIN queue' = 1..(Len(queue) - 1)
    BY <1>4, LenProperties
  <2>3. ASSUME NEW i \in DOMAIN queue'
        PROVE  queue'[i] \in Pending \ {queue[1]}
    <3>1. i \in 1..(Len(queue) - 1) /\ i + 1 \in 1..Len(queue) /\ i + 1 \in 2..Len(queue)
      BY <1>1, <2>2
    <3> QED BY <1>1, <1>4, <1>6, <3>1 DEF Pending
  <2>4. ASSUME NEW k \in DOMAIN queue, queue[k] # queue[1]
        PROVE  queue[k] \in Pending'
    <3>1. k - 1 \in 1..(Len(queue) - 1) /\ (k - 1) + 1 = k
      BY <1>1, <2>4
    <3>2. queue'[k - 1] = queue[k]
      BY <1>4, <3>1
    <3> QED BY <2>2, <3>1, <3>2 DEF Pending
  <2> QED BY <1>1, <2>1, <2>3, <2>4 DEF Pending
<1>11. InProgress' = InProgress \cup {queue[1]}
  BY <1>0, <1>5 DEF InProgress, Running
<1>12. \A k \in Pending \ {queue[1]} : Contract!StartsBefore(queue[1], k)
  <2>1. ASSUME NEW i \in DOMAIN queue, queue[i] # queue[1]
        PROVE  Contract!StartsBefore(queue[1], queue[i])
    <3>1. i \in 2..Len(queue)
      BY <1>1, <2>1
    <3> QED BY <1>6, <3>1 DEF Precedes
  <2> QED BY <2>1 DEF Pending
<1>13. queue[1] \in Pending
  BY <1>10 DEF Pending
<1> QED BY <1>5, <1>7, <1>8, <1>9, <1>10, <1>11, <1>12, <1>13
        DEF OrderInv, Contract!Start, Pending, InProgress, Running

(* A job's function returns.                                                 *)
LEMMA FinishStep ==
  ASSUME TypeOK, OrderInv, NEW t \in Threads, WorkerDone(t)
  PROVE  OrderInv' /\ Contract!Finish
<1>0. wpc \in [Threads -> WPCs] /\ wjob \in [Threads -> Job \cup {None}]
  BY DEF TypeOK, WPCs
<1>1. /\ wjob' = [wjob EXCEPT ![t] = None] /\ UNCHANGED <<queue, nextId>>
      /\ Running' = Running \ {t} /\ t \in Running
  BY <1>0 DEF WorkerDone, Running
<1>2. \A u \in Running' : u \in Running /\ wjob'[u] = wjob[u]
  BY <1>0, <1>1 DEF Running
<1>3. OrderInv'
  BY <1>1, <1>2 DEF OrderInv, IdsBelow, Sorted, IdsDiffer
<1>4. \A u \in Running \ {t} : wjob[u] # wjob[t]
  BY <1>1 DEF OrderInv, IdsDiffer
<1>5. InProgress' = InProgress \ {wjob[t]}
  BY <1>0, <1>1, <1>2, <1>4 DEF InProgress
<1>6. wjob[t] \in InProgress
  BY <1>1 DEF InProgress
<1> QED BY <1>1, <1>3, <1>5, <1>6 DEF Contract!Finish, Pending, InProgress, Running

(* The jobs left are freed when no worker but the freer is counted.          *)
LEMMA DiscardStep ==
  ASSUME TypeOK, CreatedInv, OrderInv, FreeJoin, UNCHANGED <<Running, wjob>>
  PROVE  OrderInv' /\ Contract!Discard
<1>1. queue' = <<>> /\ nextId' = nextId
  BY DEF FreeJoin
<1>2. Len(<<>>) = 0 /\ DOMAIN <<>> = {}
  BY EmptySeq
<1>3. OrderInv'
  BY <1>1, <1>2 DEF OrderInv, IdsBelow, Sorted, IdsDiffer
<1>4. IsFiniteSet(Active) /\ Cardinality(Active) =< 1
  <2>1. created =< 1
    BY DEF FreeJoin, ThreadsLeft, TypeOK
  <2> QED BY <2>1, WorkersFinite DEF CreatedInv
<1>5. Running \subseteq Active
  BY DEF Running, Active
<1>6. IsFiniteSet(Running) /\ Cardinality(Running) =< 1
  <2>1. IsFiniteSet(Running) /\ Cardinality(Running) =< Cardinality(Active)
    BY <1>4, <1>5, FS_Subset
  <2> QED BY <1>4, <2>1, WorkersFinite, FS_CardinalityType
<1>7. ASSUME NEW t \in Running, NEW u \in Running
      PROVE  t = u
  <2>1. SUFFICES ASSUME t # u
                 PROVE  FALSE
    OBVIOUS
  <2>2. IsFiniteSet(Running \ {t}) /\ Cardinality(Running \ {t}) = Cardinality(Running) - 1
    BY <1>6, FS_RemoveElement
  <2>3. Cardinality(Running \ {t}) = 0
    BY <1>6, <2>2, FS_CardinalityType
  <2> QED BY <2>1, <2>2, <2>3, FS_EmptySet
<1>8. Pending' = {} /\ InProgress' = InProgress
  BY <1>1, <1>2 DEF Pending, InProgress
<1> QED BY <1>1, <1>3, <1>7, <1>8 DEF Contract!Discard, Pending, InProgress, Running

(* Every step of the pool is a step of the contract or leaves it as it is.   *)
LEMMA ContractStep ==
  ASSUME IInv, OrderInv, [Next]_vars
  PROVE  OrderInv' /\ [Contract!Next]_(Contract!jvars)
<1>0. TypeOK /\ JobsInv /\ CreatedInv
  BY DEF IInv
<1>1. ASSUME NEW t \in Threads, WorkerPull(t)
      PROVE  OrderInv' /\ Contract!Start
  BY <1>0, <1>1, StartStep
<1>2. ASSUME NEW t \in Threads, WorkerDone(t)
      PROVE  OrderInv' /\ Contract!Finish
  BY <1>0, <1>2, FinishStep
<1>3. ASSUME \A t \in Threads : ~WorkerPull(t) /\ ~WorkerDone(t)
      PROVE  OrderInv' /\ (Contract!Submit \/ Contract!Discard \/ UNCHANGED Contract!jvars)
  <2>1. Running' = Running /\ wjob' = wjob
    BY <1>0, <1>3, RunningChanges
  <2>2. CASE \E c \in Callers : AddWork(c) \/ TryWork(c)
    <3>1. AddWorkLocked
      BY <2>2 DEF AddWork, TryWork
    <3> QED BY <1>0, <2>1, <3>1, SubmitStep
  <2>3. CASE FreeJoin
    BY <1>0, <2>1, <2>3, DiscardStep
  <2>4. CASE UNCHANGED <<queue, nextId>>
    <3>1. OrderInv'
      BY <2>1, <2>4 DEF OrderInv, IdsBelow, Sorted, IdsDiffer
    <3> QED BY <2>1, <2>4, <3>1 DEF Contract!jvars, Running
  <2> QED BY <1>3, <2>2, <2>3, <2>4, StepChanges
<1> QED BY <1>1, <1>2, <1>3 DEF Contract!Next

(* The list starts empty and nobody runs.                                    *)
LEMMA ContractInit ==
  ASSUME Init
  PROVE  OrderInv /\ Contract!Init
<1>1. Running = {} /\ queue = <<>> /\ nextId = 0
  BY DEF Init, Running
<1>2. Len(<<>>) = 0 /\ DOMAIN <<>> = {}
  BY EmptySeq
<1>3. OrderInv
  BY <1>1, <1>2 DEF OrderInv, IdsBelow, Sorted, IdsDiffer
<1> QED BY <1>1, <1>2, <1>3 DEF Contract!Init, Running

(* The pool keeps its promise to its callers (threadpool.c:203-260): each    *)
(* job added is started once, in the order of the priorities and, within one, of *)
(* submission, whatever the callers, the workers and the free interleave;    *)
(* jobs are dropped only by a free, when at most the job that called it      *)
(* still runs.                                                               *)
THEOREM ContractKept == Spec => ImplementsContract
<1>1. Init => OrderInv /\ Contract!Init
  BY ContractInit
<1>2. IInv /\ OrderInv /\ [Next]_vars => OrderInv' /\ [Contract!Next]_(Contract!jvars)
  BY ContractStep
<1> QED BY <1>1, <1>2, Invariance, PTL DEF Spec, ImplementsContract, Contract!Spec

=============================================================================
