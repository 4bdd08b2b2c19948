# TLA+ models of iotech-c-utils

Models, model-checking runs and proofs for the C library in `src/`: the thread
pool, the blocking queue, the scheduler, the component life cycle, the logger
and the container, and the data library with its conversions to and from CBOR,
JSON, YAML, XML and base64.

## 1. Inventory

| Part | State | Operations | Interacts with | What is hard |
|---|---|---|---|---|
| Component (`component.c`) | state, reference count, mutex, condition variable | set state, wait for a state, lock, add and drop a reference | embedded in pool, scheduler, logger, user components | transitions that are refused in silence; waits racing with the last reference |
| Thread pool (`threadpool.c`) | job list, counters `jobs`, `working`, `created`, three condition variables | alloc, add_work, try_work, wait, start, stop, add_ref, free | jobs call back into the pool; the scheduler submits to it | lost wake-ups, full queue, a pool freed by its own job, free racing with workers |
| Queue (`queue.c`) | list, limit, running flag, two condition variables | enqueue, dequeue, the two try forms, stop, set the limit, free | data lists | blocked threads while the limit changes or the queue stops |
| Scheduler (`scheduler.c`) | queue map and idle map of schedules, next wake-up time, per schedule: start, period, repeat, references, flags | create, add, remove, reset, delete, flags, callbacks, start, stop, free | thread pool, threads, user callbacks, component condition variable | the mutex is released in callbacks, time, references, stale wake-up time |
| Container (`container.c`) | list of components, registry of factories and containers under a lock | load, find, start, stop, add, delete | factories of all parts, dynamic libraries | loading on a find, cyclic configurations, order of start and stop |
| Logger (`logger.c`) | level, next logger, references, state | alloc, log, set level, start, stop, set next | called by every part | chains of loggers, changes while others log |
| Data, memory (`data.c`) | block cache, reference counts, buffers with an owner, metadata, constants | allocate, copy, free, compress, take a buffer | every part | who frees what, and once |
| Data, containers (`data.c`) | lists, vectors, red-black maps, iterators, cached hashes | add, remove, pop, merge, resize, iterate, replace | every part | tree rebalancing, stale hashes, references of shared parts |
| Data, numbers (`data.c`) | a typed value with its hash | compare, cast, transform, increment | CBOR, JSON, YAML | types of different sign and width, limits |
| CBOR, JSON, YAML, XML, base64 (`data-*.c`, `json.c`, `base64.c`) | buffers that grow | write, read | data, libyaml, yxml | sizes guessed ahead, escapes, encodings at their limits |
| Configuration, store (`config.c`, `store.c`) | files | read, write, substitute variables, typed getters | data, container | text that is substituted into text |
| File, time, OS, UUID | none | wrappers | | input and output |
| Vendored (`yxml.c`, `cunit/`), tests, examples, C++ and Zephyr ports | | | | |

What makes the parts correct:

* *pool*: a submitted job runs once, by priority and then in order; a blocked
  caller returns when it can; the pool is freed once, by whoever drops the last
  reference, after all others left it;
* *queue*: a bounded FIFO; nobody sleeps next to an element or a place he could
  have; a stop releases everybody;
* *scheduler*: a schedule is in one of the two maps; what a client does during
  a callback is not undone; a schedule that is not concurrent never overlaps
  itself; an overdue schedule is handled; nothing is used after its last
  reference;
* *container*: any configuration loads, cycles included; a component comes after
  those it refers to, so that it starts after them and stops before them;
  nobody starts, stops or deletes a component that is gone;
* *logger*: every chain ends, and a logger lives exactly as long as someone
  refers to it;
* *data, memory*: each block and buffer has one owner, who releases it to where
  it came from; counts are the number of holders;
* *data, containers*: a map is an ordered map, a list and a vector are sequences,
  whatever was called before; a cached hash is that of the contents; a tree
  stays what it was while others share its parts;
* *numbers*: comparison orders them by value, a cast keeps the value or is refused;
* *conversions*: what is written reads back, within the buffers sized for it.

`PROJECT.json` lists the components, the hazards at their lines and the
properties that cover them.

## 2. Modules

| Module | Models | Kind |
|---|---|---|
| `CondVar` | signal and broadcast on the program counters of threads | operators |
| `ComponentState` | states and `iot_component_set_state` | operators |
| `ThreadPool` | `threadpool.c` | system |
| `PriorityJobs` | what a pool promises | abstract specification |
| `Queue` | `queue.c` | system |
| `BoundedFifo` | what a queue promises | abstract specification |
| `Scheduler` | `scheduler.c` | system |
| `Logger` | `logger.c`: loggers, chains, calls of clients | system |
| `Container` | `container.c`; extends `Logger`, whose loggers are its components | composed system |
| `DataMap` | maps of `data.c`: the red-black tree, its iterator and hash | system |
| `OrderedMap` | what a map promises | abstract specification |
| `Data` | one data of a kind the client chooses; composes the modules below | composed system |
| `DataList`, `DataVector` | lists with their blocks, vectors, their iterators | parts of `Data` (`L`, `V`) |
| `Sequence` | what a list and a vector promise | abstract specification |
| `DataTree` | composed data that share their parts, and paths through them | part of `Data` (`T`) |
| `DataOwned` | strings, arrays, binaries, pointers, constants: who owns the buffer, and who counts | system |
| `DataNumber` | numbers: compare, cast, transform, increment | extended by the next |
| `DataCodec` | numbers in CBOR, base64, the CBOR buffer | extends `DataNumber` |
| `DataText` | documents in JSON (writer, tokeniser, reader) and CBOR | extends `DataCodec`, `Trees` |
| `DataShape` | vectors to arrays, dimensions; the reader of YAML | extends `DataText` |
| `Markup` | the reader of XML; variables in configurations | extends `DataShape` |
| `Trees`, `DataHash` | trees as functions from paths; hashes | operators |
| `MCThreadPool`, `MCQueue`, `MCScheduler`, `MCContainer`, `MCDataMap`, `MCData`, `MCDataOwned` | the instances TLC checks | |
| `CondVarProofs` | lemmas on sets and counts of waiting threads | proofs |
| `Extremes` | least and greatest elements of sets of numbers | proofs |
| `QueueProofs`, `ThreadPoolProofs`, `SchedulerProofs`, `ContainerProofs`, `DataMapProofs`, `DataOwnedProofs` | the theorems of section 5 | proofs |

### How actions correspond to code

An action is one critical section of the component's mutex, or the part of one
between two waits: nobody else sees the fields in between. A thread outside the
mutex is at a program counter (`wpc`, `cpc`, `pc`, `spc`) that says which
critical section comes next; a thread in `pthread_cond_wait` is at a counter of
its own (`jobwait`, `spacewait`, `enqwait`, `timedwait`), from which signals,
broadcasts and spurious wake-ups move it back to the test of its loop.
`pthread_cond_signal` wakes any one sleeper, and nobody if nobody sleeps.

*ThreadPool.* `Worker*` are the steps of `iot_threadpool_thread`; `Add*`,
`Try*`, `Wait*` and `BroadcastJobs` those of callers, which are the program's
threads and, while they run a job, the workers; `Free*` those of the last
`iot_threadpool_free`. The job list is a sequence from front to rear. A job's
argument may hold a reference to the pool (`jobRefs`): that is how a job frees
its own pool.

*Queue.* `Call*` is the call, the actions after it the loop up to the return.
`DequeueTakes` is also `iot_queue_try_dequeue`, which is the same critical
section entered from outside.

*Scheduler.* Times are relative to the clock and `Tick` passes one unit, so that
the state space is finite; schedules overdue for more than `MaxLate` keep only
their order. `spc` is where the scheduler thread is; `runcb` and `abortcb` are
the windows in which it has released the mutex for a callback, and `current` is
the schedule it comes back to. A sync run happens inside the action that starts
it because the code holds the mutex throughout. Whether the pool takes a run is
left open.

*Logger and Container.* `call[t]` is the call a thread is in and where: one that
walks a chain or the list takes one step per element, all others are one step.
`loads` is the stack of component creations, one frame for each
`iot_container_typed_load` or `iot_container_add_component`; the names of the
frames that `iot_container_load_locked` registered are `InProgress`, the code's
`iot_load_in_progress`. `iot_container_free` takes one step per component, as
`iot_data_free` goes through the list (`ContainerFree`, `FreeNext`, `FreeDone`).
The loggers a free takes with it (`FreedWith`) and the walk of a message (`Chain`)
are the smallest sets closed under what the code does, which is what its
recursion and its loop reach. The read-write lock is `Reads` (who holds it for reading)
and `MayWrite`. Three guards state what the code leaves to its callers: `Alone`
(nobody loads or adds while another thread is in the list), `Borrowed` (nobody
uses a component while it is deleted) and `ChainQuiet` (nobody exchanges the next
logger of a chain somebody logs through).

*DataMap.* A node is named by its key, since the code relinks nodes and never
moves a key. Mirror images in the code are one operator with a side. A loop of the
code is a function of the turns it has made, which stays as it is once the loop is
left; no loop makes more turns than there are keys (`LastTurn`), which the proofs
show. `skipped` and `replaced` are history that two of the properties need and the
code does not keep.

*Data.* `type` is the kind the client chose, and what belongs to other kinds
does not vary, so that one run covers them all without their product. Everything
is sequential: the library leaves it to the client that a data is not changed by
two threads.

* *lists*: blocks in the cache or the heap, linked in both directions, with the
  length at the head. *Vectors*: places counted from 1, possibly empty.
* *trees*: `heap` is the objects with their counts; `meant` is, for each tree of
  the client, the value it should have.
* *numbers* are counted in halves so that there are fractions; the widths
  8 < 16 < 24 < 32 < 53 < 64 become 2, 3, 4, 5, 8 and 9 bits, and rounding to a float is
  rounding to 4 or 8 of them (24 and 53 in the code). The text of a float has 3 or 4 decimal
  digits (9 and 17), and its value is in tenths; it is read as the nearest double
  (`TextDigits`, `FloatText`, `ReadFloat`). `Data` assumes of the digits what holds of the code's:
  a text tells two neighbouring floats apart.
* *texts*: JSON is a sequence of symbols where a string is a sequence of pieces
  (a character and its escapes); a character of base64 is its value in the
  decoding table; CBOR is a sequence of items with the width of their heads.
  Events of libyaml and yxml come from a document, with or without an error.

*DataOwned.* `store` holds the data and the buffers that are allocated, with the
fields of the code that say who frees a buffer and how (`release`, `release_block`,
`constant`, `refs`); `mine` is the buffers a client took with
`iot_data_binary_take` and has to free. `meant` is what each of its references
should show, which the code does not keep. Metadata are a map that holds one
value, and neither has metadata of its own, so that `iot_data_free` calls itself
twice at most: `Free`, `FreeMap` and `FreeValue` are these three calls of
`FreeAfter`, and no recursive operator is needed.

## 3. Runs

| Run | Instance | Shows |
|---|---|---|
| `threadpool` | 2 workers, 2 clients, one of them a waiter, 4 jobs, limit 2, priorities none and 1, creation may fail, jobs call `try_work` and may free the pool | all properties of `ThreadPool`, and that it implements `PriorityJobs` |
| `threadpool_two_waiters` | the same with 1 job and two waiters | `iot_threadpool_wait` may never return |
| `queue` | 4 threads, 4 elements, limits 0, 1, 2 | all properties of `Queue`, and that it implements `BoundedFifo` |
| `scheduler` | `p` run from a pool with both callbacks and a changing sync flag, `q` concurrent and run in threads that may fail to start; two references to the scheduler | all safety properties, that overdue schedules are handled and a free completes |
| `scheduler_late_wake` | no callbacks, default wake-up after 2 ticks | the thread may sleep past the first start |
| `scheduler_requeue` | run callback on `q`, whose thread may fail to start | a removed schedule is requeued |
| `scheduler_free` | the free's sleeps may be too short | the thread may outlive the scheduler |
| `container` | a manager and a client, two names, any configuration of them, three loggers besides the default one, two retries | the three invariants of `Container`, and that no call deadlocks |
| `data_map` | six keys, merges, iterators on maps of up to three keys | all properties of `DataMap`, and that it implements `OrderedMap` |
| `data_map_equal` | three keys | a map whose value was replaced through an iterator no longer equals its copy |
| `data` | see below | all properties of `Data`, and that lists and vectors implement `Sequence` |
| `ownership` | three references, three data, two buffers besides the client's own, one of them taken, strings that fit in a data, in a block or only on the heap, one constant | all properties of `DataOwned`, and that no call is ever stuck |

Each run checks the type invariant of its module, but for those of `Queue` and
`DataOwned`, which are proved (5), and of `Data`, whose parts belong to
`NothingLost` and `NumbersRight`.

Why the bounds are enough: two workers, two sleepers on one condition variable
and one job more than places make every wake-up choice and every race between
a job, a waiter and a free happen; four jobs with two priorities reach the
front, the middle and the end of the list. With two in the list and two to come both
callers can be blocked at once, and each place that is freed can be retaken, by the other of
them or by a job's `try_work`, before the one that was woken runs. Four threads fill both sides of the
queue with two sleepers each while the limit goes between none, less than and
more than the list. Two schedules, one of each kind, can collide on a start
time, overtake and starve each other; that no two queued schedules have the same
start is part of `InOneMap`. Deadlock is not checked in these runs because
all three systems may stop: every client may be done.

`container`: two names give every configuration graph that matters to a load (none,
a chain, a loop, a cycle of two), and a third logger is one that is made while
those of a chain exist. At most one component of a name is added by hand
(`MaxSame`); without that bound the run was made once, with the same result.

`data_map`: with six keys `iot_node_insert_balance` and `iot_node_remove_balance`
turn on both sides, the latter with red and with black siblings; the iterator is
followed on maps of up to three keys, which already have ends, successors below
and above, and a removal behind the iterator.

`data`: lists of three elements in chunks of two blocks and one heap block (the
cache is empty, refilled and mixed with the heap); vectors of three places; all
numbers of the reduced widths with two increments, among them floats whose text
is read as a double that differs from them; four bytes and six characters
of base64 (every length of the last group, blanks, padding in wrong places);
CBOR buffers of 1, 2 and 5 bytes up to 24; trees of depth 2 with two handles,
nine objects and five calls, starting from two trees with an empty place and a
nested map; documents of up to four parts and six larger ones (equal, unequal
and nested dimensions, two levels of composition); configurations of five pieces with
variables that are empty, contain a variable, have a name that is too long or are
not set. Deadlock is not checked: a bound may end a behaviour.

`ownership`: three references are what it takes to share a data, copy it and annotate
one of the two; three data are a data, the map of its metadata and the value
in it; and two buffers are those of a data and of its copy. References are
interchangeable (symmetry). A larger instance with two references, four data and three
buffers was checked on its own; that no bound matters is proved (5).

The callback `run_cb` of a schedule without a pool is left out of `scheduler`
and kept in `scheduler_requeue`, as the failure it leads to would hide all else;
`TimelyExit` likewise keeps the race of the free to `scheduler_free`.

## 4. Fairness

*ThreadPool*: a worker and a caller inside a function of the pool go on (the OS
schedules threads and the mutex is eventually granted), and a job's function
returns. No caller has to call anything. `AddReturns` and
`WaitReturnsEventually` suppose that the pool stays started and has a worker: a
stopped pool rightly blocks them. They also suppose that submissions come to an end, which
the bound on jobs (`MaxSubmit`) brings with it. Without it neither holds, of the model or
of the code: the mutex is granted in no particular order, so callers that submit for ever may
take each place before the one that was woken for it, and may keep the list from ever being
empty. `AddReturns` says that no interleaving of callers with finitely many jobs leaves one of
them blocked.

*Queue*: a thread inside a call goes on.

*Scheduler*: time passes, the scheduler thread and a free in progress go on.
Runs in pools and threads need not end. `DueHandled` supposes that clients stop
removing schedules at some point: one that is removed and added again for ever
keeps its old start and may always come first.

*Container*, *DataMap*, *Data*, *DataOwned*: none is assumed, and no liveness is claimed. A
load ends because its stack is bounded (`TypeOK` of `Container`), and
`iot_container_running` gives up after its retries.

Only weak fairness is used: a thread that is woken stays runnable until it runs.

## 5. Proofs

### The thread pool

`ThreadPoolProofs` proves, for every finite set of threads and clients, every
limit, every set of priorities, any number of jobs, and with or without failing
thread creation:

| Theorem | Property |
|---|---|
| `TypeCorrect` | `TypeOK`; in particular `jobs` stays in `0..max_jobs` |
| `FreedOnceAndLast` | `SafeFree` |
| `JobSignalsSuffice` | `NoLostJobSignal` |
| `AddersWoken` | `BlockedAddersOnlyWhenFull` |
| `CountersCorrect` | `CountersMatch` |
| `OneWaiterSleepsForWork` | `SleepingWaiterHasWork`, if there is at most one waiter (`threadpool_two_waiters` shows why) |
| `ContractKept` | `ImplementsContract`: the pool implements `PriorityJobs` |

These properties but `SleepingWaiterHasWork` and the refinement
follow from one inductive invariant, `IInv`, whose parts need each other:

* *who may be inside*: `RefsInv` ties the count to its holders, so the drop to
  zero leaves no holder (`FreerInv`); `CallerInv` says that whoever is inside a
  call holds a reference or is a running job, so once the last reference is gone
  only running jobs can be inside, and nobody can start the pool again
  (`StoppedInv`).
* *the wait of the free*: `CreatedInv` counts the started workers and `AllocInv`
  says that none was left unstarted, so `created = 0` (or 1, for a job that frees
  its own pool, which `MarkInv` keeps running) empties the pool of workers
  (`LeftInv`). From `LeftInv` and `MarkInv` exactly one of the two places that
  run the final free is taken, last: `SafeFree`.
* *wake-ups*: `NoLostJobSignal` holds because a worker goes to sleep only in front
  of an empty list (`JobsInv`), each new job sends one signal, and a worker that
  leaves for good does so when nobody sleeps on `job_cond` any more, since the
  broadcast comes before the `DELETED` state (`StoppedInv`).
  `BlockedAddersOnlyWhenFull` holds because a list stops being full only by a
  pull, which broadcasts.

`OneWaiterSleepsForWork` adds that only waiters sleep on `work_cond`: the single
signal where `working` reaches 0 then wakes the only one.
`ContractKept` maps the list to the set of pending jobs and the workers in
`run` to those in progress. It needs `OrderInv`: job ids are below the counter and
differ, and of any two jobs in the list the one in front is the one to start first.
The scan of `iot_threadpool_add_work_locked` keeps this: the place it stops at
splits the list into jobs that precede the new one and jobs that it precedes. A
pull then takes the job the contract asks for, and every other step changes
neither the list nor who runs.
`StepChanges` says which actions change which variables, so that each part is
proved over the few actions that can disturb it.

Assumption: `PoolAssumption` only (finite, disjoint sets of threads and clients;
jobs call only `add_work` and `try_work`; the limits are natural numbers). In
particular a job does not start its own pool.

### The queue

`QueueProofs` proves, for every finite set of threads, every set of limits and
every number of elements: `TypeCorrect`, `DequeuersWoken`, `EnqueuersWoken`,
`StopWakesAll` and the refinement `FifoRefined`. The inductive invariant is
`TypeInv /\ WakeInv`. `TypeInv` adds to the types that an enqueuer in its call
holds an element. `WakeInv` joins the three wake-up invariants because none is
inductive alone: a thread that gives up after a stop leaves an element or a
place to nobody, which is harmless only since `StopUnblocks` says that nobody
sleeps then; and the signal of an enqueue pays for the element it adds, that of
a dequeue for the place. The counting is in `CondVarProofs`: a signal with a
sleeper adds one to those awake, a thread that leaves takes one away.

`ElementsOwnedOnce` (`OwnedOnce`) has an invariant of its own, `OwnInv`: an element
is held by an enqueuer only inside its call, no two places of the list, no two
enqueuers and no two ways out hold the same one, and what was handed in is the
union of them.

Assumption: `QueueAssumption` only (finite threads, limits are natural numbers).

### The scheduler

`SchedulerProofs` proves, for every finite set of schedules, periods and delays and
every choice of flags:

| Theorem | Property |
|---|---|
| `TypeCorrect` | `TypeOK` |
| `OneMap` | `InOneMap` |
| `ReferencesExact` | `NoUseAfterFree` |
| `RunsAlone` | `NoOverlap` |

All four suppose `CallbacksPooled`: if threads may fail to start, schedules with a
run callback run from a pool. Without it `InOneMap` is false, which the run
`scheduler_requeue` shows (`scheduler.c:224`); the instance of `scheduler`
satisfies it. The inductive invariant is `Times /\ Owners`:

* `Owners`: a schedule held by a client is in exactly one map and others in none
  (`Mapped`); its count is what refers to it, runs in flight and an unfinished
  delete included (`NoUseAfterFree`), so that the test of the count against one
  before a run is a test for no run in flight (`NoOverlap`); the thread holds a
  schedule exactly while it is in a callback (`ThreadInv`); and no delete is half
  done when the last reference to the scheduler goes (`FreeInv`).
* `Times`: no two queued schedules have the same start, since a new one moves on to
  the next free key. That no start passes the horizon of the model is `Crowd`:
  starts beyond the farthest a client can ask for come from taken keys, one by
  one, so they thin out.

Assumption: `SchedulerAssumption`. That `Periods` and `Delays` are finite belongs to
the model (times are bounded so that TLC can enumerate them), not to the code.

### Loggers and the container

`ContainerProofs` proves, for every finite set of threads and names, any number of
loggers and every configuration, cycles included:

| Theorem | Property |
|---|---|
| `TypeCorrect` | `TypeOK` |
| `ReferencesCounted` | `ReferencesRight` |
| `OrderKept` | `DependenciesFirst` |

The inductive invariant `IInv` is `LoggerInv /\ CallInv` (TLC checked its parts on
the instance of `container` first); `Invariant` states it.

* `LoggerInv`: each count is the number of loggers that have this one as next, plus
  one for the list, plus one for each thread that owns it (`Counts`); chains have no
  cycle (`NoCycle`); no component is in the list twice and each is behind the one
  it depends on (`ListInv`). A free takes a path of loggers: each had one
  reference, so that only its predecessor on the path referred to it, and where
  the path stops at most one further logger loses a reference (`FreedWithFacts`). The counts
  then come out right (`Freed` against `Counts`) and nothing that is left refers
  to what is gone.
* `CallInv`: a walk over the list is at a member and a walk of a message on the chain
  it began with, which is kept because nothing on a chain is freed while its first
  logger has a holder (`FreedOnChain`, `ChainKept`); what is used on the
  container's behalf stays in the list meanwhile (`BorrowInv`); a component being
  deleted is present and is deleted by one thread (`DeleteInv`); nobody is in a
  container that is being freed (`FreedInv`); the names in `iot_load_in_progress`
  differ and only the outermost frame may be missing from them (`LoadsInv`), which
  bounds the depth of the loads by the number of names and one.

Assumptions: `LoggerAssumption` and `ContainerAssumption` (finite sets of threads and
names, which are not `NoName` or `NoConfig`). The guards `Alone`, `Borrowed` and
`ChainQuiet` are part of the model: what is proved holds of callers that keep to them.

### Maps

`DataMapProofs` proves, for every finite set of integer keys and of values, any
maps to merge and any bound on references:

| Theorem | Property |
|---|---|
| `TypeCorrect` | `TypeOK` |
| `TreeAlwaysLinked` | `TreeLinked` |
| `BalancedWhileRebalanced` | `BalancedUntilSkipped` |
| `RefsAlwaysHolders` | `RefsAreHolders` |
| `HashAlwaysFresh` | `HashFresh` |
| `HasNextAlwaysRight` | `HasNextIsRight` |
| `OrderedMapImplemented` | `ImplementsOrderedMap` |

The inductive invariant `MapInv` (`MapAlwaysGood`) says that there is a set `N` of
nodes with

* `RedBlack`: `N` is a search tree (`Tree(map, N, D)`: `D[n]` is `n` and what is
  below it, all of one side of `n` in the order of the keys, parents and children
  agree), no red node has a red parent, the root is black, keys outside `N` have no links
  left, and, until a rebalancing was skipped, each node has a number of black
  nodes that every path down from it meets (`Level`);
* `Filled`, `Owned`, `Fresh`: the size is that of `N`, the counts are the holders in
  `N`, the hash is that of the entries or marked;
* `Bounded`: no count passes `MaxRefs`; `Placed`: unless it wrapped, the count of
  the iterator is the rank of its node.

What follows the code most closely is the tree. Each link the code sets is one
lemma (`Hung`, `Transplanted`, `Rotated`), and `RotatedTree`, `LinkedTree`,
`ShortcutTree` and `ReplacedTree` show that what they add up to is a search tree again.
A turn of `iot_node_insert_balance` starts with at most one red pair, at the node the
loop is at, and ends with none, or with one at the grandparent, which has more nodes below it
(`InsertTurned`). A turn of `iot_node_remove_balance` paints the sibling and goes to the
parent, or is the last (`RemoveTurned`); red pairs are only where the loop is. That this
holds although the tree need not be balanced (see `BalancedUntilSkipped`) shows that the
tests of the code suffice: where a sibling is missing its children count as black, and the
turn is the one that only goes up (3.2). `LoopExists` and `LoopEnds` are what is needed of a loop: that the
function of its turns exists, and that it has ended after `LastTurn`.

`BalancedWhileRebalanced` rests on a fact about the test at `data.c:3234`: in a balanced
tree the child that comes up for a black node is red, so that painting it black is
all there is to rebalance (`ShortLevel`, `ReplacedLevel`); if there is no child, the code
skips it.

The refinement adds that a step of the iterator goes to the next key, the one a
search by parents and extremes finds (`NeighbourFacts`), and that the least and
greatest keys are those of `OrderedMap`.

Assumption: `MapAssumption`. That `Keys` and `Values` are finite belongs to the model;
keys are integers as only their order matters.

### Buffers and counts

`DataOwnedProofs` proves, for any number of references, data, buffers and contents and
any constants:

| Theorem | Property |
|---|---|
| `TypeCorrect` | `TypeOK` |
| `BuffersOwnedOnce` | `Accounted` |
| `ContentsKept` | `Unspoiled` |

The inductive invariant `IInv` (`Invariance`) is stated of a store with references and
buffers *in hand*: `Good(st, held, hand)` says that the count of each data is what `held`
has for it and the metadata that refer to it (`Counted`), and that each buffer is
the client's for good, in `hand`, or owned by one data, which frees it to where it came
from (`OneOwner`). Between two calls the hands are the client's slots and
`mine`. Within a call they are what the function has taken and not yet stored or
freed, so that each step of an operation is a lemma about `Good`, which takes over
what is in hand and hands on what it leaves: `AllocStringGood`, `CopyGives`, `SetMetadataGood`.
Neither half holds without `Nested` (metadata are maps of values, one level
deep; only a string lies in the data itself or in a block) and `ConstantsStay`
(constants own nothing and are never cut out).

* *Free.* The code frees the metadata before the data that refers to them, so that in
  between a data refers to what is gone, and no invariant holds there. `CutFirst` shows that
  the order does not matter: to free the parts and then cut the data out is to cut it out, take
  the reference it had in hand, and free that (`FreeGood`). The buffer goes
  back with the data, and nobody else owns it.
* *Contents.* `Extends` says that what was in a store is there still and shows the same. An operation
  that makes something extends the store (`ViewKept`), one that cuts a data out extends
  what is left, and a data somebody refers to is not cut out, as its count is not 0
  (`SlotsKept`). `SetMetadata` and `Take` change what is shown, and `meant` follows:
  those who share a map of metadata see the new value (`ValueAnnotates`), and a buffer
  is given away only by a data with one reference (`NobodyElse`). `CopyOwnership` and `MayGive` are
  the two tests of the code (`data.c:2648`, `data.c:1552`) on which this rests.

Assumption: `OwnedAssumption`. That there are finitely many references and constants
belongs to the model, and so does `Room`: a call is made only while there is memory.

### How the proofs do without induction

`Extremes` has that a set of naturals that is not empty has a least element, and what
follows from it. Every argument by induction in these proofs is by a least or a
greatest element, and every closure of a relation is the smallest set with a
property: to show that all its members have one, it is enough that
those which do are such a set.

### Model-checked only

* All liveness properties: `AddReturns`, `WaitReturnsEventually` and `FreeCompletes`
  of `ThreadPool`, `StopReleases` of `Queue`, `DueHandled` and `FreeCompletes` of
  `Scheduler`. They rest on fairness, which is out of the prover's reach.
* All properties of `Data` (`HashFresh`, `NothingLost`, `TreesKept`, `NumbersRight`,
  `CodecsInvert`, `ImplementsSequence`). The recursion of the code over trees, lists
  and texts is written with `RECURSIVE` operators there, and what a recursion
  computes for every input would need induction over data; both are out of the
  prover's reach.
* `EqualsItsCopy` of `DataMap`, which is false (run `data_map_equal`).

## 6. What the runs do not claim

### Behaviour of the code that properties leave out, and why

Each of these is a case where the code does something a reader of its
documentation or of its callers may not expect. The properties are stated so
that they hold of all other cases.

*Maps.*
* `data.c:3234` tests `(x && BLACK)` before it rebalances: after the removal of a
  black node without a child it never does, and the tree may degenerate. The
  order of the map is not affected. `BalancedUntilSkipped`.
* `iot_data_map_iter_replace_value` (`data.c:2373`) leaves the cached hash: run
  `data_map_equal`.
* `iot_data_map_iter_prev` from the first element starts again at the last while
  the count stays at 0. `HasNextIsRight`.

*Lists and vectors.*
* `iot_data_vector_resize` to the size the vector has takes a pending mark for a
  new hash away (`data.c:2068`). `HashFresh`.
* On an empty list or vector `iter_has_next` is true before the first step,
  though `data.h:774` says that it tells of a next element.
* A change of a value inside a composed value leaves the hash its container
  cached. Only direct changes are modelled.
* A vector with empty places cannot be written or compressed: that is treated
  as a precondition.
* `iot_data_vector_dims` descends by the shape of each element into an array
  sized by the first difference in depth (`data.c:2147`), and `[[], [1]]` is
  accepted though its rows differ. `NumbersRight` is stated for equal depths.

*Numbers.*
* A negative number and one of an unsigned type are compared as unsigned
  (`data.c:536`), against `data.h:2323`.
* Doubles just above the highest 64 bit integer pass the range check of a cast
  (`data.c:496`).
* `iot_data_increment` leaves the cached hash, and equality then fails
  (`data.c:1243`).
* Infinities are not modelled.
* A vector to an array: an element whose cast is refused (`data.c:2218`), or for which the
  client's transform gives NULL (`data.c:2244`), is skipped without a word. In the model every
  number can be cast to the type of the array, and so `Collected` skips only what is of another type.

*Conversions.*
* CBOR: the float 0.0 does not come back: its bits are written as an integer in the
  shortest form (`data-cbor.c:131`), which is then no float.
* JSON: an f32 is written with 9 digits (`data-json.c:69`), read as a double
  (`data-json.c:275`) and compared as one (`data.c:532`). Most do not come back equal (0.1f; 2^30),
  and the text of `FLT_MAX` is above it, so that a cast back to an f32 is refused
  (`data.c:497`). `JsonNumberKept` claims of an f32 only that the double read is one whose nearest
  f32 it is, and equality of all other numbers. YAML reads floats from the same text. An
  infinity is written as `1e400` or `1e800` whatever its sign (`data-json.c:69`, `data-json.c:71`):
  the negative one comes back positive. A NaN is written as text the reader does not know; a number beyond 64
  bits is dropped; a key whose value is dropped is leaked (`data-json.c:312`).
* YAML: `INT64_MAX` becomes unsigned, in JSON it does not.
* XML: text before a child element is lost, a text that ends early gives the
  elements so far, and nothing after the first element is read.

*Paths*: `iot_data_get_at` asserts where `data.h:2449` promises NULL
(`data.c:2788`); `iot_data_add_at` replaces only in places that exist.

*Ownership.*
* A copy of a pointer with metadata adds a reference to the metadata that nobody
  drops (`data.c:2710`); such copies are left out.
* An array taken with length 0 loses its buffer (`data.c:1602`); empty ones are
  left out. One that lost its buffer to a take is copied without, and its copy is not marked to
  release any (`data.c:1605`): a take from the copy allocates one of no bytes (`AllocArray`, `Take`).
* `iot_data_binary_take` copies into a buffer of `length`, not of `size`, bytes
  (`data.c:1560`); elements are bytes in the model. The hash of what was taken
  stays.
* Copies share the metadata: what is set later on one shows in the other.

*Containers.*
* `iot_container_typed_load` does not register in `iot_load_in_progress`, and so a
  cyclic configuration makes `iot_container_init` create a component twice.
* `iot_container_free` frees the oldest first, `iot_component_reconfig` uses
  `iot_config` without asking whether it is set: the model calls it only then.

*Queue*: `iot_queue_enqueue` on a full queue that is stopped returns without having
added its element and cannot tell (`queue.c:109`), though `queue.h:55` has it block until
space is available: such elements are those in `dropped`, which `OwnedOnce` counts.

*Pool and scheduler*: jobs that call `iot_threadpool_add_work` on their own pool
are left out of the run (`JobCalls`), and so are jobs that start it: once the last reference
is gone only such a job could slip a start between the stop and the delete of the free, whose
delete would then be refused in silence (`component.c:95`). Of the former, each blocks its worker when the
list is full, and all of them together the pool. `iot_schedule_add_randomised` is
modelled for schedules that are not queued, which is how the tests use it.

### Not modelled

* Contents of jobs, elements and schedule functions; logging; OS priorities and
  affinity; memory that fails to allocate; the free-job cache of the pool (no
  caller can see it); the wrap of 32-bit job ids and of 64-bit times.
* `iot_schedule_set_concurrent` and the setters of callbacks: parameters of
  `Scheduler`, fixed for a behaviour.
* Levels and formats of the logger, and the file and UDP it may write to: output.
* Dynamic loading, the registry of containers, and the listing and reading of a
  container: the first needs a loader, the rest changes nothing.
* Components other than loggers in a container, with callbacks of their own.
* Data: typed and constant containers, tags and type codes, arrays of elements
  wider than a byte, hashes of strings, and the wrappers that name one type of
  another operation (most of the remaining lines of `data.c`).
  `iot_data_map_base64_to_array`.
* Invalid JSON; indefinite lengths, tags, byte strings and half floats in CBOR,
  which only its reader knows; characters beyond ASCII.
* Typed getters of a configuration, the store, files, time, OS and UUID: wrappers
  of the C library.
* `yxml.c`, `cunit/`, the tests, examples, C++ and Zephyr ports: third-party code and
  clients of the library, which make up most of the lines of the repository.

## 7. Plan

1. Core (done): `ThreadPool`, `Queue`, `Scheduler` with their abstractions,
   proofs about `Queue` and about the safety of `ThreadPool`.
2. Data (done): maps against ordered maps, lists and vectors against sequences,
   trees, ownership, numbers, and the conversions.
3. Container and logger (done): loading, start and stop, deletion, chains.
4. Proofs (done): all safety properties and refinements of `ThreadPool`, `Queue`,
   `Scheduler`, `Container`, `DataMap` and `DataOwned`.
5. Left to model: the scheduler with its flags (`set_concurrent` against
   `set_sync`) and with a thread pool in place of the environment.
6. Left to prove: what of `DataVector` and `DataList` does not depend on a
   recursion (marks of hashes, links of blocks), in modules freed of it.
