------------------------------ MODULE Container ------------------------------
(***************************************************************************)
(* The container of src/src/c/container.c with loggers as its components.  *)
(* `components' is its list from the tail, which is the oldest component,  *)
(* to the head; `loads' is the stack of component creations under way, one *)
(* frame for each iot_container_typed_load or iot_container_add_component, *)
(* and InProgress the list iot_load_in_progress made of them.              *)
(*                                                                         *)
(* A component's configuration is the name of its next logger, which       *)
(* iot_logger_config looks up in the container and so loads first.         *)
(*                                                                         *)
(* The container's rwlock is held for reading by the threads Reads names   *)
(* and is only ever held for writing within one step; a reader may always  *)
(* enter again, because glibc prefers readers.                             *)
(*                                                                         *)
(* What the code leaves to its callers is in the guards of the calls:      *)
(* nobody adds or loads a component while another thread is in the list    *)
(* (Alone), and nobody uses a component while it is deleted (Borrowed).    *)
(***************************************************************************)
EXTENDS Logger, SequencesExt

CONSTANTS
  Clients,      \* threads that use loggers
  Managers,     \* threads that load, start, stop and free components
  NoConfig,     \* the store has no valid configuration for a name
  RunRetries,   \* IOT_CONTAINER_RUN_RETRIES
  MaxSame       \* bound: components of one name that are added

ASSUME ContainerAssumption ==
  /\ Clients \cup Managers = Threads
  /\ NoConfig \notin Names \cup {NoName}
  /\ RunRetries \in Nat \ {0}

VARIABLES
  components,   \* the list, oldest first
  loads,        \* component creations under way, the innermost last
  configured,   \* iot_config is set
  factory,      \* the logger factory is registered
  store,        \* name -> configuration the resolver loads
  freed         \* iot_container_free was called

loggerVars == <<logger, own, call>>
containerVars == <<components, loads, configured, factory, store, freed>>
vars == <<loggerVars, containerVars>>

Config == Names \cup {NoName}

Init ==
  /\ LoggerInit
  /\ components = <<>>
  /\ loads = <<>>
  /\ configured \in BOOLEAN
  /\ factory = FALSE
  /\ store \in IF configured THEN [Names -> Config \cup {NoConfig}]
               ELSE {[n \in Names |-> NoConfig]}
  /\ freed = FALSE

Listed == {components[i] : i \in DOMAIN components}
NamedBy(n) == SelectInSeq(components, LAMBDA o : logger[o].name = n)
Present(n) == NamedBy(n) # 0
Found(n) == IF Present(n) THEN components[NamedBy(n)] ELSE None
Place(o) == SelectInSeq(components, LAMBDA x : x = o)
\* Mutant: the check for cycles is gone.
InProgressSlip == {}
InProgress == {loads[i].name : i \in {j \in DOMAIN loads : loads[j].listed}}

Loading(t) == call[t].op \in {"find", "init", "add"}
Reads(t) == call[t].op \in {"start", "stop", "running", "find"}
\* Mutant: iot_container_delete_component does not wait for readers.
MayWriteSlip(t) == TRUE
MayWrite(t) == \A u \in Threads : ~Reads(u)

(* Assumptions about the callers. *)
Alone(t) == \A u \in Threads \ {t} : ~Reads(u) /\ ~Loading(u) /\ call[u].op # "delete"
Deleting == {call[u].name : u \in {v \in Threads : call[v].op = "delete"}}
Borrowed(o) == \E u \in Threads : call[u].op = "log" /\ call[u].via = o /\ o \notin own[u]
Usable(t) ==
  {Default} \cup own[t]
  \cup {o \in Listed : /\ logger[o].name \notin Deleting /\ ~freed
                      /\ \A u \in Threads : ~Loading(u)}

-----------------------------------------------------------------------------
(* Finding, loading and adding components. *)

Frame(n, config, listed) == [name |-> n, config |-> config, listed |-> listed, asked |-> FALSE]

(* Bound: a call starts only if there is room for what it can create; a    *)
(* cycle of the configuration makes iot_container_init create one of its   *)
(* components twice.                                                       *)
Missing == Cardinality({n \in Names : ~Present(n)})
Cycles ==
  LET loops == Cardinality({n \in Names : store[n] = n})
  IN  loops + (Cardinality(Names) - loops) \div 2

FactoryAdd(t) ==
  /\ call[t].op = "idle"
  /\ factory' = TRUE
  /\ UNCHANGED <<loggerVars, components, loads, configured, store, freed>>

(* Of iot_container_find_component only the call that has to load a         *)
(* component changes anything.                                             *)
FindComponent(t, n) ==
  /\ call[t].op = "idle" /\ Alone(t) /\ RoomFor(Missing) /\ ~freed
  /\ configured /\ ~Present(n)
  /\ loads' = <<Frame(n, store[n], TRUE)>>
  /\ call' = [call EXCEPT ![t].op = "find"]
  /\ UNCHANGED <<logger, own, components, configured, factory, store, freed>>

Copies(n) == Cardinality({i \in DOMAIN components : logger[components[i]].name = n})

(* iot_container_add_component does not look for a component of that name. *)
AddComponent(t, n, config) ==
  /\ call[t].op = "idle" /\ Alone(t) /\ RoomFor(Missing + 1) /\ ~freed
  /\ factory /\ Copies(n) < MaxSame
  /\ loads' = <<Frame(n, config, FALSE)>>
  /\ call' = [call EXCEPT ![t].op = "add"]
  /\ UNCHANGED <<logger, own, components, configured, factory, store, freed>>

ContainerInit(t) ==
  /\ call[t].op = "idle" /\ Alone(t) /\ RoomFor(Missing + Cycles) /\ ~freed
  /\ configured
  /\ call' = [call EXCEPT ![t].op = "init", ![t].todo = Names]
  /\ UNCHANGED <<logger, own, containerVars>>

(* The names of the container's configuration come in the order of its     *)
(* keys, which may be any.                                                 *)
InitNext(t) ==
  /\ call[t].op = "init" /\ loads = <<>>
  /\ \E n \in call[t].todo :
       /\ loads' = IF Present(n) THEN <<>> ELSE <<Frame(n, store[n], FALSE)>>
       /\ call' = [call EXCEPT ![t].todo = @ \ {n}]
  /\ UNCHANGED <<logger, own, components, configured, factory, store, freed>>

InitDone(t) ==
  /\ call[t].op = "init" /\ loads = <<>> /\ call[t].todo = {}
  /\ call' = [call EXCEPT ![t] = Idle]
  /\ UNCHANGED <<logger, own, containerVars>>

Innermost(t) == Loading(t) /\ loads # <<>>
Loadable(f) == factory /\ f.config # NoConfig

(* iot_logger_config asks for its next logger, which is not in the list    *)
(* and not being loaded.                                                   *)
Asks(f) ==
  /\ configured /\ ~f.asked
  /\ f.config # NoName /\ ~Present(f.config) /\ f.config \notin InProgress

LoadNext(t) ==
  LET f == Last(loads) IN
  /\ Innermost(t) /\ Loadable(f) /\ Asks(f)
  /\ loads' = Append([loads EXCEPT ![Len(loads)].asked = TRUE],
                     Frame(f.config, store[f.config], TRUE))
  /\ UNCHANGED <<loggerVars, components, configured, factory, store, freed>>

Return(t) ==
  /\ loads' = Front(loads)
  /\ call' = IF Len(loads) = 1 /\ call[t].op # "init"
             THEN [call EXCEPT ![t] = Idle] ELSE call

\* Mutant: a new component goes to the wrong end of the list.
HeadPushSlip(o) == <<o>> \o components
HeadPush(o) == Append(components, o)

ComponentCreate(t) ==
  LET f == Last(loads)
      o == Address IN
  /\ Innermost(t) /\ Loadable(f) /\ ~Asks(f) /\ RoomFor(1)
  /\ logger' = NewAlloc(logger, o, f.name, Found(f.config))
  /\ components' = HeadPush(o)
  /\ Return(t)
  /\ UNCHANGED <<own, configured, factory, store, freed>>

LoadFails(t) ==
  /\ Innermost(t) /\ ~Loadable(Last(loads))
  /\ Return(t)
  /\ UNCHANGED <<logger, own, components, configured, factory, store, freed>>

-----------------------------------------------------------------------------
(* Starting and stopping: from the tail to the head and back, under the    *)
(* read lock.                                                              *)

Enter(t, op, o) ==
  /\ call[t].op = "idle" /\ ~freed
  /\ \A u \in Threads : ~Loading(u)
  /\ call' = [call EXCEPT ![t] = [Idle EXCEPT !.op = op, !.at = o]]
  /\ UNCHANGED <<logger, own, containerVars>>

ContainerStart(t) == components # <<>> /\ Enter(t, "start", Head(components))
ContainerStop(t) == components # <<>> /\ Enter(t, "stop", Last(components))

StartComponent(t) ==
  LET i == Place(call[t].at) IN
  /\ call[t].op = "start"
  /\ logger' = StateSet(logger, call[t].at, "RUNNING")
  /\ call' = [call EXCEPT ![t] = IF i = Len(components) THEN [Idle EXCEPT !.op = "running"]
                                 ELSE [@ EXCEPT !.at = components[i + 1]]]
  /\ UNCHANGED <<own, containerVars>>

StopComponent(t) ==
  LET i == Place(call[t].at) IN
  /\ call[t].op = "stop"
  /\ logger' = StateSet(logger, call[t].at, "STOPPED")
  /\ call' = [call EXCEPT ![t] = IF i = 1 THEN Idle ELSE [@ EXCEPT !.at = components[i - 1]]]
  /\ UNCHANGED <<own, containerVars>>

(* iot_container_running waits for every component to run, a limited       *)
(* number of times.                                                        *)
Running(t) ==
  LET up == \A o \in Listed : logger[o].state = "RUNNING" IN
  /\ call[t].op = "running"
  /\ call' = [call EXCEPT ![t] =
       IF up \/ @.tries + 1 = RunRetries THEN Idle ELSE [@ EXCEPT !.tries = call[t].tries + 1]]
  /\ UNCHANGED <<logger, own, containerVars>>

-----------------------------------------------------------------------------
(* Deleting, freeing, reconfiguring. *)

(* iot_component_free: stop it unless it is stopped, and drop the          *)
(* reference of the container.                                             *)
ComponentFreed(L, o) ==
  Freed(IF L[o].state = "STOPPED" THEN L ELSE StateSet(L, o, "STOPPED"), o)

DeleteComponent(t, n) ==
  /\ call[t].op = "idle" /\ ~freed
  /\ Present(n) /\ n \notin Deleting
  /\ \A u \in Threads : call[u].op \notin {"init", "add"}
  /\ \A o \in Listed : logger[o].name = n => ~Borrowed(o)
  /\ call' = [call EXCEPT ![t] = [Idle EXCEPT !.op = "delete", !.name = n]]
  /\ UNCHANGED <<logger, own, containerVars>>

DeleteLocked(t) ==
  LET o == Found(call[t].name) IN
  /\ call[t].op = "delete"
  /\ MayWrite(t)
  /\ components' = RemoveAt(components, Place(o))
  /\ logger' = ComponentFreed(logger, o)
  /\ call' = [call EXCEPT ![t] = Idle]
  /\ UNCHANGED <<own, loads, configured, factory, store, freed>>

(* No lock is taken: the container must not be in use.                     *)
ContainerFree(t) ==
  /\ call[t].op = "idle" /\ Alone(t) /\ ~freed
  /\ \A o \in Listed : ~Borrowed(o)
  /\ freed' = TRUE
  /\ call' = [call EXCEPT ![t].op = "free"]
  /\ UNCHANGED <<logger, own, components, loads, configured, factory, store>>

(* The list is freed from the tail, one component after the other.         *)
FreeNext(t) ==
  /\ call[t].op = "free" /\ components # <<>>
  /\ logger' = ComponentFreed(logger, Head(components))
  /\ components' = Tail(components)
  /\ UNCHANGED <<own, call, loads, configured, factory, store, freed>>

FreeDone(t) ==
  /\ call[t].op = "free" /\ components = <<>>
  /\ call' = [call EXCEPT ![t] = Idle]
  /\ UNCHANGED <<logger, own, containerVars>>

(* iot_component_reconfig merges the new configuration and saves the       *)
(* result: from then on a load of that name reads it.                      *)
Reconfig(t, o, config) ==
  /\ call[t].op = "idle" /\ configured
  /\ store' = [store EXCEPT ![logger[o].name] = config]
  /\ UNCHANGED <<loggerVars, components, loads, configured, factory, freed>>

-----------------------------------------------------------------------------
(* Clients use loggers, managers the container; both delete components.    *)
ClientCall(t) ==
  /\ UNCHANGED containerVars
  /\ \/ /\ \A u \in Threads : ~Loading(u)
        /\ \E next \in Usable(t) \cup {None} : AllocLogger(t, next)
     \/ \E o \in Usable(t) : AddRef(t, o)
     \/ \E o \in own[t] : FreeLogger(t, o)
     \/ \E o \in own[t], next \in Usable(t) \cup {None} :
          logger[o].name = NoName /\ SetNext(t, o, next)
     \/ \E o \in own[t] : StartLogger(t, o) \/ StopLogger(t, o)
     \/ \E o \in Usable(t) : Log(t, o)
     \/ LogNext(t)

ManagerCall(t) ==
  \/ FactoryAdd(t)
  \/ \E n \in Names : FindComponent(t, n)
  \/ \E n \in Names, config \in Config : AddComponent(t, n, config)
  \/ ContainerInit(t)
  \/ InitNext(t)
  \/ InitDone(t)
  \/ LoadNext(t)
  \/ ComponentCreate(t)
  \/ LoadFails(t)
  \/ ContainerStart(t)
  \/ ContainerStop(t)
  \/ StartComponent(t)
  \/ StopComponent(t)
  \/ Running(t)
  \/ ContainerFree(t)
  \/ FreeNext(t)
  \/ FreeDone(t)
  \/ \E o \in Usable(t) \cap Listed, config \in Config : Reconfig(t, o, config)

Next ==
  \/ \E t \in Clients : ClientCall(t)
  \/ \E t \in Managers : ManagerCall(t)
  \/ \E t \in Threads, n \in Names : DeleteComponent(t, n)
  \/ \E t \in Threads : DeleteLocked(t)

Spec == Init /\ [][Next]_vars

-----------------------------------------------------------------------------
LoggerType ==
  [name : Config, refs : 1 .. MaxLoggers + Cardinality(Threads) + 1, next : Nat, state : States]

(* The type of the variables.  The stack of loads is as deep as there are  *)
(* names, and one more for the names iot_container_init loads without      *)
(* listing them in iot_load_in_progress: a cyclic configuration ends.      *)
TypeOK ==
  /\ Live \subseteq 1 .. MaxLoggers + Default
  /\ logger \in [Live -> LoggerType]
  /\ own \in [Threads -> SUBSET (Live \ {Default})]
  /\ components \in Seq(Live)
  /\ store \in [Names -> Config \cup {NoConfig}]
  /\ Len(loads) <= Cardinality(Names) + 1
  /\ \A i \in DOMAIN loads : loads[i].name \in Names

(* A logger lives exactly as long as the container, another logger or a    *)
(* thread refers to it, and its count says how many do; no chain, no list  *)
(* and no call, the walk of iot_container_start included, is at a logger   *)
(* that was freed.                                                         *)
Holders(o) ==
  Cardinality({i \in DOMAIN components : components[i] = o})
  + Cardinality({x \in Live : logger[x].next = o})
  + Cardinality({t \in Threads : o \in own[t]})

ReferencesRight ==
  /\ \A o \in Live : logger[o].next \in Live \cup {None}
  /\ \A t \in Threads : call[t].at \in Live \cup {None}
  /\ Listed \subseteq Live
  /\ \A o \in Live \ {Default} : logger[o].refs = Holders(o) /\ Holders(o) > 0

(* Whatever the configuration says, cycles included, every chain of        *)
(* loggers ends, and a component comes after the component it was          *)
(* configured with, so that iot_container_start starts that one first and    *)
(* iot_container_stop stops it last.                                       *)
DependenciesFirst ==
  /\ \A S \in (SUBSET Live) \ {{}} : \E o \in S : logger[o].next \notin S
  /\ \A i, j \in DOMAIN components : logger[components[i]].next = components[j] => j < i

=============================================================================
