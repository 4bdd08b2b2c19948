------------------------------- MODULE Logger -------------------------------
(***************************************************************************)
(* The loggers of src/src/c/logger.c: components that count their          *)
(* references, may be chained through `next', and walk that chain without  *)
(* a lock when they log.  A logger is a number; 0 is the NULL pointer and  *)
(* 1 the static logger of iot_logger_default, which is never freed and     *)
(* whose count nobody reads.  The domain of `logger' is what is allocated. *)
(*                                                                         *)
(* The calls of the clients are kept apart: call[t] is the call thread t   *)
(* is in, and a call that other threads can see halfway takes several      *)
(* steps.  Container.tla adds the calls of the container to these.         *)
(***************************************************************************)
EXTENDS Naturals, FiniteSets, Sequences, ComponentState

CONSTANTS
  Threads,      \* threads that use the loggers
  Names,        \* names of components
  NoName,       \* the absence of a name
  MaxLoggers,   \* bound: loggers live at a time, besides the default one
  MaxOwn        \* bound: references one thread holds at a time

ASSUME LoggerAssumption ==
  /\ IsFiniteSet(Threads) /\ IsFiniteSet(Names)
  /\ NoName \notin Names /\ MaxLoggers \in Nat

VARIABLES
  logger,       \* live logger -> its fields
  own,          \* thread -> loggers it holds a reference to
  call          \* thread -> the call it is in

None == 0
Default == 1

Live == DOMAIN logger

(* Numbers, like addresses, are used again; RoomFor is the bound.          *)
Unused == (1 .. MaxLoggers + Default) \ Live
Address == CHOOSE o \in Unused : \A x \in Unused : o <= x
RoomFor(k) == Cardinality(Unused) >= k

(* What iot_logger_alloc_custom leaves, before iot_logger_add_ref (next). *)
NewLogger(name, next) == [name |-> name, refs |-> 1, next |-> next, state |-> "INITIAL"]

Idle == [op |-> "idle", at |-> None, via |-> None, name |-> NoName, todo |-> {}, tries |-> 0]

LoggerInit ==
  /\ logger = [o \in {Default} |-> [NewLogger(NoName, None) EXCEPT !.state = "RUNNING"]]
  /\ own = [t \in Threads |-> {}]
  /\ call = [t \in Threads |-> Idle]

Referenced(L, o) ==
  IF o \in {None, Default} THEN L ELSE [L EXCEPT ![o].refs = @ + 1]

Counted(L, o) == o \notin {None, Default}

(* The loggers iot_logger_free (o) frees: o with its last reference, and   *)
(* then by the recursive call what the last freed was the last to refer to *)
(* - the smallest set that follows from these two rules.                   *)
LastReference(L, o) == Counted(L, o) /\ L[o].refs = 1

FreedWith(L, o) ==
  LET follows == {S \in SUBSET DOMAIN L :
                    /\ LastReference(L, o) => o \in S
                    /\ \A x \in S : LastReference(L, L[x].next) => L[x].next \in S}
  IN  {x \in DOMAIN L : \A S \in follows : x \in S}

Freed(L, o) ==
  LET gone == FreedWith(L, o)
      lost(x) == Cardinality({y \in gone : L[y].next = x}) + IF x = o THEN 1 ELSE 0
  IN  [x \in DOMAIN L \ gone |->
         IF Counted(L, x) THEN [L[x] EXCEPT !.refs = @ - lost(x)] ELSE L[x]]

StateSet(L, o, state) == [L EXCEPT ![o].state = AfterSetState(@, state)]

(* Here every logger starts itself (self_start, or Start in its             *)
(* configuration, which is the default).                                   *)
NewAlloc(L, o, name, next) ==
  LET added == [x \in DOMAIN L \cup {o} |->
                  IF x = o THEN NewLogger(name, next) ELSE Referenced(L, next)[x]]
  IN  StateSet(added, o, "RUNNING")

(* What the walk of iot_log__va_log visits from o on, with the None it      *)
(* ends at: the smallest set that holds o and the next of each member.     *)
Chain(L, o) ==
  LET visits == {S \in SUBSET (DOMAIN L \cup {None}) :
                   o \in S /\ \A x \in S \ {None} : L[x].next \in S}
  IN  {x \in DOMAIN L \cup {None} : \A S \in visits : x \in S}

-----------------------------------------------------------------------------
(* The calls of thread t.  Which loggers a thread may pass to them is up   *)
(* to the callers, see Usable in Container.tla.                            *)

AllocLogger(t, next) ==
  /\ call[t].op = "idle"
  /\ RoomFor(1) /\ Cardinality(own[t]) < MaxOwn
  /\ logger' = NewAlloc(logger, Address, NoName, next)
  /\ own' = [own EXCEPT ![t] = @ \cup {Address}]
  /\ UNCHANGED call

AddRef(t, o) ==
  /\ call[t].op = "idle"
  /\ o \notin own[t] \cup {Default} /\ Cardinality(own[t]) < MaxOwn
  /\ logger' = Referenced(logger, o)
  /\ own' = [own EXCEPT ![t] = @ \cup {o}]
  /\ UNCHANGED call

FreeLogger(t, o) ==
  /\ call[t].op = "idle"
  /\ o \in own[t]
  /\ logger' = Freed(logger, o)
  /\ own' = [own EXCEPT ![t] = @ \ {o}]
  /\ UNCHANGED call

(* iot_logger_set_next changes the chain under nobody's protection: the    *)
(* callers see to it that nobody logs meanwhile and that no chain closes.  *)
ChainQuiet == \A u \in Threads : call[u].op # "log"

NextSet(L, o, next) ==
  [Referenced(Freed(L, L[o].next), next) EXCEPT ![o].next = next]

SetNext(t, o, next) ==
  /\ call[t].op = "idle"
  /\ ChainQuiet
  /\ o \notin Chain(logger, next)
  /\ logger' = NextSet(logger, o, next)
  /\ UNCHANGED <<own, call>>

(* The levels decide who prints the message, the walk visits every logger  *)
(* of the chain.                                                           *)
Log(t, o) ==
  /\ call[t].op = "idle"
  /\ call' = [call EXCEPT ![t] = [Idle EXCEPT !.op = "log", !.at = o, !.via = o]]
  /\ UNCHANGED <<logger, own>>

LogNext(t) ==
  LET next == logger[call[t].at].next IN
  /\ call[t].op = "log"
  /\ call' = [call EXCEPT ![t] = IF next = None THEN Idle ELSE [@ EXCEPT !.at = next]]
  /\ UNCHANGED <<logger, own>>

StartLogger(t, o) ==
  /\ call[t].op = "idle"
  /\ logger' = StateSet(logger, o, "RUNNING")
  /\ UNCHANGED <<own, call>>

StopLogger(t, o) ==
  /\ call[t].op = "idle"
  /\ logger' = StateSet(logger, o, "STOPPED")
  /\ UNCHANGED <<own, call>>

=============================================================================
