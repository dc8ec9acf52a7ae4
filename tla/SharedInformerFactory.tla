------------------------ MODULE SharedInformerFactory ------------------------
(***************************************************************************)
(* The shared informer factory of the generated client library             *)
(* (pkg/client/informers/externalversions/factory.go), used by several     *)
(* goroutines at once: informers are created on demand, started with a     *)
(* context, waited for, and shut down.                                     *)
(*                                                                         *)
(* A section of code under the factory's lock is one step, except for      *)
(* InformerFor, which runs a constructor it is given while it holds the    *)
(* lock.  Informers (client-go) are external: one runs until its context   *)
(* is cancelled, and may sync meanwhile.  Resync periods, transformations, *)
(* list options and namespaces are data the factory only hands on.         *)
(***************************************************************************)
EXTENDS FiniteSets

CONSTANTS
  Types,       \* the types of objects informers are asked for
  Informers,   \* the informers the constructors can make
  NoInformer,  \* no entry in the map of informers
  Contexts,    \* the contexts calls are made with
  Background,  \* the context that is never cancelled
  Callers      \* the goroutines that call the factory

ASSUME InformersAssumption == NoInformer \notin Informers
ASSUME ContextsAssumption == Background \in Contexts

VARIABLES
  lock,           \* the call of a constructor that holds the lock, if any
  informers,      \* the informer of each type
  startedInformers, \* the types whose informer was started
  goroutines,     \* the phase of the goroutine that runs an informer in a context
  shuttingDown,   \* Shutdown was called
  released,       \* Shutdown has returned, and released the informers' name
  created,        \* the informers that constructors have made
  synced,         \* the informers whose cache has synced
  cancelled,      \* the contexts that are cancelled
  returned,       \* the informers handed out for each type
  pc,             \* what each caller is in the middle of
  sync            \* the local variables of its last WaitForCacheSync

vars == <<lock, informers, startedInformers, goroutines, shuttingDown, released,
          created, synced, cancelled, returned, pc, sync>>

Phases == {"none", "running", "ended"}

(* ctx, the informers it waits for, those it still has to look at, and     *)
(* whether one of those it looked at had not synced.                       *)
SyncCall == [ctx : Contexts, informers : SUBSET Informers,
             todo : SUBSET Informers, failed : BOOLEAN]

TypeOK ==
  /\ lock \in SUBSET (Callers \X Types)
  /\ informers \in [Types -> Informers \cup {NoInformer}]
  /\ startedInformers \in SUBSET Types
  /\ goroutines \in [Informers \X Contexts -> Phases]
  /\ shuttingDown \in BOOLEAN /\ released \in BOOLEAN
  /\ created \in SUBSET Informers /\ synced \in SUBSET Informers
  /\ cancelled \in SUBSET Contexts
  /\ returned \in [Types -> SUBSET Informers]
  /\ pc \in [Callers -> {"idle", "new", "shutdown", "wait", "check"}]
  /\ sync \in [Callers -> SyncCall]

Init ==
  /\ lock = {}
  /\ informers = [t \in Types |-> NoInformer]
  /\ startedInformers = {}
  /\ goroutines = [g \in Informers \X Contexts |-> "none"]
  /\ shuttingDown = FALSE /\ released = FALSE
  /\ created = {} /\ synced = {} /\ cancelled = {}
  /\ returned = [t \in Types |-> {}]
  /\ pc = [c \in Callers |-> "idle"]
  /\ sync = [c \in Callers |-> [ctx |-> Background, informers |-> {},
                                todo |-> {}, failed |-> FALSE]]

LockFree == lock = {}

-----------------------------------------------------------------------------
(* InformerFor: the informer of the map, or the one the constructor makes. *)

(* Mutant: the map is not looked at.                                       *)
NeverExists(t) == FALSE

Exists(t) == informers[t] # NoInformer

InformerFor(c, t) ==
  /\ pc[c] = "idle" /\ LockFree
  /\ IF Exists(t)
     THEN /\ returned' = [returned EXCEPT ![t] = @ \cup {informers[t]}]
          /\ UNCHANGED <<lock, pc>>
     ELSE /\ lock' = {<<c, t>>}
          /\ pc' = [pc EXCEPT ![c] = "new"]
          /\ UNCHANGED returned
  /\ UNCHANGED <<informers, startedInformers, goroutines, shuttingDown, released,
                 created, synced, cancelled, sync>>

(* Mutant: the informer's name is read under the lock.                     *)
LockedInformerName == LockFree

(* The constructor asks the factory for the informers' name, without a     *)
(* lock, although the lock is held.                                        *)
InformerName == TRUE

NewInformer(c, t) ==
  /\ pc[c] = "new" /\ <<c, t>> \in lock
  /\ InformerName
  /\ \E i \in Informers \ created :
       /\ created' = created \cup {i}
       /\ informers' = [informers EXCEPT ![t] = i]
       /\ returned' = [returned EXCEPT ![t] = @ \cup {i}]
  /\ lock' = {}
  /\ pc' = [pc EXCEPT ![c] = "idle"]
  /\ UNCHANGED <<startedInformers, goroutines, shuttingDown, released, synced,
                 cancelled, sync>>

-----------------------------------------------------------------------------
(* Start and Shutdown.                                                     *)

(* Mutant: every informer is started, those that run already included.     *)
EveryInformer == {t \in Types : Exists(t)}

ToStart == {t \in Types : Exists(t) /\ t \notin startedInformers}

(* Mutant: Start does not look whether the factory is shutting down.       *)
MayAlwaysStart == TRUE

MayStart == ~shuttingDown

StartWithContext(c, ctx) ==
  /\ pc[c] = "idle" /\ LockFree
  /\ MayStart
  /\ goroutines' = [g \in Informers \X Contexts |->
       IF g[2] = ctx /\ \E t \in ToStart : informers[t] = g[1]
       THEN "running" ELSE goroutines[g]]
  /\ startedInformers' = startedInformers \cup ToStart
  /\ UNCHANGED <<lock, informers, shuttingDown, released, created, synced,
                 cancelled, returned, pc, sync>>

(* Mutant: the flag is set when the goroutines have ended.                 *)
ShutdownBeginsLate(c) ==
  /\ pc[c] = "idle" /\ LockFree
  /\ pc' = [pc EXCEPT ![c] = "shutdown"]
  /\ UNCHANGED <<lock, informers, startedInformers, goroutines, shuttingDown,
                 released, created, synced, cancelled, returned, sync>>

ShutdownBegins(c) ==
  /\ pc[c] = "idle" /\ LockFree
  /\ shuttingDown' = TRUE
  /\ pc' = [pc EXCEPT ![c] = "shutdown"]
  /\ UNCHANGED <<lock, informers, startedInformers, goroutines, released,
                 created, synced, cancelled, returned, sync>>

(* The wait group: the goroutines that have not ended.                     *)
WaitGroup == {g \in Informers \X Contexts : goroutines[g] = "running"}

ShutdownReturns(c) ==
  /\ pc[c] = "shutdown"
  /\ WaitGroup = {}
  /\ released' = TRUE
  /\ pc' = [pc EXCEPT ![c] = "idle"]
  /\ UNCHANGED <<lock, informers, startedInformers, goroutines, shuttingDown,
                 created, synced, cancelled, returned, sync>>

-----------------------------------------------------------------------------
(* WaitForCacheSync.                                                       *)

(* Mutant: the informers of all types are waited for.                      *)
AllInformers == {informers[t] : t \in Types}

StartedInformersOfMap == {informers[t] : t \in {u \in startedInformers : Exists(u)}}

WaitForCacheSync(c, ctx) ==
  /\ pc[c] = "idle" /\ LockFree
  /\ sync' = [sync EXCEPT ![c] =
       [ctx |-> ctx, informers |-> StartedInformersOfMap, todo |-> {}, failed |-> FALSE]]
  /\ pc' = [pc EXCEPT ![c] = "wait"]
  /\ UNCHANGED <<lock, informers, startedInformers, goroutines, shuttingDown,
                 released, created, synced, cancelled, returned>>

(* Mutant: the map is read again after the wait.                           *)
CurrentInformers(c) == {informers[t] : t \in {u \in startedInformers : Exists(u)}}

ToCheck(c) == sync[c].informers

(* cache.WaitFor ends when all have synced or the context is cancelled.    *)
WaitFor(c) ==
  /\ pc[c] = "wait"
  /\ \/ sync[c].informers \subseteq synced
     \/ sync[c].ctx \in cancelled
  /\ sync' = [sync EXCEPT ![c].todo = ToCheck(c)]
  /\ pc' = [pc EXCEPT ![c] = "check"]
  /\ UNCHANGED <<lock, informers, startedInformers, goroutines, shuttingDown,
                 released, created, synced, cancelled, returned>>

(* HasSynced is asked of one informer after the other, without the lock.   *)
HasSynced(c) ==
  /\ pc[c] = "check"
  /\ \E i \in sync[c].todo :
       sync' = [sync EXCEPT ![c].todo = @ \ {i},
                            ![c].failed = @ \/ i \notin synced]
  /\ UNCHANGED <<lock, informers, startedInformers, goroutines, shuttingDown,
                 released, created, synced, cancelled, returned, pc>>

WaitForCacheSyncReturns(c) ==
  /\ pc[c] = "check" /\ sync[c].todo = {}
  /\ pc' = [pc EXCEPT ![c] = "idle"]
  /\ UNCHANGED <<lock, informers, startedInformers, goroutines, shuttingDown,
                 released, created, synced, cancelled, returned, sync>>

-----------------------------------------------------------------------------
(* Informers and contexts.                                                 *)

Cancel(ctx) ==
  /\ ctx \notin cancelled \cup {Background}
  /\ cancelled' = cancelled \cup {ctx}
  /\ UNCHANGED <<lock, informers, startedInformers, goroutines, shuttingDown,
                 released, created, synced, returned, pc, sync>>

InformerSyncs(i, ctx) ==
  /\ goroutines[<<i, ctx>>] = "running" /\ i \notin synced
  /\ synced' = synced \cup {i}
  /\ UNCHANGED <<lock, informers, startedInformers, goroutines, shuttingDown,
                 released, created, cancelled, returned, pc, sync>>

InformerStops(i, ctx) ==
  /\ goroutines[<<i, ctx>>] = "running" /\ ctx \in cancelled
  /\ goroutines' = [goroutines EXCEPT ![<<i, ctx>>] = "ended"]
  /\ UNCHANGED <<lock, informers, startedInformers, shuttingDown, released,
                 created, synced, cancelled, returned, pc, sync>>

-----------------------------------------------------------------------------
(* What a call that is under way does next.                                *)
Continue(c) ==
  \/ \E t \in Types : NewInformer(c, t)
  \/ ShutdownReturns(c)
  \/ WaitFor(c)
  \/ HasSynced(c)
  \/ WaitForCacheSyncReturns(c)

Call(c) ==
  \/ \E t \in Types : InformerFor(c, t)
  \/ \E ctx \in Contexts : StartWithContext(c, ctx) \/ WaitForCacheSync(c, ctx)
  \/ ShutdownBegins(c)

Next ==
  \/ \E c \in Callers : Call(c) \/ Continue(c)
  \/ \E ctx \in Contexts : Cancel(ctx)
  \/ \E i \in Informers, ctx \in Contexts : InformerSyncs(i, ctx) \/ InformerStops(i, ctx)

Spec == Init /\ [][Next]_vars

(* Goroutines are scheduled, constructors return, and an informer whose    *)
(* context is cancelled stops.  Nobody has to call, to cancel or to sync.  *)
Fairness ==
  /\ \A c \in Callers : WF_vars(Continue(c))
  /\ \A i \in Informers, ctx \in Contexts : WF_vars(InformerStops(i, ctx))

FairSpec == Spec /\ Fairness

-----------------------------------------------------------------------------
(* Properties.                                                             *)

(* All callers that ask for the informer of a type get the same one, and   *)
(* it is the one the factory starts (factory.go:213-235).                  *)
HandlesAreShared ==
  \A t \in Types : returned[t] \subseteq {informers[t]}

(* An informer is run at most once, whatever the number of Start calls and *)
(* of contexts they bring (factory.go:40-42, 144-150).                     *)
RunOnce ==
  \A i \in Informers : \A ctx1, ctx2 \in Contexts :
    goroutines[<<i, ctx1>>] # "none" /\ goroutines[<<i, ctx2>>] # "none" => ctx1 = ctx2

(* Once a Shutdown has returned and the name of the informers is given     *)
(* back, none of them runs, and none will (factory.go:288-294).            *)
QuietAfterShutdown == released => WaitGroup = {}

(* No goroutine is added to the wait group while a Shutdown waits for it,  *)
(* which sync.WaitGroup does not allow at a count of zero                  *)
(* (factory.go:140-142, 154-160).                                          *)
NoStartWhileWaiting ==
  [][ (\E c \in Callers : pc[c] = "shutdown") => WaitGroup' \subseteq WaitGroup ]_vars

(* A WaitForCacheSync that reports an informer as not synced has a cause   *)
(* to report: its context is cancelled (factory.go:201-206).               *)
SyncErrorHasCause ==
  \A c \in Callers : sync[c].failed => sync[c].ctx \in cancelled

(* The parts of the inductive invariant behind these properties.  The lock *)
(* is held by one call, for a type that has no informer yet.               *)
LockOK ==
  /\ \A l, m \in lock : l = m
  /\ \A c \in Callers, t \in Types : <<c, t>> \in lock => ~Exists(t)

(* Each type has an informer of its own, and is started only if it has one. *)
MapOK ==
  /\ \A t \in Types : Exists(t) => informers[t] \in created
  /\ \A t, u \in Types : Exists(t) /\ informers[t] = informers[u] => t = u
  /\ \A t \in startedInformers : Exists(t)

(* An informer has a goroutine only if its type is marked as started.      *)
GoroutinesOK ==
  \A i \in Informers, ctx \in Contexts :
    goroutines[<<i, ctx>>] # "none" => \E t \in startedInformers : informers[t] = i

ShutdownOK ==
  /\ \A c \in Callers : pc[c] = "shutdown" => shuttingDown
  /\ released => shuttingDown

(* After the wait all have synced or the context is cancelled.             *)
SyncOK ==
  \A c \in Callers :
    /\ sync[c].todo \subseteq sync[c].informers
    /\ pc[c] = "check" => \/ sync[c].informers \subseteq synced
                          \/ sync[c].ctx \in cancelled

(* The inductive invariant of the proofs: what each call of the factory    *)
(* relies on between its steps (factory.go:136-235).                       *)
FactoryInv ==
  /\ TypeOK /\ LockOK /\ MapOK /\ GoroutinesOK /\ ShutdownOK /\ SyncOK
  /\ HandlesAreShared /\ RunOnce /\ QuietAfterShutdown /\ SyncErrorHasCause

(* What a call under way is allowed to wait for.                           *)
Unblocked(c) ==
  CASE pc[c] = "shutdown" -> \A g \in WaitGroup : g[2] \in cancelled
    [] pc[c] = "wait" -> \/ sync[c].ctx \in cancelled
                         \/ sync[c].informers \subseteq synced
    [] OTHER -> TRUE

(* A call returns: Shutdown once the contexts of the running informers are *)
(* cancelled, at once if none runs; WaitForCacheSync once its context is   *)
(* cancelled or all have synced; InformerFor always (factory.go:292-308).  *)
CallsReturn ==
  \A c \in Callers : (pc[c] # "idle" /\ Unblocked(c)) ~> (pc[c] = "idle")
=============================================================================
