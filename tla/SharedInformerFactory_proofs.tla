--------------------- MODULE SharedInformerFactory_proofs ---------------------
(***************************************************************************)
(* Proofs about the shared informer factory, for any types, informers,     *)
(* contexts and callers.                                                   *)
(***************************************************************************)
EXTENDS SharedInformerFactory, TLAPS

LEMMA FactoryInvInit == Init => FactoryInv
  <1> SUFFICES ASSUME Init PROVE FactoryInv
    OBVIOUS
  <1> USE InformersAssumption, ContextsAssumption DEF Init
  <1>1. TypeOK
    BY DEF TypeOK, SyncCall, Phases
  <1>2. LockOK /\ MapOK /\ ShutdownOK
    BY DEF LockOK, MapOK, ShutdownOK, Exists
  <1>3. \A g \in Informers \X Contexts : goroutines[g] = "none"
    OBVIOUS
  <1>4. GoroutinesOK /\ RunOnce
    BY <1>3 DEF GoroutinesOK, RunOnce
  <1>5. SyncOK /\ SyncErrorHasCause
    BY DEF SyncOK, SyncErrorHasCause
  <1>6. HandlesAreShared
    BY DEF HandlesAreShared
  <1>7. QuietAfterShutdown
    BY DEF QuietAfterShutdown
  <1>8. QED
    BY <1>1, <1>2, <1>4, <1>5, <1>6, <1>7 DEF FactoryInv

-----------------------------------------------------------------------------
(* One lemma per action: the step preserves the invariant.                 *)

LEMMA InformerForInv ==
  ASSUME FactoryInv, NEW c \in Callers, NEW t \in Types, InformerFor(c, t)
  PROVE  FactoryInv'
  <1> USE DEF FactoryInv
  <1>1. TypeOK'
    BY InformersAssumption DEF InformerFor, TypeOK, Exists, LockFree
  <1>2. LockOK'
    BY InformersAssumption DEF InformerFor, LockOK, LockFree, Exists, TypeOK
  <1>3. HandlesAreShared'
    BY DEF InformerFor, HandlesAreShared, TypeOK
  <1>4. MapOK' /\ GoroutinesOK' /\ RunOnce' /\ SyncErrorHasCause'
    BY DEF InformerFor, MapOK, GoroutinesOK, RunOnce, SyncErrorHasCause, Exists
  <1>5. \A d \in Callers : pc'[d] = pc[d] \/ pc'[d] = "new"
    BY DEF InformerFor, TypeOK
  <1>6. ShutdownOK' /\ SyncOK'
    BY <1>5 DEF InformerFor, ShutdownOK, SyncOK
  <1>7. QuietAfterShutdown'
    BY DEF InformerFor, QuietAfterShutdown, WaitGroup
  <1>8. QED
    BY <1>1, <1>2, <1>3, <1>4, <1>6, <1>7

LEMMA NewInformerInv ==
  ASSUME FactoryInv, NEW c \in Callers, NEW t \in Types, NewInformer(c, t)
  PROVE  FactoryInv'
  <1> USE DEF FactoryInv
  <1>1. ~Exists(t)
    BY DEF NewInformer, LockOK
  <1>2. PICK i \in Informers \ created :
          /\ created' = created \cup {i}
          /\ informers' = [informers EXCEPT ![t] = i]
          /\ returned' = [returned EXCEPT ![t] = @ \cup {i}]
    BY DEF NewInformer
  <1>3. /\ informers'[t] = i
        /\ \A u \in Types : u # t => informers'[u] = informers[u]
    BY <1>2 DEF TypeOK
  <1>4. TypeOK'
    BY <1>2 DEF NewInformer, TypeOK
  <1>5. LockOK' /\ ShutdownOK'
    BY DEF NewInformer, LockOK, ShutdownOK, TypeOK
  <1>6. MapOK'
    BY <1>1, <1>2, <1>3, InformersAssumption DEF NewInformer, MapOK, Exists, TypeOK
  <1>7. returned[t] = {}
    BY <1>1, InformersAssumption DEF HandlesAreShared, Exists, TypeOK
  <1>8. HandlesAreShared'
    BY <1>2, <1>3, <1>7 DEF HandlesAreShared, TypeOK
  <1>9. \A u \in startedInformers : u \in Types /\ informers'[u] = informers[u]
    BY <1>1, <1>3 DEF MapOK, TypeOK
  <1>10. GoroutinesOK'
    <2> SUFFICES ASSUME NEW j \in Informers, NEW ctx \in Contexts,
                        goroutines'[<<j, ctx>>] # "none"
                 PROVE  \E u \in startedInformers' : informers'[u] = j
      BY DEF GoroutinesOK
    <2>1. PICK u \in startedInformers : informers[u] = j
      BY DEF NewInformer, GoroutinesOK
    <2>2. QED
      BY <2>1, <1>9 DEF NewInformer
  <1>11. RunOnce' /\ SyncErrorHasCause'
    BY DEF NewInformer, RunOnce, SyncErrorHasCause
  <1>12. SyncOK'
    BY DEF NewInformer, SyncOK, TypeOK
  <1>13. QuietAfterShutdown'
    BY DEF NewInformer, QuietAfterShutdown, WaitGroup
  <1>14. QED
    BY <1>4, <1>5, <1>6, <1>8, <1>10, <1>11, <1>12, <1>13

LEMMA StartWithContextInv ==
  ASSUME FactoryInv, NEW c \in Callers, NEW ctx \in Contexts, StartWithContext(c, ctx)
  PROVE  FactoryInv'
  <1> USE DEF FactoryInv
  <1>1. startedInformers' = startedInformers \cup ToStart /\ ToStart \subseteq Types
    BY DEF StartWithContext, ToStart
  <1>2. \A i \in Informers, d \in Contexts :
          \/ goroutines'[<<i, d>>] = goroutines[<<i, d>>]
          \/ d = ctx /\ goroutines'[<<i, d>>] = "running" /\ \E t \in ToStart : informers[t] = i
    BY DEF StartWithContext
  <1>3. \A t \in ToStart : t \in Types /\ Exists(t) /\ t \notin startedInformers
    BY DEF ToStart
  <1>4. goroutines' \in [Informers \X Contexts -> Phases]
    BY DEF StartWithContext, TypeOK, Phases
  <1>5. TypeOK'
    BY <1>1, <1>4 DEF StartWithContext, TypeOK
  <1>6. LockOK' /\ ShutdownOK' /\ SyncOK' /\ HandlesAreShared' /\ SyncErrorHasCause'
    BY DEF StartWithContext, LockOK, ShutdownOK, SyncOK, HandlesAreShared,
           SyncErrorHasCause, Exists
  <1>7. MapOK'
    BY <1>1, <1>3 DEF StartWithContext, MapOK, Exists
  <1>8. informers' = informers
    BY DEF StartWithContext
  <1>9. GoroutinesOK'
    BY <1>1, <1>2, <1>8 DEF GoroutinesOK
  <1>10. \A i \in Informers : (\E t \in ToStart : informers[t] = i) =>
           \A d \in Contexts : goroutines[<<i, d>>] = "none"
    <2> SUFFICES ASSUME NEW i \in Informers, NEW t \in ToStart, informers[t] = i,
                        NEW d \in Contexts, goroutines[<<i, d>>] # "none"
                 PROVE  FALSE
      OBVIOUS
    <2>1. PICK u \in startedInformers : informers[u] = i
      BY DEF GoroutinesOK
    <2>2. u = t
      BY <2>1, <1>3 DEF MapOK, TypeOK
    <2>3. QED
      BY <2>1, <2>2, <1>3
  <1>11. RunOnce'
    <2> SUFFICES ASSUME NEW i \in Informers, NEW d \in Contexts, NEW e \in Contexts,
                        goroutines'[<<i, d>>] # "none", goroutines'[<<i, e>>] # "none"
                 PROVE  d = e
      BY DEF RunOnce
    <2>1. CASE \E t \in ToStart : informers[t] = i
      BY <2>1, <1>2, <1>10
    <2>2. CASE ~\E t \in ToStart : informers[t] = i
      BY <2>2, <1>2 DEF RunOnce
    <2>3. QED
      BY <2>1, <2>2
  <1>12. QuietAfterShutdown'
    BY DEF StartWithContext, MayStart, QuietAfterShutdown, ShutdownOK
  <1>13. QED
    BY <1>5, <1>6, <1>7, <1>9, <1>11, <1>12

LEMMA ShutdownBeginsInv ==
  ASSUME FactoryInv, NEW c \in Callers, ShutdownBegins(c)
  PROVE  FactoryInv'
  <1> USE DEF FactoryInv
  <1>1. TypeOK'
    BY DEF ShutdownBegins, TypeOK
  <1>2. \A d \in Callers : pc'[d] = pc[d] \/ pc'[d] = "shutdown"
    BY DEF ShutdownBegins, TypeOK
  <1>3. LockOK' /\ MapOK' /\ GoroutinesOK' /\ HandlesAreShared' /\ RunOnce'
    BY DEF ShutdownBegins, LockOK, MapOK, GoroutinesOK, HandlesAreShared, RunOnce, Exists
  <1>4. ShutdownOK' /\ SyncOK' /\ SyncErrorHasCause'
    BY <1>2 DEF ShutdownBegins, ShutdownOK, SyncOK, SyncErrorHasCause
  <1>5. QuietAfterShutdown'
    BY DEF ShutdownBegins, QuietAfterShutdown, WaitGroup
  <1>6. QED
    BY <1>1, <1>3, <1>4, <1>5

LEMMA ShutdownReturnsInv ==
  ASSUME FactoryInv, NEW c \in Callers, ShutdownReturns(c)
  PROVE  FactoryInv'
  <1> USE DEF FactoryInv
  <1>1. TypeOK'
    BY DEF ShutdownReturns, TypeOK
  <1>2. \A d \in Callers : pc'[d] = pc[d] \/ pc'[d] = "idle"
    BY DEF ShutdownReturns, TypeOK
  <1>3. LockOK' /\ MapOK' /\ GoroutinesOK' /\ HandlesAreShared' /\ RunOnce'
    BY DEF ShutdownReturns, LockOK, MapOK, GoroutinesOK, HandlesAreShared, RunOnce, Exists
  <1>4. ShutdownOK' /\ SyncOK' /\ SyncErrorHasCause'
    BY <1>2 DEF ShutdownReturns, ShutdownOK, SyncOK, SyncErrorHasCause
  <1>5. QuietAfterShutdown'
    BY DEF ShutdownReturns, QuietAfterShutdown, WaitGroup
  <1>6. QED
    BY <1>1, <1>3, <1>4, <1>5

LEMMA WaitForCacheSyncInv ==
  ASSUME FactoryInv, NEW c \in Callers, NEW ctx \in Contexts, WaitForCacheSync(c, ctx)
  PROVE  FactoryInv'
  <1> USE DEF FactoryInv
  <1>1. StartedInformersOfMap \in SUBSET Informers
    BY DEF StartedInformersOfMap, Exists, TypeOK
  <1>2. [ctx |-> ctx, informers |-> StartedInformersOfMap, todo |-> {}, failed |-> FALSE]
          \in SyncCall
    BY <1>1 DEF SyncCall
  <1>3. TypeOK'
    BY <1>2 DEF WaitForCacheSync, TypeOK
  <1>4. LockOK' /\ MapOK' /\ GoroutinesOK' /\ HandlesAreShared' /\ RunOnce'
    BY DEF WaitForCacheSync, LockOK, MapOK, GoroutinesOK, HandlesAreShared, RunOnce, Exists
  <1>5. /\ sync'[c].todo = {} /\ sync'[c].failed = FALSE /\ pc'[c] = "wait"
        /\ \A d \in Callers : d # c => sync'[d] = sync[d] /\ pc'[d] = pc[d]
    BY DEF WaitForCacheSync, TypeOK
  <1>6. cancelled' = cancelled /\ synced' = synced /\ shuttingDown' = shuttingDown
        /\ released' = released /\ goroutines' = goroutines
    BY DEF WaitForCacheSync
  <1>7. ShutdownOK' /\ SyncErrorHasCause'
    BY <1>5, <1>6 DEF ShutdownOK, SyncErrorHasCause
  <1>8. SyncOK'
    BY <1>5, <1>6 DEF SyncOK
  <1>9. QuietAfterShutdown'
    BY <1>6 DEF QuietAfterShutdown, WaitGroup
  <1>10. QED
    BY <1>3, <1>4, <1>7, <1>8, <1>9

LEMMA WaitForInv ==
  ASSUME FactoryInv, NEW c \in Callers, WaitFor(c)
  PROVE  FactoryInv'
  <1> USE DEF FactoryInv
  <1>1. sync[c] \in SyncCall
    BY DEF TypeOK
  <1>2. sync' = [sync EXCEPT ![c].todo = sync[c].informers]
    BY DEF WaitFor, ToCheck
  <1>3. /\ sync'[c].todo = sync[c].informers /\ sync'[c].informers = sync[c].informers
        /\ sync'[c].ctx = sync[c].ctx /\ sync'[c].failed = sync[c].failed
        /\ pc'[c] = "check"
        /\ \A d \in Callers : d # c => sync'[d] = sync[d] /\ pc'[d] = pc[d]
    BY <1>1, <1>2 DEF WaitFor, TypeOK, SyncCall
  <1>4. TypeOK'
    BY <1>1, <1>2 DEF WaitFor, TypeOK, SyncCall
  <1>5. LockOK' /\ MapOK' /\ GoroutinesOK' /\ HandlesAreShared' /\ RunOnce'
    BY DEF WaitFor, LockOK, MapOK, GoroutinesOK, HandlesAreShared, RunOnce, Exists
  <1>6. cancelled' = cancelled /\ synced' = synced /\ shuttingDown' = shuttingDown
        /\ released' = released /\ goroutines' = goroutines
    BY DEF WaitFor
  <1>7. ShutdownOK' /\ SyncErrorHasCause'
    BY <1>3, <1>6 DEF ShutdownOK, SyncErrorHasCause
  <1>8. sync[c].informers \subseteq synced \/ sync[c].ctx \in cancelled
    BY DEF WaitFor
  <1>9. SyncOK'
    BY <1>3, <1>6, <1>8 DEF SyncOK
  <1>10. QuietAfterShutdown'
    BY <1>6 DEF QuietAfterShutdown, WaitGroup
  <1>11. QED
    BY <1>4, <1>5, <1>7, <1>9, <1>10

LEMMA HasSyncedInv ==
  ASSUME FactoryInv, NEW c \in Callers, HasSynced(c)
  PROVE  FactoryInv'
  <1> USE DEF FactoryInv
  <1>1. sync[c] \in SyncCall /\ pc[c] = "check"
    BY DEF TypeOK, HasSynced
  <1>2. PICK i \in sync[c].todo :
          sync' = [sync EXCEPT ![c].todo = @ \ {i}, ![c].failed = @ \/ i \notin synced]
    BY DEF HasSynced
  <1>3. /\ sync'[c].todo = sync[c].todo \ {i}
        /\ sync'[c].informers = sync[c].informers /\ sync'[c].ctx = sync[c].ctx
        /\ \A d \in Callers : d # c => sync'[d] = sync[d]
    BY <1>1, <1>2 DEF TypeOK, SyncCall
  <1>4. sync'[c].failed = (sync[c].failed \/ i \notin synced)
    BY <1>1, <1>2 DEF TypeOK, SyncCall
  <1>5. sync' \in [Callers -> SyncCall]
    BY <1>1, <1>2 DEF TypeOK, SyncCall
  <1>6. cancelled' = cancelled /\ synced' = synced /\ shuttingDown' = shuttingDown
        /\ released' = released /\ goroutines' = goroutines /\ pc' = pc
    BY DEF HasSynced
  <1>7. TypeOK'
    BY <1>5 DEF HasSynced, TypeOK
  <1>8. LockOK' /\ MapOK' /\ GoroutinesOK' /\ HandlesAreShared' /\ RunOnce'
    BY DEF HasSynced, LockOK, MapOK, GoroutinesOK, HandlesAreShared, RunOnce, Exists
  <1>9. ShutdownOK'
    BY <1>6 DEF ShutdownOK
  <1>10. sync'[c].failed => sync'[c].ctx \in cancelled
    BY <1>1, <1>2, <1>3, <1>4 DEF SyncOK, SyncErrorHasCause
  <1>11. SyncErrorHasCause'
    BY <1>3, <1>6, <1>10 DEF SyncErrorHasCause
  <1>12. SyncOK'
    BY <1>3, <1>6 DEF SyncOK
  <1>13. QuietAfterShutdown'
    BY <1>6 DEF QuietAfterShutdown, WaitGroup
  <1>14. QED
    BY <1>7, <1>8, <1>9, <1>11, <1>12, <1>13

LEMMA WaitForCacheSyncReturnsInv ==
  ASSUME FactoryInv, NEW c \in Callers, WaitForCacheSyncReturns(c)
  PROVE  FactoryInv'
  <1> USE DEF FactoryInv
  <1>1. TypeOK'
    BY DEF WaitForCacheSyncReturns, TypeOK
  <1>2. \A d \in Callers : pc'[d] = pc[d] \/ pc'[d] = "idle"
    BY DEF WaitForCacheSyncReturns, TypeOK
  <1>3. LockOK' /\ MapOK' /\ GoroutinesOK' /\ HandlesAreShared' /\ RunOnce'
    BY DEF WaitForCacheSyncReturns, LockOK, MapOK, GoroutinesOK, HandlesAreShared,
           RunOnce, Exists
  <1>4. ShutdownOK' /\ SyncOK' /\ SyncErrorHasCause'
    BY <1>2 DEF WaitForCacheSyncReturns, ShutdownOK, SyncOK, SyncErrorHasCause
  <1>5. QuietAfterShutdown'
    BY DEF WaitForCacheSyncReturns, QuietAfterShutdown, WaitGroup
  <1>6. QED
    BY <1>1, <1>3, <1>4, <1>5

LEMMA CancelInv ==
  ASSUME FactoryInv, NEW ctx \in Contexts, Cancel(ctx)
  PROVE  FactoryInv'
  <1> USE DEF FactoryInv
  <1>1. TypeOK'
    BY DEF Cancel, TypeOK
  <1>2. LockOK' /\ MapOK' /\ GoroutinesOK' /\ HandlesAreShared' /\ RunOnce'
    BY DEF Cancel, LockOK, MapOK, GoroutinesOK, HandlesAreShared, RunOnce, Exists
  <1>3. ShutdownOK' /\ SyncOK' /\ SyncErrorHasCause'
    BY DEF Cancel, ShutdownOK, SyncOK, SyncErrorHasCause
  <1>4. QuietAfterShutdown'
    BY DEF Cancel, QuietAfterShutdown, WaitGroup
  <1>5. QED
    BY <1>1, <1>2, <1>3, <1>4

LEMMA InformerSyncsInv ==
  ASSUME FactoryInv, NEW i \in Informers, NEW ctx \in Contexts, InformerSyncs(i, ctx)
  PROVE  FactoryInv'
  <1> USE DEF FactoryInv
  <1>1. TypeOK'
    BY DEF InformerSyncs, TypeOK
  <1>2. LockOK' /\ MapOK' /\ GoroutinesOK' /\ HandlesAreShared' /\ RunOnce'
    BY DEF InformerSyncs, LockOK, MapOK, GoroutinesOK, HandlesAreShared, RunOnce, Exists
  <1>3. ShutdownOK' /\ SyncOK' /\ SyncErrorHasCause'
    BY DEF InformerSyncs, ShutdownOK, SyncOK, SyncErrorHasCause
  <1>4. QuietAfterShutdown'
    BY DEF InformerSyncs, QuietAfterShutdown, WaitGroup
  <1>5. QED
    BY <1>1, <1>2, <1>3, <1>4

LEMMA InformerStopsInv ==
  ASSUME FactoryInv, NEW i \in Informers, NEW ctx \in Contexts, InformerStops(i, ctx)
  PROVE  FactoryInv'
  <1> USE DEF FactoryInv
  <1>1. goroutines' = [goroutines EXCEPT ![<<i, ctx>>] = "ended"]
        /\ goroutines[<<i, ctx>>] = "running"
    BY DEF InformerStops
  <1>2. TypeOK'
    BY <1>1 DEF InformerStops, TypeOK, Phases
  <1>3. LockOK' /\ MapOK' /\ HandlesAreShared' /\ SyncOK' /\ SyncErrorHasCause' /\ ShutdownOK'
    BY DEF InformerStops, LockOK, MapOK, HandlesAreShared, SyncOK, SyncErrorHasCause,
           ShutdownOK, Exists
  <1>4. \A j \in Informers, d \in Contexts :
          goroutines'[<<j, d>>] # "none" => goroutines[<<j, d>>] # "none"
    BY <1>1 DEF TypeOK
  <1>5. GoroutinesOK' /\ RunOnce'
    BY <1>4 DEF InformerStops, GoroutinesOK, RunOnce
  <1>6. WaitGroup' \subseteq WaitGroup
    BY <1>1 DEF WaitGroup, TypeOK
  <1>7. QuietAfterShutdown'
    BY <1>6 DEF InformerStops, QuietAfterShutdown
  <1>8. QED
    BY <1>2, <1>3, <1>5, <1>7

LEMMA StutterInv ==
  ASSUME FactoryInv, UNCHANGED vars
  PROVE  FactoryInv'
  BY DEF FactoryInv, vars, TypeOK, LockOK, MapOK, GoroutinesOK, ShutdownOK, SyncOK,
         HandlesAreShared, RunOnce, QuietAfterShutdown, SyncErrorHasCause, Exists,
         WaitGroup, SyncCall, Phases

LEMMA FactoryInvNext == FactoryInv /\ [Next]_vars => FactoryInv'
  <1> SUFFICES ASSUME FactoryInv, [Next]_vars PROVE FactoryInv'
    OBVIOUS
  <1>1. CASE UNCHANGED vars
    BY <1>1, StutterInv
  <1>2. CASE \E c \in Callers : Call(c)
    BY <1>2, InformerForInv, StartWithContextInv, WaitForCacheSyncInv, ShutdownBeginsInv
       DEF Call
  <1>3. CASE \E c \in Callers : Continue(c)
    BY <1>3, NewInformerInv, ShutdownReturnsInv, WaitForInv, HasSyncedInv,
       WaitForCacheSyncReturnsInv DEF Continue
  <1>4. CASE \E ctx \in Contexts : Cancel(ctx)
    BY <1>4, CancelInv
  <1>5. CASE \E i \in Informers, ctx \in Contexts :
               InformerSyncs(i, ctx) \/ InformerStops(i, ctx)
    BY <1>5, InformerSyncsInv, InformerStopsInv
  <1>6. QED
    BY <1>1, <1>2, <1>3, <1>4, <1>5 DEF Next

-----------------------------------------------------------------------------
(* The inductive invariant holds in every state, for any number of         *)
(* callers, types, informers and contexts.                                 *)
THEOREM FactoryInvariance == Spec => []FactoryInv
  <1>1. QED
    BY FactoryInvInit, FactoryInvNext, PTL DEF Spec

(* The maps of the factory, its lock and the callers have their types.     *)
THEOREM TypeCorrect == Spec => []TypeOK
  <1>1. FactoryInv => TypeOK
    BY DEF FactoryInv
  <1>2. QED
    BY <1>1, FactoryInvariance, PTL

(* Callers share one informer per type, and it is run at most once.        *)
THEOREM OneInformerPerType == Spec => [](HandlesAreShared /\ RunOnce)
  <1>1. FactoryInv => HandlesAreShared /\ RunOnce
    BY DEF FactoryInv
  <1>2. QED
    BY <1>1, FactoryInvariance, PTL

(* After Shutdown has returned no informer runs.                           *)
THEOREM ShutdownIsQuiet == Spec => []QuietAfterShutdown
  <1>1. FactoryInv => QuietAfterShutdown
    BY DEF FactoryInv
  <1>2. QED
    BY <1>1, FactoryInvariance, PTL

(* The error of WaitForCacheSync is never empty when it reports a failure. *)
THEOREM SyncErrorIsExplained == Spec => []SyncErrorHasCause
  <1>1. FactoryInv => SyncErrorHasCause
    BY DEF FactoryInv
  <1>2. QED
    BY <1>1, FactoryInvariance, PTL

(* No step adds to the wait group while a Shutdown waits for it: Start     *)
(* returns at once, and goroutines only end.                               *)
THEOREM WaitGroupIsUsedCorrectly == Spec => NoStartWhileWaiting
  <1> DEFINE Guarded ==
        (\E c \in Callers : pc[c] = "shutdown") => WaitGroup' \subseteq WaitGroup
  <1>1. ASSUME FactoryInv, [Next]_vars PROVE Guarded
    <2> SUFFICES ASSUME NEW c \in Callers, pc[c] = "shutdown"
                 PROVE  WaitGroup' \subseteq WaitGroup
      OBVIOUS
    <2>1. shuttingDown
      BY <1>1 DEF FactoryInv, ShutdownOK
    <2>2. goroutines' = goroutines \/ \E i \in Informers, ctx \in Contexts : InformerStops(i, ctx)
      BY <1>1, <2>1 DEF Next, vars, Call, Continue, InformerFor, NewInformer,
         StartWithContext, MayStart, ShutdownBegins, ShutdownReturns, WaitForCacheSync,
         WaitFor, HasSynced, WaitForCacheSyncReturns, Cancel, InformerSyncs
    <2>3. CASE goroutines' = goroutines
      BY <2>3 DEF WaitGroup
    <2>4. CASE \E i \in Informers, ctx \in Contexts : InformerStops(i, ctx)
      BY <1>1, <2>4 DEF InformerStops, WaitGroup, FactoryInv, TypeOK
    <2>5. QED
      BY <2>2, <2>3, <2>4
  <1>2. Spec => [][Guarded]_vars
    BY <1>1, FactoryInvariance, PTL DEF Spec
  <1>3. QED
    BY <1>2 DEF NoStartWhileWaiting
=============================================================================
