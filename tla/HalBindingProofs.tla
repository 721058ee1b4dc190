------------------------- MODULE HalBindingProofs --------------------------
(***************************************************************************)
(* Proofs about HalBinding for every value of the constants: the type      *)
(* invariant, and the safety of the lifecycle and of dispatch under        *)
(* g_instance_lock.                                                        *)
(***************************************************************************)
EXTENDS HalBinding, TLAPS

USE ConstantsAssumption

-----------------------------------------------------------------------------
(* The observer list operations keep a list duplicate-free.                *)

\* Adding an observer to a duplicate-free list leaves it duplicate-free.
LEMMA RegistryAddType ==
    ASSUME NEW s \in ObserverLists, NEW o \in Observers
    PROVE  RegistryAdd(s, o) \in ObserverLists
<1>1. CASE o \in Range(s)
  BY <1>1 DEF RegistryAdd
<1>2. CASE o \notin Range(s)
  <2>1. Append(s, o) \in Seq(Observers)
    BY DEF ObserverLists
  <2>2. IsInjective(Append(s, o))
    BY <1>2 DEF ObserverLists, IsInjective, Range
  <2>3. QED
    BY <1>2, <2>1, <2>2 DEF RegistryAdd, ObserverLists
<1>3. QED
  BY <1>1, <1>2

\* Removing an observer from a duplicate-free list leaves it duplicate-free.
LEMMA RegistryRemoveType ==
    ASSUME NEW s \in ObserverLists, NEW o \in Observers
    PROVE  RegistryRemove(s, o) \in ObserverLists
<1>1. CASE o \notin Range(s)
  BY <1>1 DEF RegistryRemove
<1>2. CASE o \in Range(s)
  <2> DEFINE k == IndexOf(s, o)
             r == [i \in 1..Len(s) - 1 |-> IF i < k THEN s[i] ELSE s[i + 1]]
  <2>1. s \in Seq(Observers) /\ IsInjective(s)
    BY DEF ObserverLists
  <2>2. k \in 1..Len(s) /\ s[k] = o
    BY <1>2, <2>1 DEF IndexOf, Range
  <2>3. r \in Seq(Observers)
    BY <2>1, <2>2
  <2>4. IsInjective(r)
    BY <2>1, <2>2 DEF IsInjective
  <2>5. QED
    BY <1>2, <2>3, <2>4 DEF RegistryRemove, ObserverLists
<1>3. QED
  BY <1>1, <1>2

-----------------------------------------------------------------------------
(* Type correctness.  TypeOK alone is not inductive: Initialize numbers    *)
(* the new instance created + 1, which is an instance only because no more *)
(* instances are published than Initialize calls are made, and a client   *)
(* calls AddObserver or RemoveObserver only on a pointer Get returned.     *)

TypeInv ==
    /\ TypeOK
    /\ created <= inits
    /\ \A a \in AppThreads : appPc[a] \in {"add", "remove"} => appPtr[a] \in Instances

LEMMA InitTypeInv == Init => TypeInv
<1> SUFFICES ASSUME Init PROVE TypeInv
  OBVIOUS
<1> USE DEF Init, Instances, Null
<1>1. observers \in [Instances -> ObserverLists]
  <2>1. << >> \in ObserverLists
    BY DEF ObserverLists, IsInjective
  <2>2. QED
    BY <2>1
<1>2. appObs \in [AppThreads -> Observers]
  OBVIOUS
<1>3. /\ cbPc \in [CbThreads -> {"idle", "fanout"}]
      /\ cbInst \in [CbThreads -> {Null} \cup Instances]
      /\ cbPending \in [CbThreads -> Seq(Observers)]
  OBVIOUS
<1>4. /\ appPc \in [AppThreads -> {"idle", "get", "add", "remove"}]
      /\ appOp \in [AppThreads -> {"add", "remove"}]
      /\ appPtr \in [AppThreads -> {Null} \cup Instances]
  OBVIOUS
<1>5. /\ g \in {Null} \cup Instances
      /\ created \in 0..MaxInits
      /\ inits \in 0..MaxInits
      /\ created <= inits
      /\ libRefs \in Nat
  OBVIOUS
<1>6. \A a \in AppThreads : appPc[a] \in {"add", "remove"} => appPtr[a] \in Instances
  OBVIOUS
<1>7. QED
  BY <1>1, <1>2, <1>3, <1>4, <1>5, <1>6 DEF TypeInv, TypeOK

\* A step of any application or dispatch thread keeps every variable in
\* its type; in particular the observer lists stay duplicate-free.
LEMMA NextTypeInv == TypeInv /\ [Next]_vars => TypeInv'
<1> SUFFICES ASSUME TypeInv, [Next]_vars PROVE TypeInv'
  OBVIOUS
<1> USE DEF TypeInv, TypeOK, Instances, Null
<1>1. ASSUME NEW a \in AppThreads, Initialize(a) PROVE TypeInv'
  BY <1>1 DEF Initialize, Running, KeepsLibrary, HalUpAfterInit
<1>2. ASSUME NEW a \in AppThreads, CleanUp(a) PROVE TypeInv'
  BY <1>2 DEF CleanUp
<1>14. ASSUME NEW a \in AppThreads, InitializeForTesting(a) PROVE TypeInv'
  BY <1>14 DEF InitializeForTesting, Running
<1>3. ASSUME NEW a \in AppThreads, IsInitialized(a) PROVE TypeInv'
  BY <1>3 DEF IsInitialized
<1>4. ASSUME NEW a \in AppThreads, Get(a) PROVE TypeInv'
  BY <1>4 DEF Get
<1>5. ASSUME NEW a \in AppThreads, AddObserver(a) PROVE TypeInv'
  <2>1. appPtr[a] \in Instances
    BY <1>5 DEF AddObserver, ChangeRegistration
  <2>2. CASE appPtr[a] \in freed
    BY <1>5, <2>2 DEF AddObserver, ChangeRegistration
  <2>3. CASE appPtr[a] \notin freed
    <3>1. RegistryAdd(observers[appPtr[a]], appObs[a]) \in ObserverLists
      BY <2>1, RegistryAddType
    <3>2. observers' \in [Instances -> ObserverLists]
      BY <1>5, <2>1, <2>3, <3>1 DEF AddObserver, ChangeRegistration
    <3>3. QED
      BY <1>5, <2>3, <3>2 DEF AddObserver, ChangeRegistration
  <2>4. QED
    BY <2>2, <2>3
<1>6. ASSUME NEW a \in AppThreads, RemoveObserver(a) PROVE TypeInv'
  <2>1. appPtr[a] \in Instances
    BY <1>6 DEF RemoveObserver, ChangeRegistration
  <2>2. CASE appPtr[a] \in freed
    BY <1>6, <2>2 DEF RemoveObserver, ChangeRegistration
  <2>3. CASE appPtr[a] \notin freed
    <3>1. RegistryRemove(observers[appPtr[a]], appObs[a]) \in ObserverLists
      BY <2>1, RegistryRemoveType
    <3>2. observers' \in [Instances -> ObserverLists]
      BY <1>6, <2>1, <2>3, <3>1 DEF RemoveObserver, ChangeRegistration
    <3>3. QED
      BY <1>6, <2>3, <3>2 DEF RemoveObserver, ChangeRegistration
  <2>4. QED
    BY <2>2, <2>3
<1>7. ASSUME NEW a \in AppThreads,
             InitializeTwice(a) \/ CleanUpUninitialized(a) \/ GetUninitialized(a)
      PROVE TypeInv'
  BY <1>7 DEF InitializeTwice, CleanUpUninitialized, GetUninitialized, Abort
<1>8. ASSUME NEW t \in CbThreads, DispatchEnter(t) PROVE TypeInv'
  BY <1>8 DEF DispatchEnter, ObserverLists
<1>9. ASSUME NEW t \in CbThreads, AclNullAddress(t) PROVE TypeInv'
  BY <1>9 DEF AclNullAddress, Abort
<1>10. ASSUME NEW t \in CbThreads, DispatchNotify(t) PROVE TypeInv'
  BY <1>10 DEF DispatchNotify
<1>11. ASSUME NEW t \in CbThreads, DispatchExit(t) PROVE TypeInv'
  BY <1>11 DEF DispatchExit
<1>12. CASE UNCHANGED vars
  BY <1>12 DEF vars
<1>13. QED
  BY <1>1, <1>2, <1>3, <1>4, <1>5, <1>6, <1>7, <1>8, <1>9, <1>10, <1>11, <1>12,
     <1>14 DEF Next, AppStep, CbStep

\* HalBinding keeps its variables in their types.
THEOREM TypeCorrect == Spec => []TypeOK
<1>1. TypeInv => TypeOK
  BY DEF TypeInv
<1>2. QED
  BY <1>1, InitTypeInv, NextTypeInv, PTL DEF Spec

-----------------------------------------------------------------------------
(* Safety of the lifecycle and of dispatch.  The invariant relates the     *)
(* lock to the threads and the pointer: a dispatch thread is a reader      *)
(* exactly while it fans out, every reader read the published pointer, and *)
(* the instances ever published are the live one and the deleted ones.     *)
(* The first link is what makes the rest inductive: Initialize and CleanUp *)
(* wait for readers = {}, so they never change g under a fan-out.          *)

IInv ==
    /\ TypeInv
    /\ g \in 0..created
    /\ freed = (1..created) \ {g}
    /\ fakes \subseteq 1..created
    /\ \A t \in CbThreads : cbPc[t] = "fanout" <=> t \in readers
    /\ \A t \in readers : cbInst[t] = g /\ g # Null
    /\ halUp <=> (g # Null /\ g \notin fakes)

LEMMA InitIInv == Init => IInv
<1> SUFFICES ASSUME Init PROVE IInv
  OBVIOUS
<1>1. TypeInv
  BY InitTypeInv
<1>2. QED
  BY <1>1 DEF Init, IInv, Null

LEMMA NextIInv == IInv /\ [Next]_vars => IInv'
<1> SUFFICES ASSUME IInv, [Next]_vars PROVE IInv'
  OBVIOUS
<1>0. TypeInv'
  BY NextTypeInv DEF IInv
<1> USE DEF IInv, TypeInv, TypeOK, Instances, Null
<1>1. ASSUME NEW a \in AppThreads, Initialize(a) PROVE IInv'
  <2>1. readers = {} /\ g = Null /\ UNCHANGED <<freed, fakes, readers, cbPc, cbInst>>
    BY <1>1 DEF Initialize
  <2>2. PICK r \in InitResults :
               /\ halUp' = HalUpAfterInit(r)
               /\ IF r = "Ok"
                  THEN created' = created + 1 /\ g' = created + 1
                  ELSE UNCHANGED <<created, g>>
    BY <1>1 DEF Initialize
  <2>3. CASE r = "Ok"
    <3>1. created' = created + 1 /\ g' = created + 1 /\ halUp'
      BY <2>2, <2>3 DEF HalUpAfterInit
    <3>2. freed = 1..created
      BY <2>1
    <3>3. (1..created + 1) \ {created + 1} = 1..created
      OBVIOUS
    <3>4. freed' = (1..created') \ {g'}
      BY <2>1, <3>1, <3>2, <3>3
    <3>5. g' \notin fakes' /\ fakes' \subseteq 1..created'
      BY <2>1, <3>1
    <3>6. QED
      BY <1>0, <2>1, <3>1, <3>4, <3>5
  <2>4. CASE r # "Ok"
    BY <1>0, <2>1, <2>2, <2>4 DEF HalUpAfterInit
  <2>5. QED
    BY <2>3, <2>4
<1>2. ASSUME NEW a \in AppThreads, CleanUp(a) PROVE IInv'
  BY <1>0, <1>2 DEF CleanUp
<1>13. ASSUME NEW a \in AppThreads, InitializeForTesting(a) PROVE IInv'
  <2>1. readers = {} /\ g = Null /\ ~halUp
        /\ UNCHANGED <<freed, halUp, readers, cbPc, cbInst>>
        /\ created' = created + 1 /\ g' = created + 1
        /\ fakes' = fakes \cup {created + 1}
    BY <1>13 DEF InitializeForTesting
  <2>2. (1..created + 1) \ {created + 1} = 1..created
    OBVIOUS
  <2>3. freed' = (1..created') \ {g'}
    BY <2>1, <2>2
  <2>4. QED
    BY <1>0, <2>1, <2>3
<1>3. ASSUME NEW a \in AppThreads, IsInitialized(a) PROVE IInv'
  BY <1>0, <1>3 DEF IsInitialized
<1>4. ASSUME NEW a \in AppThreads, Get(a) PROVE IInv'
  BY <1>0, <1>4 DEF Get
<1>5. ASSUME NEW a \in AppThreads, AddObserver(a) \/ RemoveObserver(a)
      PROVE IInv'
  BY <1>0, <1>5 DEF AddObserver, RemoveObserver, ChangeRegistration
<1>6. ASSUME NEW a \in AppThreads,
             InitializeTwice(a) \/ CleanUpUninitialized(a) \/ GetUninitialized(a)
      PROVE IInv'
  BY <1>0, <1>6 DEF InitializeTwice, CleanUpUninitialized, GetUninitialized, Abort
<1>7. ASSUME NEW t \in CbThreads, DispatchEnter(t) PROVE IInv'
  BY <1>0, <1>7 DEF DispatchEnter
<1>8. ASSUME NEW t \in CbThreads, AclNullAddress(t) PROVE IInv'
  BY <1>0, <1>8 DEF AclNullAddress, Abort
<1>9. ASSUME NEW t \in CbThreads, DispatchNotify(t) PROVE IInv'
  BY <1>0, <1>9 DEF DispatchNotify
<1>10. ASSUME NEW t \in CbThreads, DispatchExit(t) PROVE IInv'
  BY <1>0, <1>10 DEF DispatchExit
<1>11. CASE UNCHANGED vars
  BY <1>0, <1>11 DEF vars
<1>12. QED
  BY <1>1, <1>2, <1>3, <1>4, <1>5, <1>6, <1>7, <1>8, <1>9, <1>10, <1>11, <1>13
     DEF Next, AppStep, CbStep

\* IInv holds in every reachable state.
LEMMA IInvariant == Spec => []IInv
BY InitIInv, NextIInv, PTL DEF Spec

\* No dispatch entry ever fans out over an instance other than the published
\* one: CleanUp never deletes the binding under a running callback.
THEOREM DispatchSafety == Spec => []DispatchSafe
<1>1. IInv => DispatchSafe
  BY DEF IInv, DispatchSafe
<1>2. QED
  BY <1>1, IInvariant, PTL

\* At most one BluetoothInterfaceImpl is ever alive, and it is the published
\* one.
THEOREM SingleBindingHolds == Spec => []SingleBinding
<1>1. IInv => SingleBinding
  BY DEF IInv, SingleBinding
<1>2. QED
  BY <1>1, IInvariant, PTL

\* The native module is initialized exactly while a production binding is
\* published.
THEOREM HalMatchesBindingHolds == Spec => []HalMatchesBinding
<1>1. IInv => HalMatchesBinding
  BY DEF IInv, HalMatchesBinding
<1>2. QED
  BY <1>1, IInvariant, PTL

-----------------------------------------------------------------------------
(* Refinement: the binding implements the lifecycle of HalLifecycle under  *)
(* the mapping of HalBinding (state from g and aborted, handle g, retired  *)
(* the deleted instances, moduleUp halUp).  IInv supplies the facts a step *)
(* needs: the new instance is not one deleted before (freed is 1..created  *)
(* without g), and an uninitialized binding has the module down.           *)

\* A step that leaves the pointer, the deleted set, the module and the
\* process alone is a stuttering step of the lifecycle.
LEMMA LifecycleStutter ==
    UNCHANGED <<g, freed, halUp, aborted>>
    => UNCHANGED Lifecycle!lifecycleVars
BY DEF LifecycleState, Lifecycle!lifecycleVars

\* A CHECK failure of a running process is the lifecycle's Abort.
LEMMA LifecycleAbort ==
    ASSUME ~aborted, Abort
    PROVE  Lifecycle!Abort
BY DEF Abort, Lifecycle!Abort, LifecycleState

LEMMA NextRefines ==
    IInv /\ [Next]_vars => [Lifecycle!Next]_Lifecycle!lifecycleVars
<1> SUFFICES ASSUME IInv, [Next]_vars
             PROVE  [Lifecycle!Next]_Lifecycle!lifecycleVars
  OBVIOUS
<1> USE DEF IInv, TypeInv, TypeOK, Instances, Null
<1>1. ASSUME NEW a \in AppThreads, Initialize(a)
      PROVE  [Lifecycle!Next]_Lifecycle!lifecycleVars
  <2>1. ~aborted /\ g = Null /\ ~halUp /\ UNCHANGED <<freed, aborted>>
    BY <1>1 DEF Initialize, Running
  <2>2. PICK r \in InitResults :
               /\ halUp' = HalUpAfterInit(r)
               /\ IF r = "Ok"
                  THEN created' = created + 1 /\ g' = created + 1
                  ELSE UNCHANGED <<created, g>>
    BY <1>1 DEF Initialize
  <2>3. CASE r = "Ok"
    <3>1. g' = created + 1 /\ halUp'
      BY <2>2, <2>3 DEF HalUpAfterInit
    <3>2. g' \in Nat /\ g' # Lifecycle!NoHandle /\ g' \notin freed
      BY <2>1, <3>1 DEF Lifecycle!NoHandle
    <3>3. Lifecycle!InitializeOk
      BY <2>1, <3>1, <3>2 DEF Lifecycle!InitializeOk, LifecycleState,
                               Lifecycle!NoHandle
    <3>4. QED
      BY <3>3 DEF Lifecycle!Next
  <2>4. CASE r # "Ok"
    BY <2>1, <2>2, <2>4, LifecycleStutter DEF HalUpAfterInit
  <2>5. QED
    BY <2>3, <2>4
<1>9. ASSUME NEW a \in AppThreads, InitializeForTesting(a)
      PROVE  [Lifecycle!Next]_Lifecycle!lifecycleVars
  <2>1. ~aborted /\ g = Null /\ g' = created + 1
        /\ UNCHANGED <<freed, halUp, aborted>>
    BY <1>9 DEF InitializeForTesting, Running
  <2>2. g' \in Nat /\ g' # Lifecycle!NoHandle /\ g' \notin freed
    BY <2>1 DEF Lifecycle!NoHandle
  <2>3. Lifecycle!InstallTestDouble
    BY <2>1, <2>2 DEF Lifecycle!InstallTestDouble, LifecycleState,
                      Lifecycle!NoHandle
  <2>4. QED
    BY <2>3 DEF Lifecycle!Next
<1>2. ASSUME NEW a \in AppThreads, CleanUp(a)
      PROVE  [Lifecycle!Next]_Lifecycle!lifecycleVars
  <2>1. Lifecycle!CleanUp
    BY <1>2 DEF CleanUp, Running, Lifecycle!CleanUp, LifecycleState,
                Lifecycle!NoHandle
  <2>2. QED
    BY <2>1 DEF Lifecycle!Next
<1>3. ASSUME NEW a \in AppThreads,
             \/ IsInitialized(a) \/ Get(a)
             \/ AddObserver(a) \/ RemoveObserver(a)
      PROVE  [Lifecycle!Next]_Lifecycle!lifecycleVars
  <2>1. UNCHANGED <<g, freed, halUp, aborted>>
    BY <1>3 DEF IsInitialized, Get, AddObserver, RemoveObserver,
                ChangeRegistration
  <2>2. QED
    BY <2>1, LifecycleStutter
<1>4. ASSUME NEW a \in AppThreads,
             InitializeTwice(a) \/ CleanUpUninitialized(a) \/ GetUninitialized(a)
      PROVE  [Lifecycle!Next]_Lifecycle!lifecycleVars
  <2>1. ~aborted /\ Abort
    BY <1>4 DEF InitializeTwice, CleanUpUninitialized, GetUninitialized,
                Running
  <2>2. QED
    BY <2>1, LifecycleAbort DEF Lifecycle!Next
<1>5. ASSUME NEW t \in CbThreads, AclNullAddress(t)
      PROVE  [Lifecycle!Next]_Lifecycle!lifecycleVars
  <2>1. ~aborted /\ Abort
    BY <1>5 DEF AclNullAddress, Running
  <2>2. QED
    BY <2>1, LifecycleAbort DEF Lifecycle!Next
<1>6. ASSUME NEW t \in CbThreads,
             DispatchEnter(t) \/ DispatchNotify(t) \/ DispatchExit(t)
      PROVE  [Lifecycle!Next]_Lifecycle!lifecycleVars
  <2>1. UNCHANGED <<g, freed, halUp, aborted>>
    BY <1>6 DEF DispatchEnter, DispatchNotify, DispatchExit
  <2>2. QED
    BY <2>1, LifecycleStutter
<1>7. CASE UNCHANGED vars
  BY <1>7, LifecycleStutter DEF vars
<1>8. QED
  BY <1>1, <1>2, <1>3, <1>4, <1>5, <1>6, <1>7, <1>9 DEF Next, AppStep, CbStep

\* The binding implements the lifecycle of the singleton (HalLifecycle):
\* Initialize publishes a never-used handle only on full success, CleanUp
\* retires exactly the live handle, and nothing else moves the lifecycle.
THEOREM Refinement == Spec => ImplementsLifecycle
<1>1. Init => Lifecycle!Init
  BY DEF Init, Lifecycle!Init, LifecycleState, Null, Lifecycle!NoHandle
<1>2. QED
  BY <1>1, NextRefines, IInvariant, PTL DEF Spec, ImplementsLifecycle,
                                            Lifecycle!Spec

=============================================================================
