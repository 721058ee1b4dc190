---------------------------- MODULE HalLockProofs ---------------------------
(***************************************************************************)
(* The explicit lock changes nothing HalBinding says: every step of        *)
(* HalLock is a step of HalBinding or leaves its variables alone, so every *)
(* behaviour of HalLock is one of HalBinding and the safety theorems of    *)
(* HalBindingProofs hold for the model with waiting threads too.          *)
(***************************************************************************)
EXTENDS HalLock, HalBindingProofs

\* A step that touches only the lock's bookkeeping stutters HalBinding.
LEMMA BindingStutter ==
    UNCHANGED vars => [Next]_vars
OBVIOUS

LEMMA LockNextRefines == [LockNext]_allVars => [Next]_vars
<1> SUFFICES ASSUME [LockNext]_allVars PROVE [Next]_vars
  OBVIOUS
<1>1. ASSUME NEW a \in AppThreads, LockAppStep(a) PROVE [Next]_vars
  <2>1. CASE CallInitialize(a) \/ CallInitializeForTesting(a) \/ CallCleanUp(a)
             \/ AcquireExclusive(a)
    BY <2>1, BindingStutter
       DEF CallInitialize, CallInitializeForTesting, CallCleanUp,
           AcquireExclusive
  <2>2. CASE LockedInitialize(a) \/ LockedInitializeForTesting(a)
             \/ LockedCleanUp(a)
    BY <2>2 DEF LockedInitialize, LockedInitializeForTesting, LockedCleanUp,
                Next, AppStep
  <2>3. CASE LockedIsInitialized(a) \/ LockedGet(a) \/ LockedGetUninitialized(a)
             \/ LockedAddObserver(a) \/ LockedRemoveObserver(a)
    BY <2>3 DEF LockedIsInitialized, LockedGet, LockedGetUninitialized,
                LockedAddObserver, LockedRemoveObserver, Next, AppStep
  <2>4. QED
    BY <1>1, <2>1, <2>2, <2>3 DEF LockAppStep
<1>2. ASSUME NEW t \in CbThreads, LockCbStep(t) PROVE [Next]_vars
  <2>1. CASE Callback(t) \/ DispatchDropped(t) \/ NestedCall(t)
    BY <2>1, BindingStutter DEF Callback, DispatchDropped, NestedCall
  <2>2. CASE LockedDispatchEnter(t) \/ LockedAclNullAddress(t)
             \/ LockedDispatchNotify(t) \/ LockedDispatchExit(t)
    BY <2>2 DEF LockedDispatchEnter, LockedAclNullAddress,
                LockedDispatchNotify, LockedDispatchExit, Next, CbStep
  <2>3. QED
    BY <1>2, <2>1, <2>2 DEF LockCbStep
<1>3. CASE UNCHANGED allVars
  BY <1>3, BindingStutter DEF allVars
<1>4. QED
  BY <1>1, <1>2, <1>3 DEF LockNext

\* The model with g_instance_lock's waiting made explicit implements the
\* atomic-section model: the lock bookkeeping only delays steps of
\* BluetoothInterface's methods and dispatch entries, never changes them.
THEOREM LockRefinesBinding == LockSpec => Spec
<1>1. LockInit => Init
  BY DEF LockInit
<1>2. QED
  BY <1>1, LockNextRefines, PTL DEF LockSpec, Spec

\* With the lock explicit, a dispatch entry in its fan-out still always
\* works on the published, live instance (CleanUp never deletes the binding
\* under a running callback), for every number of threads and observers.
THEOREM LockDispatchSafety == LockSpec => []DispatchSafe
BY LockRefinesBinding, DispatchSafety, PTL

\* Refinements compose: the model with waiting threads implements the
\* abstract lifecycle of section 4.2 under the mapping of HalBinding.
THEOREM LockImplementsLifecycle == LockSpec => ImplementsLifecycle
BY LockRefinesBinding, Refinement, PTL

-----------------------------------------------------------------------------
(* Type correctness of g_instance_lock's bookkeeping.                     *)

\* The lock's bookkeeping is well typed.
LockVarsType ==
    /\ want \in [AppThreads -> {"none", "init", "test", "cleanup"}]
    /\ owner \in {{}} \cup {{a} : a \in AppThreads}
    /\ cbWait \in [CbThreads -> BOOLEAN]
    /\ nested \in [CbThreads -> {"none", "waiting", "returned"}]
    /\ initCalls \in 0..MaxInits
    /\ getAborted \in BOOLEAN
    /\ lateDropped \in BOOLEAN

LEMMA InitLockVarsType == LockInit => LockVarsType
<1> SUFFICES ASSUME LockInit PROVE LockVarsType
  OBVIOUS
<1>1. initCalls \in 0..MaxInits
  BY ConstantsAssumption DEF LockInit
<1>2. want \in [AppThreads -> {"none", "init", "test", "cleanup"}]
  BY DEF LockInit
<1>3. owner \in {{}} \cup {{a} : a \in AppThreads}
  BY DEF LockInit
<1>4. /\ cbWait \in [CbThreads -> BOOLEAN]
      /\ nested \in [CbThreads -> {"none", "waiting", "returned"}]
      /\ getAborted \in BOOLEAN /\ lateDropped \in BOOLEAN
  BY DEF LockInit
<1>5. QED
  BY <1>1, <1>2, <1>3, <1>4 DEF LockVarsType

LEMMA NextLockVarsType == LockVarsType /\ [LockNext]_allVars => LockVarsType'
<1> SUFFICES ASSUME LockVarsType, [LockNext]_allVars PROVE LockVarsType'
  OBVIOUS
<1> USE DEF LockVarsType
<1>1. ASSUME NEW a \in AppThreads,
             CallInitialize(a) \/ CallInitializeForTesting(a) \/ CallCleanUp(a)
      PROVE  LockVarsType'
  BY <1>1, ConstantsAssumption
     DEF CallInitialize, CallInitializeForTesting, CallCleanUp
<1>2. ASSUME NEW a \in AppThreads, AcquireExclusive(a) PROVE LockVarsType'
  BY <1>2 DEF AcquireExclusive, vars
<1>3. ASSUME NEW a \in AppThreads,
             LockedInitialize(a) \/ LockedInitializeForTesting(a)
             \/ LockedCleanUp(a)
      PROVE  LockVarsType'
  BY <1>3 DEF LockedInitialize, LockedInitializeForTesting, LockedCleanUp
<1>4. ASSUME NEW a \in AppThreads,
             LockedIsInitialized(a) \/ LockedGet(a) \/ LockedGetUninitialized(a)
             \/ LockedAddObserver(a) \/ LockedRemoveObserver(a)
      PROVE  LockVarsType'
  BY <1>4 DEF LockedIsInitialized, LockedGet, LockedGetUninitialized,
              LockedAddObserver, LockedRemoveObserver, lockVars
<1>5. ASSUME NEW t \in CbThreads, LockedDispatchEnter(t) PROVE LockVarsType'
  BY <1>5 DEF LockedDispatchEnter
<1>6. ASSUME NEW t \in CbThreads,
             Callback(t) \/ LockedAclNullAddress(t) \/ DispatchDropped(t)
             \/ LockedDispatchNotify(t) \/ NestedCall(t)
             \/ LockedDispatchExit(t)
      PROVE  LockVarsType'
  BY <1>6 DEF Callback, LockedAclNullAddress, DispatchDropped,
              LockedDispatchNotify, NestedCall, LockedDispatchExit, lockVars
<1>7. CASE UNCHANGED allVars
  BY <1>7 DEF allVars, vars, lockVars
<1>8. QED
  BY <1>1, <1>2, <1>3, <1>4, <1>5, <1>6, <1>7
     DEF LockNext, LockAppStep, LockCbStep

\* Every reachable state of the model with waiting threads is well typed,
\* for every number of threads, observers and initialisations: the binding's
\* state as in HalBinding, at most one exclusive owner of g_instance_lock,
\* and the Initialize counter within MaxInits.
THEOREM LockTypeCorrect == LockSpec => []LockTypeOK
<1>1. LockSpec => []LockVarsType
  BY InitLockVarsType, NextLockVarsType, PTL DEF LockSpec
<1>2. LockSpec => []TypeOK
  BY LockRefinesBinding, TypeCorrect, PTL
<1>3. LockVarsType /\ TypeOK => LockTypeOK
  BY DEF LockVarsType, LockTypeOK
<1>4. QED
  BY <1>1, <1>2, <1>3, PTL

=============================================================================
