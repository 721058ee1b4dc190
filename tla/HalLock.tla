------------------------------ MODULE HalLock -------------------------------
(***************************************************************************)
(* g_instance_lock made explicit.  HalBinding runs an exclusive section as *)
(* one step guarded by "no reader"; here a thread first calls Initialize   *)
(* or CleanUp and then waits in unique_lock until the lock is granted, and *)
(* a dispatch thread waits in shared_lock until shared access is granted. *)
(* Which waiter the lock serves first is the policy of shared_mutex_impl  *)
(* (lines 35-39): std::shared_timed_mutex of libc++, or of libstdc++      *)
(* without pthread rwlocks, blocks new shared owners once a writer waits; *)
(* libstdc++ on a pthread_rwlock_t with default attributes (glibc) lets   *)
(* new readers in past a waiting writer.                                   *)
(*                                                                         *)
(* Two behaviours of the collaborators are parameters: a native module     *)
(* whose cleanup() waits until none of its threads is inside a dispatch    *)
(* entry, and observers that call back into the binding (Get(),            *)
(* IsInitialized(), AddObserver) from inside a notification.               *)
(*                                                                         *)
(* Every step is a step of HalBinding conjoined with the lock's own        *)
(* bookkeeping, or leaves HalBinding's variables alone: the safety        *)
(* results of HalBinding hold here as they stand.  This module is about    *)
(* waiting: whether every lifecycle call and every callback returns.      *)
(***************************************************************************)
EXTENDS HalBinding

CONSTANTS
    WriterPriority,     \* a waiting writer blocks new shared acquisitions
    CleanupJoins,       \* the module's cleanup() waits for its callback threads
    ReentrantObservers  \* an observer may call back into the binding

ASSUME LockConstantsAssumption ==
    /\ WriterPriority \in BOOLEAN
    /\ CleanupJoins \in BOOLEAN
    /\ ReentrantObservers \in BOOLEAN

VARIABLES
    want,       \* the lifecycle call an application thread is inside
    owner,      \* the application threads holding the lock exclusively
    cbWait,     \* a dispatch entry was called and waits for shared access
    nested,     \* an observer's call back into the binding: "none", "waiting"
                \* for the lock, or "returned" while the observer finishes
    initCalls,  \* Initialize calls made (bounds them before the lock)
    getAborted, \* history: Get() aborted for a client that checked first
    lateDropped \* history: a dispatch entry found no binding and returned

lockVars == <<want, owner, cbWait, nested, initCalls, getAborted, lateDropped>>
allVars == <<vars, lockVars>>

-----------------------------------------------------------------------------
(* The lock *)

\* A shared_lock is granted at once: nobody holds the lock exclusively and,
\* under writer priority, no writer is waiting for it.
SharedFree ==
    /\ owner = {}
    /\ WriterPriority => \A a \in AppThreads : want[a] = "none"

\* The native module's cleanup() returns: either it does not wait for its
\* threads, or none of them is inside a dispatch entry.
ModuleCleanupReturns ==
    CleanupJoins => \A t \in CbThreads : ~cbWait[t]

\* The Initialize step that just ran called cleanup() from the impl's
\* destructor: init() or set_os_callouts() failed after the module loaded.
InitCalledCleanup ==
    /\ ~halUp'
    /\ DynamicLoad => libRefs' = libRefs + 1

LockInit ==
    /\ Init
    /\ want = [a \in AppThreads |-> "none"]
    /\ owner = {}
    /\ cbWait = [t \in CbThreads |-> FALSE]
    /\ nested = [t \in CbThreads |-> "none"]
    /\ initCalls = 0
    /\ getAborted = FALSE
    /\ lateDropped = FALSE

-----------------------------------------------------------------------------
(* Lifecycle calls: the call, the wait in unique_lock, the locked body.   *)

\* The application calls BluetoothInterface::Initialize().
CallInitialize(a) ==
    /\ Running /\ appPc[a] = "idle" /\ want[a] = "none"
    /\ initCalls < MaxInits
    /\ want' = [want EXCEPT ![a] = "init"]
    /\ initCalls' = initCalls + 1
    /\ UNCHANGED <<vars, owner, cbWait, nested, getAborted, lateDropped>>

\* A test calls BluetoothInterface::InitializeForTesting().
CallInitializeForTesting(a) ==
    /\ Running /\ appPc[a] = "idle" /\ want[a] = "none"
    /\ initCalls < MaxInits
    /\ want' = [want EXCEPT ![a] = "test"]
    /\ initCalls' = initCalls + 1
    /\ UNCHANGED <<vars, owner, cbWait, nested, getAborted, lateDropped>>

\* The application calls BluetoothInterface::CleanUp().
CallCleanUp(a) ==
    /\ Running /\ appPc[a] = "idle" /\ want[a] = "none"
    /\ want' = [want EXCEPT ![a] = "cleanup"]
    /\ UNCHANGED <<vars, owner, cbWait, nested, initCalls, getAborted, lateDropped>>

\* Faulty variant: a lock that admits a writer while another holds it.
AcquireExclusiveUnchecked(a) ==
    /\ Running /\ want[a] # "none"
    /\ readers = {}
    /\ owner' = owner \cup {a}
    /\ UNCHANGED <<vars, want, cbWait, nested, initCalls, getAborted, lateDropped>>

\* unique_lock returns: no owner and no shared holder is left.
AcquireExclusive(a) ==
    /\ Running /\ want[a] # "none" /\ owner = {}
    /\ readers = {}
    /\ owner' = {a}
    /\ UNCHANGED <<vars, want, cbWait, nested, initCalls, getAborted, lateDropped>>

\* Faulty variant: the failure path returns without releasing the lock.
LockedInitializeLeaksLock(a) ==
    /\ owner = {a} /\ want[a] = "init"
    /\ \/ Initialize(a) /\ (InitCalledCleanup => ModuleCleanupReturns)
       \/ InitializeTwice(a)
    /\ owner' = IF halUp' THEN {} ELSE owner
    /\ want' = [want EXCEPT ![a] = "none"]
    /\ UNCHANGED <<cbWait, nested, initCalls, getAborted, lateDropped>>

\* The body of Initialize under the lock, to its return, which releases it.
\* When the impl is destroyed on failure, its destructor's cleanup() must
\* return first.
LockedInitialize(a) ==
    /\ owner = {a} /\ want[a] = "init"
    /\ \/ Initialize(a) /\ (InitCalledCleanup => ModuleCleanupReturns)
       \/ InitializeTwice(a)
    /\ owner' = {}
    /\ want' = [want EXCEPT ![a] = "none"]
    /\ UNCHANGED <<cbWait, nested, initCalls, getAborted, lateDropped>>

\* The body of InitializeForTesting under the lock.
LockedInitializeForTesting(a) ==
    /\ owner = {a} /\ want[a] = "test"
    /\ InitializeForTesting(a) \/ InitializeTwice(a)
    /\ owner' = {}
    /\ want' = [want EXCEPT ![a] = "none"]
    /\ UNCHANGED <<cbWait, nested, initCalls, getAborted, lateDropped>>

\* The body of CleanUp under the lock.  Deleting a BluetoothInterfaceImpl
\* calls the module's cleanup(), which must return first; a test double's
\* destructor is defaulted and calls nothing.
LockedCleanUp(a) ==
    /\ owner = {a} /\ want[a] = "cleanup"
    /\ \/ CleanUp(a) /\ (g \notin fakes => ModuleCleanupReturns)
       \/ CleanUpUninitialized(a)
    /\ owner' = {}
    /\ want' = [want EXCEPT ![a] = "none"]
    /\ UNCHANGED <<cbWait, nested, initCalls, getAborted, lateDropped>>

-----------------------------------------------------------------------------
(* Registration calls: each takes the lock shared for its own body.        *)

LockedIsInitialized(a) ==
    /\ SharedFree /\ want[a] = "none"
    /\ IsInitialized(a)
    /\ UNCHANGED lockVars

LockedGet(a) ==
    /\ SharedFree
    /\ Get(a)
    /\ UNCHANGED lockVars

\* Get() aborts although this client's IsInitialized() returned true.
LockedGetUninitialized(a) ==
    /\ SharedFree
    /\ GetUninitialized(a)
    /\ getAborted' = TRUE
    /\ UNCHANGED <<want, owner, cbWait, nested, initCalls, lateDropped>>

LockedAddObserver(a) ==
    /\ SharedFree
    /\ AddObserver(a)
    /\ UNCHANGED lockVars

LockedRemoveObserver(a) ==
    /\ SharedFree
    /\ RemoveObserver(a)
    /\ UNCHANGED lockVars

-----------------------------------------------------------------------------
(* Dispatch entries: the module's call, the wait in shared_lock, the body. *)

\* A thread of the native module calls a dispatch entry.
Callback(t) ==
    /\ Running /\ cbPc[t] = "idle" /\ ~cbWait[t]
    /\ cbWait' = [cbWait EXCEPT ![t] = TRUE]
    /\ UNCHANGED <<vars, want, owner, nested, initCalls, getAborted, lateDropped>>

LockedDispatchEnter(t) ==
    /\ cbWait[t] /\ SharedFree
    /\ DispatchEnter(t)
    /\ cbWait' = [cbWait EXCEPT ![t] = FALSE]
    /\ UNCHANGED <<want, owner, nested, initCalls, getAborted, lateDropped>>

LockedAclNullAddress(t) ==
    /\ cbWait[t] /\ SharedFree
    /\ AclNullAddress(t)
    /\ UNCHANGED lockVars

\* Faulty variant: the early return keeps the shared lock.
DispatchDroppedNoRelease(t) ==
    /\ Running /\ cbWait[t] /\ SharedFree
    /\ g = Null
    /\ cbWait' = [cbWait EXCEPT ![t] = FALSE]
    /\ lateDropped' = TRUE
    /\ readers' = readers \cup {t}
    /\ UNCHANGED <<g, created, freed, fakes, observers, cbPc, cbInst, cbPending,
                   appPc, appOp, appObs, appPtr, halUp, libRefs, inits,
                   aborted, registered, uaf, want, owner, nested, initCalls,
                   getAborted>>

\* VERIFY_INTERFACE_OR_RETURN: no binding, the entry returns and the
\* shared_lock is released.
DispatchDropped(t) ==
    /\ Running /\ cbWait[t] /\ SharedFree
    /\ g = Null
    /\ cbWait' = [cbWait EXCEPT ![t] = FALSE]
    /\ lateDropped' = TRUE
    /\ UNCHANGED <<vars, want, owner, nested, initCalls, getAborted>>

\* One observer is called; a re-entrant one calls back into the binding,
\* which takes the lock shared again while this thread still holds it.
LockedDispatchNotify(t) ==
    /\ nested[t] # "waiting"
    /\ DispatchNotify(t)
    /\ nested' \in {[nested EXCEPT ![t] = n] :
                        n \in IF ReentrantObservers THEN {"none", "waiting"}
                                                   ELSE {"none"}}
    /\ UNCHANGED <<want, owner, cbWait, initCalls, getAborted, lateDropped>>

\* The observer's call into the binding (Get() or IsInitialized(), the
\* first call of any registration) is granted shared access and returns.
NestedCall(t) ==
    /\ Running /\ nested[t] = "waiting" /\ SharedFree
    /\ nested' = [nested EXCEPT ![t] = "returned"]
    /\ UNCHANGED <<vars, want, owner, cbWait, initCalls, getAborted, lateDropped>>

LockedDispatchExit(t) ==
    /\ nested[t] # "waiting"
    /\ DispatchExit(t)
    /\ nested' = [nested EXCEPT ![t] = "none"]
    /\ UNCHANGED <<want, owner, cbWait, initCalls, getAborted, lateDropped>>

-----------------------------------------------------------------------------
LockAppStep(a) ==
    \/ CallInitialize(a) \/ CallInitializeForTesting(a) \/ CallCleanUp(a)
    \/ AcquireExclusive(a)
    \/ LockedInitialize(a) \/ LockedInitializeForTesting(a) \/ LockedCleanUp(a)
    \/ LockedIsInitialized(a) \/ LockedGet(a) \/ LockedGetUninitialized(a)
    \/ LockedAddObserver(a) \/ LockedRemoveObserver(a)

LockCbStep(t) ==
    \/ Callback(t) \/ LockedDispatchEnter(t) \/ LockedAclNullAddress(t)
    \/ DispatchDropped(t) \/ LockedDispatchNotify(t) \/ NestedCall(t)
    \/ LockedDispatchExit(t)

LockNext ==
    \/ \E a \in AppThreads : LockAppStep(a)
    \/ \E t \in CbThreads : LockCbStep(t)

\* The scheduler runs every thread that is not blocked, and a blocked
\* thread is woken when the lock can be granted to it and stays grantable.
\* Only steps already under way are fair: the application need not call
\* anything, the native module need not raise callbacks, and which observer
\* is called or whether it re-enters is not a scheduling decision.
LockFairness ==
    /\ \A a \in AppThreads :
          /\ WF_allVars(AcquireExclusive(a))
          /\ WF_allVars(LockedInitialize(a) \/ LockedInitializeForTesting(a)
                         \/ LockedCleanUp(a))
    /\ \A t \in CbThreads :
          /\ WF_allVars(LockedDispatchEnter(t) \/ DispatchDropped(t))
          /\ WF_allVars(LockedDispatchNotify(t))
          /\ WF_allVars(NestedCall(t))
          /\ WF_allVars(LockedDispatchExit(t))

LockSpec == LockInit /\ [][LockNext]_allVars /\ LockFairness

-----------------------------------------------------------------------------
(* Properties *)

LockTypeOK ==
    /\ TypeOK
    /\ want \in [AppThreads -> {"none", "init", "test", "cleanup"}]
    /\ owner \in {{}} \cup {{a} : a \in AppThreads}
    /\ cbWait \in [CbThreads -> BOOLEAN]
    /\ nested \in [CbThreads -> {"none", "waiting", "returned"}]
    /\ initCalls \in 0..MaxInits
    /\ getAborted \in BOOLEAN
    /\ lateDropped \in BOOLEAN

\* Every call of Initialize or CleanUp returns (unless the process aborts):
\* the thread gets the lock exclusively and the module's init()/cleanup()
\* return.  Section 5: exclusive access is a barrier that completes.
LifecycleCallsReturn ==
    \A a \in AppThreads :
        want[a] # "none" ~> (want[a] = "none" \/ aborted)

\* Every dispatch entry the native module calls returns to it: it gets the
\* shared lock, calls every observer, and releases the lock.
CallbacksReturn ==
    \A t \in CbThreads :
        cbWait[t] ~> ((~cbWait[t] /\ cbPc[t] = "idle") \/ aborted)

\* Section 4.2: a client that checks IsInitialized() before Get() does not
\* hit Get()'s fatal assertion.  The two calls take the lock separately.
CheckedGetSucceeds == ~getAborted

=============================================================================
