----------------------------- MODULE HalBinding -----------------------------
(***************************************************************************)
(* The HAL binding of service/hal/bluetooth_interface.cc: the process-wide *)
(* pointer g_bluetooth_interface, the reader/writer lock g_instance_lock   *)
(* that guards it, the static lifecycle operations Initialize, CleanUp,    *)
(* IsInitialized and Get, the per-instance observer list, and the dispatch *)
(* entries the native module calls on its own threads.                     *)
(*                                                                         *)
(* A section that holds g_instance_lock exclusively (Initialize, CleanUp)  *)
(* runs as one step guarded by "no thread holds the lock shared": nothing  *)
(* else can touch the guarded state while it runs.  A short shared section *)
(* (IsInitialized, Get, AddObserver, RemoveObserver) is one step too.  The *)
(* fan-out of a dispatch entry holds the shared lock across one step per   *)
(* observer, so it is split, and the threads inside it are "readers".      *)
(***************************************************************************)
EXTENDS Naturals, Sequences, Functions

CONSTANTS
    CbThreads,    \* threads of the native module that call dispatch entries
    AppThreads,   \* application threads calling the static API
    Observers,    \* BluetoothInterface::Observer objects
    MaxInits,     \* bound on the number of Initialize calls
    DynamicLoad   \* TRUE when built with DYNAMIC_LOAD_BLUETOOTH (dlopen)

ASSUME ConstantsAssumption ==
    /\ MaxInits \in Nat
    /\ DynamicLoad \in BOOLEAN
    /\ CbThreads \cap AppThreads = {}
    /\ Observers # {}

\* nullptr; BluetoothInterfaceImpl objects are numbered 1, 2, ... in order
\* of creation.
Null == 0
Instances == 1..MaxInits

VARIABLES
    g,          \* g_bluetooth_interface
    created,    \* number of BluetoothInterface objects published so far
    freed,      \* instances deleted by CleanUp
    fakes,      \* instances published by InitializeForTesting (test doubles)
    observers,  \* observers_ of each instance, in registration order
    readers,    \* dispatch threads holding g_instance_lock shared
    cbPc,       \* where each dispatch thread is
    cbInst,     \* the instance of a dispatch thread's latest fan-out
    cbPending,  \* observers a fan-out has still to call
    appPc,      \* where each application thread is
    appOp,      \* "add" or "remove": what the thread is registering
    appObs,     \* the observer it passes
    appPtr,     \* the pointer Get returned to it
    halUp,      \* the native module is initialized (init ok, no cleanup)
    libRefs,    \* dlopen reference count of libbluetooth.so
    inits,      \* Initialize and InitializeForTesting calls made so far
    aborted,    \* a CHECK failed and the process aborted
    registered, \* history: observers whose last completed call was an add
    uaf         \* history: a method ran on a deleted instance

vars == <<g, created, freed, fakes, observers, readers, cbPc, cbInst, cbPending,
          appPc, appOp, appObs, appPtr, halUp, libRefs, inits, aborted,
          registered, uaf>>

-----------------------------------------------------------------------------
(* The observer list (btbase::AbstractObserverList).  Its code is not in   *)
(* this repository; after the spec it is an ordered collection of distinct *)
(* observers, insertion order being notification order.                   *)

\* A list holds each observer at most once.
ObserverLists == {s \in Seq(Observers) : IsInjective(s)}

\* Position of o in s (o is in s).
IndexOf(s, o) == CHOOSE i \in 1..Len(s) : s[i] = o

\* Faulty variant: AddObserver without the "already registered" check.
RegistryAddUnchecked(s, o) == Append(s, o)

\* AddObserver: appends o unless it is already registered.
RegistryAdd(s, o) == IF o \in Range(s) THEN s ELSE Append(s, o)

\* RemoveObserver: drops o, keeping the order of the others.
RegistryRemove(s, o) ==
    IF o \in Range(s)
    THEN [i \in 1..Len(s) - 1 |-> IF i < IndexOf(s, o) THEN s[i] ELSE s[i + 1]]
    ELSE s

-----------------------------------------------------------------------------
(* The result of BluetoothInterfaceImpl::Initialize: which step failed.    *)
(* NoModule: dlopen failed; NoSymbol: dlsym failed (the handle is closed); *)
(* InitFailed: init() returned an error; CalloutsFailed: set_os_callouts() *)
(* returned an error.  Without DYNAMIC_LOAD_BLUETOOTH the interface is the *)
(* statically linked bluetoothInterface and loading cannot fail.          *)
InitResults ==
    IF DynamicLoad
    THEN {"NoModule", "NoSymbol", "InitFailed", "CalloutsFailed", "Ok"}
    ELSE {"InitFailed", "CalloutsFailed", "Ok"}

\* dlopen succeeded and its handle is kept (it is closed only when dlsym fails).
KeepsLibrary(r) == DynamicLoad /\ r \in {"InitFailed", "CalloutsFailed", "Ok"}

\* Faulty variant: the destructor does not call cleanup() when init()
\* succeeded but set_os_callouts() failed.
HalUpAfterInitNoCleanup(r) == r \in {"CalloutsFailed", "Ok"}

\* Whether the native module is initialized once Initialize returns: on
\* failure the unique_ptr deletes the impl, whose destructor calls cleanup()
\* whenever hal_iface_ was set.
HalUpAfterInit(r) == r = "Ok"

-----------------------------------------------------------------------------
Init ==
    /\ g = Null
    /\ created = 0
    /\ freed = {}
    /\ fakes = {}
    /\ observers = [i \in Instances |-> << >>]
    /\ readers = {}
    /\ cbPc = [t \in CbThreads |-> "idle"]
    /\ cbInst = [t \in CbThreads |-> Null]
    /\ cbPending = [t \in CbThreads |-> << >>]
    /\ appPc = [a \in AppThreads |-> "idle"]
    /\ appOp = [a \in AppThreads |-> "add"]
    /\ appObs = [a \in AppThreads |-> CHOOSE o \in Observers : TRUE]
    /\ appPtr = [a \in AppThreads |-> Null]
    /\ halUp = FALSE
    /\ libRefs = 0
    /\ inits = 0
    /\ aborted = FALSE
    /\ registered = {}
    /\ uaf = FALSE

\* Once a CHECK has failed the process is gone: no thread takes a step.
Running == ~aborted

\* A CHECK failed: the process aborts.
Abort ==
    /\ aborted' = TRUE
    /\ UNCHANGED <<fakes, g, created, freed, observers, readers, cbPc, cbInst,
                   cbPending, appPc, appOp, appObs, appPtr, halUp, libRefs,
                   inits, registered, uaf>>

-----------------------------------------------------------------------------
(* Lifecycle: BluetoothInterface::Initialize and CleanUp take the lock     *)
(* exclusively, so they wait until no thread holds it shared.             *)

\* Faulty variant: Initialize without CHECK(!g_bluetooth_interface).
InitializeUnchecked(a) ==
    /\ Running /\ appPc[a] = "idle" /\ readers = {}
    /\ inits < MaxInits
    /\ inits' = inits + 1
    /\ \E r \in InitResults :
          /\ libRefs' = IF KeepsLibrary(r) THEN libRefs + 1 ELSE libRefs
          /\ halUp' = HalUpAfterInit(r)
          /\ IF r = "Ok"
             THEN /\ created' = created + 1
                  /\ g' = created + 1
             ELSE UNCHANGED <<fakes, created, g>>
    /\ UNCHANGED <<fakes, freed, observers, readers, cbPc, cbInst, cbPending, appPc,
                   appOp, appObs, appPtr, aborted, registered, uaf>>

\* Initialize while uninitialized: load the module, init(), set_os_callouts();
\* publish a new instance only when all three succeed.
Initialize(a) ==
    /\ Running /\ appPc[a] = "idle" /\ readers = {}
    /\ inits < MaxInits
    /\ g = Null
    /\ inits' = inits + 1
    /\ \E r \in InitResults :
          /\ libRefs' = IF KeepsLibrary(r) THEN libRefs + 1 ELSE libRefs
          /\ halUp' = HalUpAfterInit(r)
          /\ IF r = "Ok"
             THEN /\ created' = created + 1
                  /\ g' = created + 1
             ELSE UNCHANGED <<fakes, created, g>>
    /\ UNCHANGED <<fakes, freed, observers, readers, cbPc, cbInst, cbPending, appPc,
                   appOp, appObs, appPtr, aborted, registered, uaf>>

\* Initialize while initialized: CHECK(!g_bluetooth_interface) fails.
InitializeTwice(a) ==
    /\ Running /\ appPc[a] = "idle" /\ readers = {}
    /\ g # Null
    /\ Abort

\* InitializeForTesting(test_instance) while uninitialized: the test double
\* is published as it is; no module is loaded or initialized.  Called while
\* initialized, its CHECK(!g_bluetooth_interface) fails as in
\* InitializeTwice.
InitializeForTesting(a) ==
    /\ Running /\ appPc[a] = "idle" /\ readers = {}
    /\ inits < MaxInits
    /\ g = Null
    /\ inits' = inits + 1
    /\ created' = created + 1
    /\ g' = created + 1
    /\ fakes' = fakes \cup {created + 1}
    /\ UNCHANGED <<freed, observers, readers, cbPc, cbInst, cbPending, appPc,
                   appOp, appObs, appPtr, halUp, libRefs, aborted, registered,
                   uaf>>

\* Faulty variant: CleanUp taking the lock shared instead of exclusively.
CleanUpShared(a) ==
    /\ Running /\ appPc[a] = "idle"
    /\ g # Null
    /\ halUp' = FALSE
    /\ freed' = freed \cup {g}
    /\ g' = Null
    /\ UNCHANGED <<fakes, created, observers, readers, cbPc, cbInst, cbPending, appPc,
                   appOp, appObs, appPtr, libRefs, inits, aborted, registered,
                   uaf>>

\* Faulty variant: the instance is deleted but the pointer is not reset.
CleanUpNoReset(a) ==
    /\ Running /\ appPc[a] = "idle" /\ readers = {}
    /\ g # Null
    /\ halUp' = FALSE
    /\ freed' = freed \cup {g}
    /\ UNCHANGED <<fakes, g, created, observers, readers, cbPc, cbInst, cbPending,
                   appPc, appOp, appObs, appPtr, libRefs, inits, aborted,
                   registered, uaf>>

\* CleanUp: delete the instance (its destructor calls the module's cleanup())
\* and reset the pointer.
CleanUp(a) ==
    /\ Running /\ appPc[a] = "idle" /\ readers = {}
    /\ g # Null
    /\ halUp' = FALSE
    /\ freed' = freed \cup {g}
    /\ g' = Null
    /\ UNCHANGED <<fakes, created, observers, readers, cbPc, cbInst, cbPending, appPc,
                   appOp, appObs, appPtr, libRefs, inits, aborted, registered,
                   uaf>>

\* CleanUp while uninitialized: CHECK(g_bluetooth_interface) fails.
CleanUpUninitialized(a) ==
    /\ Running /\ appPc[a] = "idle" /\ readers = {}
    /\ g = Null
    /\ Abort

-----------------------------------------------------------------------------
(* Registration, as a client does it: IsInitialized(), then Get(), then    *)
(* AddObserver or RemoveObserver on the returned pointer.  Each call takes *)
(* the lock shared on its own; nothing holds it from one call to the next. *)

\* IsInitialized() answered true; the client goes on to call Get().
IsInitialized(a) ==
    /\ Running /\ appPc[a] = "idle"
    /\ g # Null
    /\ \E op \in {"add", "remove"}, o \in Observers :
          /\ appOp' = [appOp EXCEPT ![a] = op]
          /\ appObs' = [appObs EXCEPT ![a] = o]
    /\ appPc' = [appPc EXCEPT ![a] = "get"]
    /\ UNCHANGED <<fakes, g, created, freed, observers, readers, cbPc, cbInst,
                   cbPending, appPtr, halUp, libRefs, inits, aborted,
                   registered, uaf>>

\* Get(): returns g_bluetooth_interface, which the client keeps after the
\* shared lock is released.
Get(a) ==
    /\ Running /\ appPc[a] = "get"
    /\ g # Null
    /\ appPtr' = [appPtr EXCEPT ![a] = g]
    /\ appPc' = [appPc EXCEPT ![a] = appOp[a]]
    /\ UNCHANGED <<fakes, g, created, freed, observers, readers, cbPc, cbInst,
                   cbPending, appOp, appObs, halUp, libRefs, inits, aborted,
                   registered, uaf>>

\* Get() while uninitialized: CHECK(g_bluetooth_interface) fails.
GetUninitialized(a) ==
    /\ Running /\ appPc[a] = "get"
    /\ g = Null
    /\ Abort

\* AddObserver / RemoveObserver on the pointer Get returned.  When that
\* instance has been deleted the call runs on freed memory: it is recorded
\* and has no other effect.
ChangeRegistration(a, op, Update(_, _)) ==
    /\ LET p == appPtr[a]
           o == appObs[a]
       IN  IF p \in freed
           THEN /\ uaf' = TRUE
                /\ UNCHANGED <<fakes, observers, registered>>
           ELSE /\ observers' = [observers EXCEPT ![p] = Update(@, o)]
                /\ registered' = IF op = "add" THEN registered \cup {o}
                                               ELSE registered \ {o}
                /\ UNCHANGED uaf
    /\ appPc' = [appPc EXCEPT ![a] = "idle"]
    /\ appPtr' = [appPtr EXCEPT ![a] = Null]
    /\ UNCHANGED <<fakes, g, created, freed, readers, cbPc, cbInst, cbPending, appOp,
                   appObs, halUp, libRefs, inits, aborted>>

AddObserver(a) ==
    /\ Running /\ appPc[a] = "add"
    /\ ChangeRegistration(a, "add", RegistryAdd)

RemoveObserver(a) ==
    /\ Running /\ appPc[a] = "remove"
    /\ ChangeRegistration(a, "remove", RegistryRemove)

-----------------------------------------------------------------------------
(* Dispatch entries.  Each forwarding entry takes the lock shared, returns *)
(* at once when g_bluetooth_interface is null (a dropped late callback: no *)
(* state changes, so no step), and otherwise calls every observer of the   *)
(* instance in order.  AclStateChangedCallback also CHECKs its address.   *)
(* The no-op entries (ThreadEvent, AddressConsolidate, LeAddressAssociate) *)
(* change nothing.                                                         *)

\* Lock taken shared, VERIFY_INTERFACE_OR_RETURN passed: the fan-out starts
\* over the observers registered now.
DispatchEnter(t) ==
    /\ Running /\ cbPc[t] = "idle"
    /\ g # Null
    /\ readers' = readers \cup {t}
    /\ cbPc' = [cbPc EXCEPT ![t] = "fanout"]
    /\ cbInst' = [cbInst EXCEPT ![t] = g]
    /\ cbPending' = [cbPending EXCEPT ![t] = observers[g]]
    /\ UNCHANGED <<fakes, g, created, freed, observers, appPc, appOp, appObs, appPtr,
                   halUp, libRefs, inits, aborted, registered, uaf>>

\* AclStateChangedCallback with remote_bd_addr == nullptr: CHECK fails.
AclNullAddress(t) ==
    /\ Running /\ cbPc[t] = "idle"
    /\ g # Null
    /\ Abort

\* One observer of the fan-out is called.
DispatchNotify(t) ==
    /\ Running /\ cbPc[t] = "fanout"
    /\ cbPending[t] # << >>
    /\ cbPending' = [cbPending EXCEPT ![t] = Tail(@)]
    /\ UNCHANGED <<fakes, g, created, freed, observers, readers, cbPc, cbInst, appPc,
                   appOp, appObs, appPtr, halUp, libRefs, inits, aborted,
                   registered, uaf>>

\* The fan-out is over: the shared lock is released on return.
DispatchExit(t) ==
    /\ Running /\ cbPc[t] = "fanout"
    /\ cbPending[t] = << >>
    /\ readers' = readers \ {t}
    /\ cbPc' = [cbPc EXCEPT ![t] = "idle"]
    /\ UNCHANGED <<fakes, g, created, freed, observers, cbInst, cbPending, appPc,
                   appOp, appObs, appPtr, halUp, libRefs, inits, aborted,
                   registered, uaf>>

-----------------------------------------------------------------------------
AppStep(a) ==
    \/ Initialize(a) \/ InitializeTwice(a) \/ InitializeForTesting(a)
    \/ CleanUp(a) \/ CleanUpUninitialized(a)
    \/ IsInitialized(a) \/ Get(a) \/ GetUninitialized(a)
    \/ AddObserver(a) \/ RemoveObserver(a)

CbStep(t) ==
    \/ DispatchEnter(t) \/ AclNullAddress(t)
    \/ DispatchNotify(t) \/ DispatchExit(t)

Next ==
    \/ \E a \in AppThreads : AppStep(a)
    \/ \E t \in CbThreads : CbStep(t)

Spec == Init /\ [][Next]_vars

-----------------------------------------------------------------------------
(* Properties *)

\* Type invariant; in particular every observer list holds each observer
\* at most once.
TypeOK ==
    /\ g \in {Null} \cup Instances
    /\ created \in 0..MaxInits
    /\ freed \subseteq Instances
    /\ fakes \subseteq Instances
    /\ observers \in [Instances -> ObserverLists]
    /\ readers \subseteq CbThreads
    /\ cbPc \in [CbThreads -> {"idle", "fanout"}]
    /\ cbInst \in [CbThreads -> {Null} \cup Instances]
    /\ cbPending \in [CbThreads -> Seq(Observers)]
    /\ appPc \in [AppThreads -> {"idle", "get", "add", "remove"}]
    /\ appOp \in [AppThreads -> {"add", "remove"}]
    /\ appObs \in [AppThreads -> Observers]
    /\ appPtr \in [AppThreads -> {Null} \cup Instances]
    /\ halUp \in BOOLEAN
    /\ libRefs \in Nat
    /\ inits \in 0..MaxInits
    /\ aborted \in BOOLEAN
    /\ registered \subseteq Observers
    /\ uaf \in BOOLEAN

\* A dispatch entry in its fan-out (having read g_bluetooth_interface under
\* the shared lock) always works on the published, live instance: CleanUp
\* and Initialize never run while a dispatch entry iterates its observers.
DispatchSafe ==
    \A t \in CbThreads :
        cbPc[t] = "fanout" => cbInst[t] = g /\ g # Null

\* At most one BluetoothInterfaceImpl is alive, and it is the published one:
\* every instance ever published other than g has been deleted (no second
\* Initialize leaks the first binding).
SingleBinding ==
    \A i \in 1..created : i \notin freed => i = g

\* The native module is initialized exactly while a production binding is
\* published: a failed Initialize leaves it cleaned up, CleanUp cleans it
\* up, and a test double published by InitializeForTesting has no module.
HalMatchesBinding == halUp <=> (g # Null /\ g \notin fakes)

-----------------------------------------------------------------------------
(* The lifecycle the singleton promises (HalLifecycle), seen through the   *)
(* binding: Ready while g_bluetooth_interface is set, the handle being the *)
(* published instance, retired handles the deleted instances.              *)

LifecycleState ==
    IF aborted THEN "Aborted" ELSE IF g = Null THEN "Uninitialized" ELSE "Ready"

Lifecycle == INSTANCE HalLifecycle
                WITH state <- LifecycleState, handle <- g,
                     retired <- freed, moduleUp <- halUp

\* The binding implements the lifecycle: every step of the code is a step of
\* HalLifecycle or changes none of its state.  Initialize publishes a handle
\* never published before only on full success, CleanUp retires exactly the
\* live handle and resets the pointer, and a failed Initialize, a
\* registration or a callback leaves the lifecycle where it was.
ImplementsLifecycle == Lifecycle!Spec

-----------------------------------------------------------------------------
(* Claims of the spec that the code does not keep (checked for violation). *)

\* Section 8, concurrent stress scenario: while one thread toggles
\* Initialize/CleanUp and others add and remove observers, no method ever
\* runs on a freed BluetoothInterfaceImpl.  Clients reach AddObserver and
\* RemoveObserver through the pointer Get() returns after dropping the lock.
NoUseAfterFree == ~uaf

\* Section 4.2: AddObserver/RemoveObserver are valid in any state and take
\* effect on delivery once Ready: an observer whose registration completed
\* and was not withdrawn is in the list the published binding fans out to.
RegistrationPersists ==
    g # Null => registered \subseteq Range(observers[g])

\* Sections 7 and 8: an Initialize that fails after loading the module
\* releases it before returning; only successful Initialize calls keep a
\* dlopen reference to libbluetooth.so.
FailedInitReleasesModule == libRefs <= created

=============================================================================
