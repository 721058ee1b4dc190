# Verification of the Bluetooth HAL binding

This directory holds TLA+ models of `src/system/service/hal/bluetooth_interface.cc`, the
layer that loads the native Bluetooth module, publishes one process-wide
`BluetoothInterface`, and forwards callbacks from the module's threads to the
registered observers. `src/system/gd/storage/mutation.h` is listed and left out (section 6). It has TLC configurations that model-check the models on
small instances, and TLAPS proofs of the main safety properties for every value
of the constants.

## 1. Inventory

### Components

| Component | Code | State | Operations |
|---|---|---|---|
| HAL Binding Singleton | `bluetooth_interface.cc` 50-57, 323-393, 480-527 | `g_bluetooth_interface` (null or the live `BluetoothInterfaceImpl`), `g_instance_lock` (a `shared_timed_mutex`), each instance's `hal_iface_` and `observers_` | `Initialize`, `CleanUp`, `IsInitialized`, `Get`, `InitializeForTesting`, `AddObserver`, `RemoveObserver`, the impl's constructor, destructor and `Initialize` |
| Module Loader | 277-319 | the `dlopen` handle (never closed after a successful `dlsym`) | `hal_util_load_bt_library_from_dlib` (a static link when `DYNAMIC_LOAD_BLUETOOTH` is off) |
| Callback Dispatch Table | 59-271, 395-403 | none of its own: it reads `g_bluetooth_interface` and the observer list | 11 forwarding entries, `AclStateChangedCallback` (with a `CHECK` on its address), 3 no-op entries |
| Observer Registry | `btbase::AbstractObserverList`, not in this repository | an ordered list of observers, one per `BluetoothInterfaceImpl` | add, remove, iteration |
| OS callouts | 189-213, 273-275 | none | stubs returning constants |
| Fake HAL interface | `fake_bluetooth_interface.h` | declaration only | none in this repository; `InitializeForTesting` publishes one |
| Volume Control API | `bta/include/bta_vc_api.h` | pure interface | none in this repository |
| Storage Mutation | `gd/storage/mutation.h` | a queue of entries | constructor (`ASSERT` on the cache), `Add`, `Commit` (hands the queue to `ConfigCache`, not in this repository); not modelled |

### How they interact

Application threads call the static lifecycle API. `Initialize` takes
`g_instance_lock` exclusively, `CHECK`s that nothing is published yet, and
creates a `BluetoothInterfaceImpl`. The impl loads the module, calls
`init(&bt_callbacks, …)` and then `set_os_callouts`. The impl is published only
when all three succeed. Otherwise the `unique_ptr` deletes it, and the
destructor calls the module's `cleanup()` whenever `hal_iface_` was set.
`CleanUp` takes the lock exclusively, `CHECK`s that a binding is published,
deletes it (the destructor calls `cleanup()`), and resets the pointer.

The native module calls the dispatch entries on its own threads. Each
forwarding entry takes the lock shared. It returns at once if the pointer is
null. Otherwise it iterates the observer list of the published instance and
calls one observer method per element. The lock is released on return.

Clients register through `Get()->AddObserver(o)`. `Get` takes the lock shared,
`CHECK`s the pointer, and returns it after releasing the lock.
`AddObserver`/`RemoveObserver` take the lock shared again, then change that
instance's `observers_`.

### What is hard

* **Concurrency.** Module threads run dispatch entries concurrently with the
  lifecycle and with registration. Correctness rests on the reader/writer
  discipline: exclusive sections never overlap a fan-out. Registration holds the
  lock only shared, so it overlaps fan-outs and relies on the list's own
  synchronization.
* **Lifetime.** `Get` hands out a raw pointer with no lifetime guarantee.
  Observer lists belong to an instance and die with it.
* **Partial failure.** `Initialize` can fail at four points. Each one must
  leave the module cleaned up and nothing published.
* **Aborts.** Double `Initialize`, `CleanUp` or `Get` while uninitialized, and a
  null ACL address from the module all end the process through `CHECK`.
* **Deadlock and starvation.** Writers wait for readers. The module's
  `cleanup()` runs under the exclusive lock. An observer may call back into the
  binding from inside a fan-out.

### What makes each component correct

* Singleton: at most one live binding, and it is the published one. A failed
  `Initialize` leaves nothing published, the module cleaned up and nothing
  loaded. Lifecycle misuse aborts.
* Dispatch: no fan-out ever touches an instance that `CleanUp` deleted. A
  callback while uninitialized calls no observer. Every callback returns.
* Registry: it stays duplicate-free. Notification follows registration order.
  A removed observer is not called by a pass that starts after the removal.
* Lifecycle plus clients: no method runs on a deleted instance.

The hazards in `PROJECT.json` list, at the line where each bites, what is hard
to test here. Each one names the properties that cover it or says why none does
yet.

## 2. The model

### `HalBinding.tla`: singleton, loader, dispatch and registry

**Constants.**

| Constant | Meaning |
|---|---|
| `CbThreads` | the module's threads |
| `AppThreads` | application threads |
| `Observers` | observer objects |
| `MaxInits` | bound on `Initialize` calls |
| `DynamicLoad` | the `#ifdef` that selects `dlopen` |

`ConstantsAssumption` asks for `MaxInits \in Nat`, disjoint thread sets and a
non-empty observer set.

**State.**

| Variable | Code it stands for |
|---|---|
| `g` | `g_bluetooth_interface`. Instances are numbered `1..MaxInits`; `Null = 0`. |
| `created`, `freed` | the impls that were published, and the ones `CleanUp` deleted |
| `observers[i]` | `observers_` of instance `i` |
| `readers` | threads holding `g_instance_lock` shared across steps (fan-outs) |
| `cbPc`, `cbInst`, `cbPending` | a dispatch thread's position, its instance, and the observers still to call |
| `appPc`, `appOp`, `appObs`, `appPtr` | a client in the middle of IsInitialized → Get → Add/RemoveObserver |
| `halUp` | the native module is initialized |
| `libRefs` | the `dlopen` reference count |
| `inits` | the bound counter |
| `aborted` | a `CHECK` failed |
| `fakes` | instances published by `InitializeForTesting` (test doubles) |
| `registered`, `uaf` | history variables used only by the properties |

**Actions.** There is one per operation and per path through it:

* `Initialize` with all its results drawn from `InitResults`, and
  `InitializeTwice` for the `CHECK`;
* `InitializeForTesting`, which publishes a test double without loading or
  initializing the module (its `CHECK(!g_bluetooth_interface)` failure is
  `InitializeTwice`; a null `test_instance` is a caller bug not modelled);
* `CleanUp`, and `CleanUpUninitialized` for the `CHECK`;
* `IsInitialized` (true answer);
* `Get`, and `GetUninitialized` for the `CHECK`;
* `AddObserver` and `RemoveObserver`, through `ChangeRegistration`;
* `DispatchEnter`, `DispatchNotify` and `DispatchExit` for a forwarding entry,
  and `AclNullAddress` for the `CHECK` of `AclStateChangedCallback`.

**Granularity.** An exclusive section (`Initialize`, `CleanUp`) is one step
guarded by `readers = {}`. While it holds the lock no other thread can touch
the guarded state, so the step is atomic with respect to everything the model
observes. A short shared section (`IsInitialized`, `Get`, `AddObserver`,
`RemoveObserver`) is one step too. A fan-out holds the lock shared across one
step per observer, so registration and other fan-outs can interleave with it.

**Steps that change nothing.** A dropped late callback changes no state, and
neither do the no-op entries (`ThreadEventCallback`,
`AddressConsolidateCallback`, `LeAddressAssociateCallback`) or the OS callouts.
None of them is an action.

**Aborts.** A `CHECK` failure sets `aborted`, after which no thread moves. This
is why the configurations say `CHECK_DEADLOCK FALSE`.

**Use after free.** The client keeps the pointer `Get` returned. If the
instance was deleted meanwhile, `AddObserver`/`RemoveObserver` run on freed
memory. This is undefined behaviour, and the model records it in `uaf` and
leaves the lists alone.

**The observer list.** Its code is not in the repository, so it is modelled
from the spec (marked `spec_modelled` in the map): `RegistryAdd` appends an
observer that is not yet present, and `RegistryRemove` drops one and keeps the
order. A fan-out iterates a snapshot taken when it starts.

### Properties

| Property | Statement | Why it is not by construction |
|---|---|---|
| `TypeOK` | the type invariant; observer lists are duplicate-free | `RegistryAdd` must check for presence |
| `DispatchSafe` | a thread in its fan-out works on `g`, and `g` is not null | needs `CleanUp` to wait for readers: a `CleanUp` taking the lock shared breaks it |
| `SingleBinding` | every published instance other than `g` has been deleted | needs the `CHECK(!g_bluetooth_interface)` |
| `HalMatchesBinding` | `halUp <=> (g # Null /\ g \notin fakes)`: the module is up exactly while a production binding is published | needs the destructor's `cleanup()` on every failure after `hal_iface_` is set |
| `ImplementsLifecycle` | `HalBinding` implements the abstract `HalLifecycle` | needs `CleanUp` to reset the pointer and retire the instance |
| `NoUseAfterFree` | §8 of the spec: no method on a freed binding | checked for violation |
| `RegistrationPersists` | §4.2: registrations survive to the published binding | checked for violation |
| `FailedInitReleasesModule` | §7/§8: a failed native init releases the module | checked for violation |

### `HalLifecycle.tla`: what the singleton promises

The abstract lifecycle of spec §4.2, without threads or locks. Its variables
are `state` (`Uninitialized`, `Ready` or `Aborted`), the live `handle`, the
`retired` handles and `moduleUp`. Its actions are:

* `InitializeOk`: a fresh handle that was never retired, and the module up;
* `InstallTestDouble`: a fresh handle, and the module left alone;
* `CleanUp`: the handle is retired and the module goes down;
* `Abort`: from any live state.

A failed `Initialize`, a registration and a callback are stutters.
`HalBinding` maps onto it through `LifecycleState` (`Aborted` when `aborted`,
else `Uninitialized` when `g = Null`, else `Ready`), `handle <- g`,
`retired <- freed` and `moduleUp <- halUp`. `ImplementsLifecycle` is
`Lifecycle!Spec` under that mapping.

### `HalLock.tla`: `g_instance_lock` made explicit

`HalLock` EXTENDS `HalBinding`. Each of its steps is a `HalBinding` action
conjoined with lock bookkeeping, or it leaves `HalBinding`'s variables alone.
A lifecycle call has three steps:

1. the call (`CallInitialize`, `CallInitializeForTesting`, `CallCleanUp`);
2. the wait in `unique_lock` (`AcquireExclusive`, granted when there is no
   owner and no reader);
3. the locked body (`LockedInitialize` and the others), which releases the
   lock.

`LockedCleanUp` deletes the published instance. Only a `BluetoothInterfaceImpl`
has a destructor that calls the module's `cleanup()` (331-333), so only then
must `cleanup()` return before the body can finish
(`g \notin fakes => ModuleCleanupReturns`). A test double's destructor is
defaulted (`fake_bluetooth_interface.h:49`) and calls nothing.

A dispatch entry also has steps: the module's call (`Callback`), the wait in
`shared_lock`, then entering the fan-out (`LockedDispatchEnter`) or returning
early (`DispatchDropped`). Then come the notifications and the exit. Short
shared sections are granted by `SharedFree`.

**Constants.**

| Constant | Meaning |
|---|---|
| `WriterPriority` | which lock the build gets (lines 35-39). TRUE: `std::shared_timed_mutex` of libc++, or of libstdc++ without pthread rwlocks; a waiting writer blocks new readers. FALSE: libstdc++ over a glibc `pthread_rwlock_t`, which lets readers in past a waiting writer. |
| `CleanupJoins` | the native module's `cleanup()` waits until none of its threads is inside a dispatch entry. The module is not in this repository; both behaviours are possible. |
| `ReentrantObservers` | an observer calls back into the binding (`Get`, `IsInitialized`, `AddObserver`) from inside a notification. That call takes the shared lock on a thread that already holds it. |

**Fairness** (`LockFairness`). Weak fairness covers only steps that are already
under way:

* a waiting `unique_lock` or `shared_lock` that stays grantable;
* a locked body;
* a notification, a nested call, and the exit of a fan-out.

The application and the native module get no fairness. Nothing obliges them to
call anything, so `Call*`, `Callback`, `LockedIsInitialized` and the
registration steps are unfair. Starvation under reader preference is therefore
a real effect of the lock's policy: a waiting writer is enabled only
intermittently, and weak fairness does not help it.

**Properties.**

| Property | Statement |
|---|---|
| `LockTypeOK` | type invariant, with at most one exclusive owner |
| `LifecycleCallsReturn` | every `Initialize`, `InitializeForTesting` or `CleanUp` call returns, or the process aborts (§5: the exclusive acquisition is a barrier that completes) |
| `CallbacksReturn` | every dispatch entry the module calls returns to it, or the process aborts |
| `CheckedGetSucceeds` | §4.2: a client that checks `IsInitialized` first does not abort in `Get` |

## 3. Runs

| Run | Module / cfg | Expect | Result |
|---|---|---|---|
| core | `MCHalBinding` / `MCHalBinding.cfg` | pass | about 1.6M distinct states, about 30 s |
| refines_lifecycle | `MCHalBinding` / `MCHalBinding_Lifecycle.cfg` | pass | same state space; `ImplementsLifecycle` holds |
| use_after_free_via_get | `MCHalBinding_NoUseAfterFree.cfg` | violation | Initialize, IsInitialized, Get, CleanUp, AddObserver on the stale pointer |
| registrations_lost_on_reinit | `MCHalBinding_RegistrationPersists.cfg` | violation | register o1, CleanUp, Initialize |
| module_kept_after_failed_init | `MCHalBinding_FailedInitReleasesModule.cfg` | violation | one Initialize whose `init()` fails |
| lock_progress | `MCHalLock` / `MCHalLock.cfg` | pass | writer priority, no joining cleanup, no re-entrant observers: 47k states; every call and callback returns |
| reentrant_reader_preference | `MCHalLock_ReaderPreference.cfg` | pass | reader preference and re-entrant observers: 70k states, every callback returns |
| writer_starvation | `MCHalLock_WriterStarvation.cfg` | violation | reader preference: c1 and c2 take turns holding the lock shared, and `CleanUp` is never granted |
| reentrant_deadlock | `MCHalLock_ReentrantDeadlock.cfg` | violation | writer priority: c1 fans out, a1 waits for `CleanUp`, o1 calls back and blocks behind a1 |
| cleanup_join_deadlock | `MCHalLock_CleanupJoinDeadlock.cfg` | violation | a production `Initialize` succeeds; `CleanUp` is granted the lock while a callback waits in `shared_lock`, and the impl's destructor calls `cleanup()`, which waits for that callback |
| checked_get_race | `MCHalLock_CheckedGet.cfg` | violation | one client's `IsInitialized` is true, another thread's `CleanUp` runs, the client's `Get` aborts |

**Bounds.**

* `MCHalBinding`: 2 module threads, 2 application threads, 2 observers,
  `MaxInits = 2`, `DynamicLoad = TRUE`, with symmetry over each thread set.
  Observers are not symmetric, because `Init` picks one as the client's
  argument.
  * Two threads of each kind make every pairwise race possible.
  * Two observers make order, duplicates and mid-list removal visible.
  * `MaxInits = 2` allows Initialize → CleanUp → Initialize, and a test double
    after a production binding.
* `MCHalLock`: 2 module threads, 2 application threads, 1 observer,
  `MaxInits = 1`, `DynamicLoad = FALSE`, and no symmetry, because liveness is
  checked.
  * Two module threads are what starvation needs: their shared sections
    overlap.
  * One call of each lifecycle operation is enough to wait on the lock.
  * The loader's outcomes are covered by the core run and do not affect
    waiting.
Every action of every module adds distinct states in a passing run.

**Mutants.** Each property of a passing run has a mutant: a plausible bug,
defined in the module, that TLC catches.

| Property | Mutant |
|---|---|
| `TypeOK` | `RegistryAddUnchecked`: add without the presence check |
| `DispatchSafe` | `CleanUpShared`: `CleanUp` under a shared lock |
| `SingleBinding` | `InitializeUnchecked`: the `CHECK` dropped |
| `HalMatchesBinding` | `HalUpAfterInitNoCleanup`: the destructor forgets `cleanup()` after a callout failure |
| `ImplementsLifecycle` | `CleanUpNoReset`: the pointer is not reset after `delete` |
| `LockTypeOK` | `AcquireExclusiveUnchecked`: `unique_lock` granted while another thread owns the lock |
| `CallbacksReturn` | `LockedInitializeLeaksLock`: a successful `Initialize` keeps the lock (both passing lock runs) |
| `LifecycleCallsReturn` | `DispatchDroppedNoRelease`: the early return of `VERIFY_INTERFACE_OR_RETURN` keeps the shared lock |

## 4. Proofs

**`HalBindingProofs.tla`.** The proofs use only `ConstantsAssumption`. They hold
for any sizes of the thread and observer sets and any `MaxInits`.

* `RegistryAddType` and `RegistryRemoveType` are lemmas: both operations keep a
  list duplicate-free.
* `TypeCorrect`: `Spec => []TypeOK`. It goes through `TypeInv`, which adds two
  facts to `TypeOK`:
  * `created <= inits`: the next instance number is in range;
  * a client about to call `AddObserver`/`RemoveObserver` holds a non-null
    pointer.
* `DispatchSafety`, `SingleBindingHolds` and `HalMatchesBindingHolds` prove
  `DispatchSafe`, `SingleBinding` and `HalMatchesBinding` as `Spec => []P`.
  All three follow from the inductive invariant `IInv`:
  * `TypeInv`;
  * `g \in 0..created` and `freed = (1..created) \ {g}`;
  * `fakes \subseteq 1..created`;
  * a dispatch thread is in `readers` exactly while it fans out;
  * every reader's `cbInst` is `g`, and `g # Null`;
  * `halUp <=> (g # Null /\ g \notin fakes)`.

  The link between `readers` and the fan-out makes `IInv` inductive: the
  exclusive steps require `readers = {}`, so they cannot change `g` under a
  fan-out. TLC checked `IInv` as an invariant before it was proved.
* `Refinement`: `Spec => ImplementsLifecycle`.
  * `NextRefines` proves that every `HalBinding` step from an `IInv` state is
    a `HalLifecycle` step or a stutter, with one step per action.
  * `Initialize`'s success is `InitializeOk`. The fresh handle is
    `created + 1`, not retired because `freed \subseteq 1..created`.
  * `InitializeForTesting` is `InstallTestDouble`, `CleanUp` is `CleanUp`, and
    every `CHECK` failure is `Abort`.
  * Everything else leaves `g`, `freed`, `halUp` and `aborted` unchanged
    (lemma `LifecycleStutter`).

**`HalLockProofs.tla`.** These use `ConstantsAssumption` only. The lock
constants are Booleans and the proofs do not depend on their values, so they
hold for every lock policy and every collaborator behaviour.

* `LockRefinesBinding`: `LockSpec => Spec`. Each lock step is a `HalBinding`
  step or leaves its variables unchanged (`LockNextRefines`).
* `LockDispatchSafety`: `DispatchSafe` holds with the explicit lock. It follows
  from `LockRefinesBinding` and `DispatchSafety`.
* `LockImplementsLifecycle`: the two refinements compose.
* `LockTypeCorrect`: `LockSpec => []LockTypeOK`. The lock's own variables
  are typed by the inductive `LockVarsType`: `AcquireExclusive` requires
  `owner = {}`, so there is never more than one owner. `TypeOK` comes from
  `HalBinding` through the refinement.

**Left to TLC.**

* The liveness properties (`LifecycleCallsReturn`, `CallbacksReturn`): the
  prover does not handle fairness or `ENABLED`.
* The violation properties.

## 5. Plan

Done:

1. `HalBinding` with the core run and four proved invariants.
2. `InitializeForTesting` and the `fakes` set.
3. `HalLifecycle`, with the refinement checked and proved.
4. `HalLock`, with the lock policies, joining cleanup, re-entrant observers,
   liveness runs, four violation runs and the refinement to `HalBinding`
   proved.
5. Proofs of every safety property of the passing runs: `LockTypeOK`, and
   the composed refinement of the lock model to the lifecycle.

Next:

* Observer-list lemmas about order: notification follows registration order,
  and a removed observer is not called by a later pass.
* `CheckedGetSucceeds` for a client that takes the shared lock once across
  both calls. This needs an API change, so it is a design question more than
  a model.

## 6. Not modelled

* OS callouts: constant stubs that no code here calls.
* Fake interface and Volume Control API: declarations only, with no
  implementation in the repository. What the binding does with a test double
  is modelled.
* `storage::Mutation` (`gd/storage/mutation.h`): it only appends entries to
  a queue and hands the queue to `ConfigCache::Commit`. `ConfigCache`, which
  applies and drains the queue, is not in the repository, so nothing
  `Mutation` does beyond forwarding can be checked against code.
* A native module that calls a dispatch entry synchronously from inside
  `init()` (line 365), and an observer that calls `CleanUp` or `Initialize`
  from a fan-out (line 498). Both are a thread waiting for a lock it holds
  itself, under every lock policy, so a run could only restate that.
* Data races inside `btbase::AbstractObserverList`: its code is not in the
  repository.
* Logging and formatting (`VLOG`, `BtStatusText`, …), and callback payloads:
  they do not affect control.
