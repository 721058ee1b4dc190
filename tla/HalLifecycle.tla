---------------------------- MODULE HalLifecycle ----------------------------
(***************************************************************************)
(* What the HAL Binding Singleton promises, without locks or threads: it  *)
(* is Uninitialized or Ready; a successful Initialize moves it to Ready    *)
(* with a Binding Handle never used before and the native module up (the  *)
(* test hook InitializeForTesting installs a handle without a module);    *)
(* CleanUp moves it back, retires the handle and takes the module down; a *)
(* fatal assertion (a CHECK) ends the process in any state.  A failed     *)
(* Initialize, a registration and a callback change none of this.         *)
(***************************************************************************)
EXTENDS Naturals

\* The handle of an Uninitialized singleton.
NoHandle == 0

VARIABLES
    state,     \* "Uninitialized", "Ready" or "Aborted"
    handle,    \* the live Binding Handle, NoHandle when Uninitialized
    retired,   \* handles released by CleanUp
    moduleUp   \* the native module is initialized

lifecycleVars == <<state, handle, retired, moduleUp>>

Init ==
    /\ state = "Uninitialized"
    /\ handle = NoHandle
    /\ retired = {}
    /\ moduleUp = FALSE

\* Initialize succeeds: a fresh handle, the module initialized.
InitializeOk ==
    /\ state = "Uninitialized"
    /\ state' = "Ready"
    /\ handle' \in Nat /\ handle' # NoHandle /\ handle' \notin retired
    /\ moduleUp' = TRUE
    /\ UNCHANGED retired

\* InitializeForTesting: a test double becomes the handle; no module.
InstallTestDouble ==
    /\ state = "Uninitialized"
    /\ state' = "Ready"
    /\ handle' \in Nat /\ handle' # NoHandle /\ handle' \notin retired
    /\ UNCHANGED <<retired, moduleUp>>

\* CleanUp: the handle is released and the module cleaned up.
CleanUp ==
    /\ state = "Ready"
    /\ state' = "Uninitialized"
    /\ retired' = retired \cup {handle}
    /\ handle' = NoHandle
    /\ moduleUp' = FALSE

\* A fatal assertion: the process is gone.
Abort ==
    /\ state # "Aborted"
    /\ state' = "Aborted"
    /\ UNCHANGED <<handle, retired, moduleUp>>

Next == InitializeOk \/ InstallTestDouble \/ CleanUp \/ Abort

Spec == Init /\ [][Next]_lifecycleVars

=============================================================================
