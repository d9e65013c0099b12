------------------------------ MODULE CodexSlot ------------------------------
(***************************************************************************)
(* The slot every Codex CLI call of a process goes through                 *)
(* (_codex_call_slot of evals/executors/codex_cli.py): a bounded semaphore *)
(* and a cool-down measured from the last call that finished, read under a *)
(* lock and slept outside it.                                              *)
(*                                                                         *)
(* Time is discrete and relative: elapsed is the distance to               *)
(* _CODEX_LAST_FINISHED_AT, saturated at the cool-down, so that no clock   *)
(* grows and nothing needs a bound.                                        *)
(***************************************************************************)
EXTENDS Naturals, FiniteSets

CONSTANTS
    Threads,         \* the worker threads of the process
    MaxConcurrency,  \* _CODEX_MAX_CONCURRENCY
    Cooldown         \* _CODEX_COOLDOWN_SECONDS, in ticks

ASSUME SlotAssumption ==
    /\ IsFiniteSet(Threads)
    /\ MaxConcurrency \in Nat \ {0}
    /\ Cooldown \in Nat

VARIABLES
    slot,       \* where each thread is in the slot
    permits,    \* the semaphore
    elapsed,    \* time since _CODEX_LAST_FINISHED_AT, at most Cooldown
    remaining,  \* what is left of each thread's sleep
    quiet       \* history: time since a call really ended, at most Cooldown

slotVars == <<slot, permits, elapsed, remaining, quiet>>

Outside == "outside"
Inside == {"scheduling", "cooling", "calling", "leaving"}

SlotInit ==
    /\ slot = [t \in Threads |-> Outside]
    /\ permits = MaxConcurrency
    /\ elapsed \in 0 .. Cooldown
    /\ remaining = [t \in Threads |-> 0]
    /\ quiet = Cooldown

Move(t, from, to) ==
    /\ slot[t] = from
    /\ slot' = [slot EXCEPT ![t] = to]

(* Wrong: the semaphore is not waited for.                                 *)
AcquireUnguarded(t) ==
    /\ Move(t, Outside, "scheduling")
    /\ permits' = IF permits > 0 THEN permits - 1 ELSE permits
    /\ UNCHANGED <<elapsed, remaining, quiet>>

Acquire(t) ==
    /\ permits > 0
    /\ permits' = permits - 1
    /\ Move(t, Outside, "scheduling")
    /\ UNCHANGED <<elapsed, remaining, quiet>>

ReadCooldown(t) ==
    /\ Move(t, "scheduling", "cooling")
    /\ remaining' = [remaining EXCEPT ![t] = Cooldown - elapsed]
    /\ UNCHANGED <<permits, elapsed, quiet>>

Enter(t) ==
    /\ remaining[t] = 0
    /\ Move(t, "cooling", "calling")
    /\ UNCHANGED <<permits, elapsed, remaining, quiet>>

(* Wrong: a call's end is not recorded, as on a path without the finally.  *)
LeaveUnrecorded(t) ==
    /\ Move(t, "calling", "leaving")
    /\ quiet' = 0
    /\ UNCHANGED <<permits, remaining, elapsed>>

(* The call ends, however it ends: finally records the time.               *)
Leave(t) ==
    /\ Move(t, "calling", "leaving")
    /\ elapsed' = 0
    /\ quiet' = 0
    /\ UNCHANGED <<permits, remaining>>

(* Wrong: the permit is not given back.                                    *)
ReleaseNothing(t) ==
    /\ Move(t, "leaving", Outside)
    /\ UNCHANGED <<permits, elapsed, remaining, quiet>>

Release(t) ==
    /\ Move(t, "leaving", Outside)
    /\ permits' = permits + 1
    /\ UNCHANGED <<elapsed, remaining, quiet>>

Later(time) == IF time < Cooldown THEN time + 1 ELSE time
Sooner(time) == IF time > 0 THEN time - 1 ELSE time

Tick ==
    /\ elapsed' = Later(elapsed)
    /\ quiet' = Later(quiet)
    /\ remaining' = [t \in Threads |-> Sooner(remaining[t])]
    /\ UNCHANGED <<slot, permits>>

SlotStep(t) ==
    Acquire(t) \/ ReadCooldown(t) \/ Enter(t) \/ Leave(t) \/ Release(t)

SlotNext == Tick \/ \E t \in Threads : SlotStep(t)

SlotSpec == SlotInit /\ [][SlotNext]_slotVars

-----------------------------------------------------------------------------
SlotTypeOK ==
    /\ slot \in [Threads -> Inside \cup {Outside}]
    /\ permits \in 0 .. MaxConcurrency
    /\ elapsed \in 0 .. Cooldown
    /\ remaining \in [Threads -> 0 .. Cooldown]
    /\ quiet \in 0 .. Cooldown

(* Permits and threads inside the slot add up: no permit is lost or handed *)
(* out twice, so never more than MaxConcurrency calls run at a time.       *)
SlotsConserved ==
    Cardinality({t \in Threads : slot[t] # Outside}) + permits = MaxConcurrency

(* "leave recovery time between them" (codex_cli.py:135): a call starts no *)
(* sooner than the cool-down after the end of the one that ended last.     *)
RecoveryBetweenCalls ==
    [][\A t \in Threads : Move(t, "cooling", "calling") => quiet = Cooldown]_slotVars

=============================================================================
