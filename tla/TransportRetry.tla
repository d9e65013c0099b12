--------------------------- MODULE TransportRetry ---------------------------
(***************************************************************************)
(* generate_with_transport_retries (evals/executors/retry.py): worker      *)
(* threads that each make one generation, an attempt at a time, through    *)
(* the Codex call slot.  Between attempts a thread sleeps outside the      *)
(* slot; at the end the files of the last attempt are published under the  *)
(* requested names.                                                        *)
(***************************************************************************)
EXTENDS CodexSlot, Sequences

CONSTANTS
    MaxAttempts,  \* max_attempts: the request's transport budget
    Backoff,      \* backoff_seconds, in ticks
    MaxBackoff    \* max_backoff_seconds, in ticks

ASSUME RetryAssumption ==
    /\ MaxAttempts \in Nat \ {0}
    /\ Backoff \in Nat
    /\ MaxBackoff \in Nat

VARIABLES
    stage,      \* "backoff", "call", "publishOutput", "publishTrace", "done"
    wait,       \* what is left of the sleep before the next attempt
    attempts,   \* how each attempt ended
    output,     \* the attempt whose output stands under the requested name
    trace       \* the attempt whose trace does

retryVars == <<stage, wait, attempts, output, trace>>
vars == <<slot, permits, elapsed, remaining, quiet, stage, wait, attempts, output, trace>>

(* What the loop tells apart of GenerationResult: success, a failure kind  *)
(* of RETRYABLE_FAILURES, any other.                                       *)
Kinds == {"success", "retryable", "fatal"}

Init ==
    /\ SlotInit
    /\ stage = [t \in Threads |-> "backoff"]
    /\ wait = [t \in Threads |-> 0]
    /\ attempts = [t \in Threads |-> <<>>]
    /\ output = [t \in Threads |-> 0]
    /\ trace = [t \in Threads |-> 0]

Delay(index) ==
    IF Backoff * 2 ^ (index - 1) < MaxBackoff
    THEN Backoff * 2 ^ (index - 1) ELSE MaxBackoff

(* With a single attempt the executor writes under the requested names.    *)
Wrote(file, t) ==
    IF MaxAttempts = 1 THEN [file EXCEPT ![t] = 1] ELSE file

StartAttempt(t) ==
    /\ stage[t] = "backoff"
    /\ wait[t] = 0
    /\ Acquire(t)
    /\ stage' = [stage EXCEPT ![t] = "call"]
    /\ UNCHANGED <<wait, attempts, output, trace>>

Schedule(t) == (ReadCooldown(t) \/ Enter(t)) /\ UNCHANGED retryVars

CallEnds(t, kind) ==
    /\ Leave(t)
    /\ attempts' = [attempts EXCEPT ![t] = Append(@, kind)]
    /\ output' = Wrote(output, t)
    /\ trace' = Wrote(trace, t)
    /\ UNCHANGED <<stage, wait>>

(* Wrong: one attempt too many.                                            *)
RetryOnceMore(t) ==
    /\ attempts[t][Len(attempts[t])] = "retryable"
    /\ Len(attempts[t]) <= MaxAttempts

TryAgain(t) ==
    /\ attempts[t][Len(attempts[t])] = "retryable"
    /\ Len(attempts[t]) < MaxAttempts

(* generate returns once the slot is free again.                           *)
AttemptReturns(t) ==
    /\ Release(t)
    /\ \/ /\ TryAgain(t)
          /\ stage' = [stage EXCEPT ![t] = "backoff"]
          /\ wait' = [wait EXCEPT ![t] = Delay(Len(attempts[t]))]
       \/ /\ ~TryAgain(t)
          /\ stage' = [stage EXCEPT ![t] = "publishOutput"]
          /\ UNCHANGED wait
    /\ UNCHANGED <<attempts, output, trace>>

(* _publish_attempt.  Its early return for a file that is not there is     *)
(* never taken: whichever way generate returns, both executors have        *)
(* written the output and the trace of the attempt.                        *)
PublishOutput(t) ==
    /\ stage[t] = "publishOutput"
    /\ output' = [output EXCEPT ![t] = Len(attempts[t])]
    /\ stage' = [stage EXCEPT ![t] = "publishTrace"]
    /\ UNCHANGED <<slotVars, wait, attempts, trace>>

(* Wrong: the first attempt's trace is kept.                               *)
PublishFirstTrace(t) ==
    /\ stage[t] = "publishTrace"
    /\ trace' = [trace EXCEPT ![t] = 1]
    /\ stage' = [stage EXCEPT ![t] = "done"]
    /\ UNCHANGED <<slotVars, wait, attempts, output>>

PublishTrace(t) ==
    /\ stage[t] = "publishTrace"
    /\ trace' = [trace EXCEPT ![t] = Len(attempts[t])]
    /\ stage' = [stage EXCEPT ![t] = "done"]
    /\ UNCHANGED <<slotVars, wait, attempts, output>>

TimePasses ==
    /\ Tick
    /\ wait' = [t \in Threads |-> Sooner(wait[t])]
    /\ UNCHANGED <<stage, attempts, output, trace>>

ThreadStep(t) ==
    \/ StartAttempt(t) \/ Schedule(t) \/ AttemptReturns(t)
    \/ PublishOutput(t) \/ PublishTrace(t)
    \/ \E kind \in Kinds : CallEnds(t, kind)

Next == TimePasses \/ \E t \in Threads : ThreadStep(t)

Spec == Init /\ [][Next]_vars

(* Threads are scheduled, time passes, and a call ends by its timeout at   *)
(* the latest.  The semaphore owes nobody its turn: fairness is weak.      *)
FairSpec ==
    /\ Spec
    /\ WF_vars(TimePasses)
    /\ \A t \in Threads : WF_vars(ThreadStep(t))

-----------------------------------------------------------------------------
(* The types of the state.                                                 *)
TypeOK ==
    /\ SlotTypeOK
    /\ stage \in [Threads -> {"backoff", "call", "publishOutput", "publishTrace", "done"}]
    /\ wait \in [Threads -> 0 .. MaxBackoff]
    /\ \A t \in Threads :
        /\ Len(attempts[t]) <= MaxAttempts
        /\ \A i \in DOMAIN attempts[t] : attempts[t][i] \in Kinds
    /\ output \in [Threads -> 0 .. MaxAttempts]
    /\ trace \in [Threads -> 0 .. MaxAttempts]

(* The output and the trace found under the requested names come from one  *)
(* attempt, the one whose result the caller gets.                          *)
PublishedTogether ==
    \A t \in Threads :
        stage[t] = "done" => output[t] = Len(attempts[t]) /\ trace[t] = Len(attempts[t])

(* Whatever the others do, every thread's generation comes to its end.     *)
AllDone == <>(\A t \in Threads : stage[t] = "done")

=============================================================================
