------------------------- MODULE TransportRetryProofs -------------------------
(***************************************************************************)
(* Proofs about CodexSlot and about TransportRetry, whose threads go       *)
(* through that slot, for every finite set of threads, every number of     *)
(* permits and attempts, every cool-down and every backoff.                *)
(***************************************************************************)
EXTENDS TransportRetry, FiniteSetTheorems, TLAPS

(* Every state of the slot is well typed, up to the bounds of permits that *)
(* SlotsConserved gives.                                                   *)
Typed ==
    /\ slot \in [Threads -> Inside \cup {Outside}]
    /\ permits \in Nat
    /\ elapsed \in 0 .. Cooldown
    /\ remaining \in [Threads -> 0 .. Cooldown]
    /\ quiet \in 0 .. Cooldown

LEMMA TypedAlways == SlotSpec => []Typed
<1> USE SlotAssumption
<1>1. SlotInit => Typed
  BY DEF SlotInit, Typed
<1>2. Typed /\ [SlotNext]_slotVars => Typed'
  <2> SUFFICES ASSUME Typed, [SlotNext]_slotVars PROVE Typed'
    OBVIOUS
  <2>1. ASSUME NEW t \in Threads, Acquire(t) PROVE Typed'
    BY <2>1 DEF Acquire, Move, Typed, Inside, Outside
  <2>2. ASSUME NEW t \in Threads, ReadCooldown(t) PROVE Typed'
    BY <2>2 DEF ReadCooldown, Move, Typed, Inside, Outside
  <2>3. ASSUME NEW t \in Threads, Enter(t) PROVE Typed'
    BY <2>3 DEF Enter, Move, Typed, Inside, Outside
  <2>4. ASSUME NEW t \in Threads, Leave(t) PROVE Typed'
    BY <2>4 DEF Leave, Move, Typed, Inside, Outside
  <2>5. ASSUME NEW t \in Threads, Release(t) PROVE Typed'
    BY <2>5 DEF Release, Move, Typed, Inside, Outside
  <2>6. CASE Tick
    BY <2>6 DEF Tick, Later, Sooner, Typed
  <2>7. CASE UNCHANGED slotVars
    BY <2>7 DEF slotVars, Typed
  <2>8. QED
    BY <2>1, <2>2, <2>3, <2>4, <2>5, <2>6, <2>7 DEF SlotNext, SlotStep
<1>3. QED
  BY <1>1, <1>2, PTL DEF SlotSpec

(* The threads that hold a permit.                                         *)
Holders == {t \in Threads : slot[t] # Outside}

(* No permit is lost or handed out twice.                                  *)
THEOREM PermitsConserved == SlotSpec => []SlotsConserved
<1> DEFINE Account == Cardinality(Holders) + permits = MaxConcurrency
<1>1. SlotInit => Account
  <2>1. SlotInit => Holders = {}
    BY DEF SlotInit, Holders
  <2>2. QED
    BY <2>1, FS_EmptySet, SlotAssumption DEF SlotInit
<1>2. Typed /\ Account /\ [SlotNext]_slotVars => Account'
  <2> SUFFICES ASSUME Typed, Account, [SlotNext]_slotVars PROVE Account'
    OBVIOUS
  <2>1. IsFiniteSet(Holders) /\ Cardinality(Holders) \in Nat
    BY SlotAssumption, FS_Subset, FS_CardinalityType DEF Holders
  <2>2. ASSUME NEW t \in Threads, Acquire(t) PROVE Account'
    <3>1. t \notin Holders /\ Holders' = Holders \cup {t}
      BY <2>2 DEF Acquire, Move, Holders, Typed, Outside
    <3>2. Cardinality(Holders') = Cardinality(Holders) + 1
      BY <2>1, <3>1, FS_AddElement
    <3>3. QED
      BY <2>1, <2>2, <3>2 DEF Acquire, Typed
  <2>3. ASSUME NEW t \in Threads, Release(t) PROVE Account'
    <3>1. t \in Holders /\ Holders' = Holders \ {t}
      BY <2>3 DEF Release, Move, Holders, Typed, Outside
    <3>2. Cardinality(Holders') = Cardinality(Holders) - 1
      BY <2>1, <3>1, FS_RemoveElement
    <3>3. QED
      BY <2>1, <2>3, <3>2 DEF Release, Typed
  <2>4. ASSUME NEW t \in Threads, ReadCooldown(t) \/ Enter(t) \/ Leave(t) PROVE Account'
    <3>1. Holders' = Holders /\ permits' = permits
      BY <2>4 DEF ReadCooldown, Enter, Leave, Move, Holders, Typed, Outside
    <3>2. QED
      BY <3>1
  <2>5. CASE Tick \/ UNCHANGED slotVars
    BY <2>5 DEF Tick, slotVars, Holders
  <2>6. QED
    BY <2>2, <2>3, <2>4, <2>5 DEF SlotNext, SlotStep
<1>3. Account <=> SlotsConserved
  BY DEF Holders, SlotsConserved
<1> HIDE DEF Account
<1>4. QED
  BY <1>1, <1>2, <1>3, TypedAlways, PTL DEF SlotSpec

-----------------------------------------------------------------------------
(* With one permit, whoever holds it is alone, and its sleep covers what   *)
(* is left of the time since the last call ended.                          *)
Alone ==
    /\ \A t, u \in Threads : slot[t] # Outside /\ slot[u] # Outside => t = u
    /\ permits > 0 => \A t \in Threads : slot[t] = Outside
    /\ permits <= 1

SleepSuffices ==
    /\ elapsed <= quiet
    /\ \A t \in Threads : slot[t] = "cooling" => Cooldown <= quiet + remaining[t]

(* With one permit, which is the default, a call starts no sooner than the *)
(* cool-down after the end of the call before it.                          *)
THEOREM RecoveryWhenSerial ==
    ASSUME MaxConcurrency = 1
    PROVE  SlotSpec => RecoveryBetweenCalls
<1> DEFINE Inv == Alone /\ SleepSuffices
<1>1. SlotInit => Inv
  BY SlotAssumption DEF SlotInit, Alone, SleepSuffices, Outside
<1>2. Typed /\ Inv /\ [SlotNext]_slotVars => Inv'
  <2> SUFFICES ASSUME Typed, Alone, SleepSuffices, [SlotNext]_slotVars
               PROVE  Alone' /\ SleepSuffices'
    OBVIOUS
  <2>1. ASSUME NEW t \in Threads, Acquire(t) PROVE Alone' /\ SleepSuffices'
    BY <2>1 DEF Acquire, Move, Typed, Alone, SleepSuffices, Outside
  <2>2. ASSUME NEW t \in Threads, ReadCooldown(t) PROVE Alone' /\ SleepSuffices'
    <3>1. Alone'
      BY <2>2 DEF ReadCooldown, Move, Typed, Alone, Outside
    <3>2. SleepSuffices'
      BY <2>2, SlotAssumption DEF ReadCooldown, Move, Typed, SleepSuffices
    <3>3. QED
      BY <3>1, <3>2
  <2>3. ASSUME NEW t \in Threads, Enter(t) PROVE Alone' /\ SleepSuffices'
    BY <2>3 DEF Enter, Move, Typed, Alone, SleepSuffices, Outside
  <2>4. ASSUME NEW t \in Threads, Leave(t) PROVE Alone' /\ SleepSuffices'
    <3>1. Alone'
      BY <2>4 DEF Leave, Move, Typed, Alone, Outside
    <3>2. \A u \in Threads : slot'[u] # "cooling"
      BY <2>4 DEF Leave, Move, Typed, Alone, Outside
    <3>3. QED
      BY <2>4, <3>1, <3>2 DEF Leave, SleepSuffices
  <2>5. ASSUME NEW t \in Threads, Release(t) PROVE Alone' /\ SleepSuffices'
    <3>1. \A u \in Threads : slot'[u] = Outside
      BY <2>5 DEF Release, Move, Typed, Alone, Outside
    <3>2. permits = 0
      BY <2>5 DEF Release, Move, Typed, Alone, Outside
    <3>3. QED
      BY <2>5, <3>1, <3>2 DEF Release, Alone, SleepSuffices, Outside
  <2>6. CASE Tick
    <3>1. Alone'
      BY <2>6 DEF Tick, Alone
    <3>2. SleepSuffices'
      BY <2>6, SlotAssumption DEF Tick, Later, Sooner, Typed, SleepSuffices
    <3>3. QED
      BY <3>1, <3>2
  <2>7. CASE UNCHANGED slotVars
    BY <2>7 DEF slotVars, Alone, SleepSuffices
  <2>8. QED
    BY <2>1, <2>2, <2>3, <2>4, <2>5, <2>6, <2>7 DEF SlotNext, SlotStep
<1>3. Typed /\ Inv /\ [SlotNext]_slotVars
      => [\A t \in Threads : Move(t, "cooling", "calling") => quiet = Cooldown]_slotVars
  <2> SUFFICES ASSUME Typed, SleepSuffices, SlotNext,
                      NEW t \in Threads, Move(t, "cooling", "calling")
               PROVE  quiet = Cooldown
    BY DEF slotVars
  <2>1. remaining[t] = 0
    BY DEF SlotNext, SlotStep, Tick, Acquire, ReadCooldown, Enter, Leave, Release,
       Move, Typed, Outside
  <2>2. QED
    BY <2>1, SlotAssumption DEF Move, Typed, SleepSuffices
<1> HIDE DEF Inv
<1>4. QED
  BY <1>1, <1>2, <1>3, TypedAlways, PTL DEF SlotSpec, RecoveryBetweenCalls

-----------------------------------------------------------------------------
(* The threads of TransportRetry use the slot as CodexSlot says: what is   *)
(* proved of the slot holds of their calls.                                *)
THEOREM RetriesUseSlot == Spec => SlotSpec
<1>1. Init => SlotInit
  BY DEF Init
<1>2. [Next]_vars => [SlotNext]_slotVars
  <2> SUFFICES ASSUME [Next]_vars PROVE [SlotNext]_slotVars
    OBVIOUS
  <2>1. ASSUME NEW t \in Threads, StartAttempt(t) \/ Schedule(t) \/ AttemptReturns(t)
        PROVE  SlotNext
    BY <2>1 DEF StartAttempt, Schedule, AttemptReturns, SlotNext, SlotStep
  <2>2. ASSUME NEW t \in Threads, NEW kind \in Kinds, CallEnds(t, kind) PROVE SlotNext
    BY <2>2 DEF CallEnds, SlotNext, SlotStep
  <2>3. ASSUME NEW t \in Threads, PublishOutput(t) \/ PublishTrace(t)
        PROVE  UNCHANGED slotVars
    BY <2>3 DEF PublishOutput, PublishTrace
  <2>4. CASE TimePasses
    BY <2>4 DEF TimePasses, SlotNext
  <2>5. CASE UNCHANGED vars
    BY <2>5 DEF vars, slotVars
  <2>6. QED
    BY <2>1, <2>2, <2>3, <2>4, <2>5 DEF Next, ThreadStep
<1>3. QED
  BY <1>1, <1>2, PTL DEF Spec, SlotSpec

(* However many threads retry, no permit is lost or handed out twice.      *)
THEOREM RetriesConservePermits == Spec => []SlotsConserved
BY RetriesUseSlot, PermitsConserved, PTL

(* With one permit, also a retry starts no sooner than the cool-down after *)
(* the end of the call before it, of whatever thread.                      *)
THEOREM RetriesRecover ==
    ASSUME MaxConcurrency = 1
    PROVE  Spec => RecoveryBetweenCalls
<1>1. SlotSpec => RecoveryBetweenCalls
  BY RecoveryWhenSerial
<1>2. QED
  BY <1>1, RetriesUseSlot, PTL

(* Powers of two are natural numbers: they count the subsets of a set.     *)
LEMMA PowerType ==
    ASSUME NEW n \in Nat
    PROVE  2 ^ n \in Nat
<1>1. IsFiniteSet(1 .. n) /\ Cardinality(1 .. n) = n
  BY FS_Interval
<1>2. IsFiniteSet(SUBSET (1 .. n)) /\ Cardinality(SUBSET (1 .. n)) = 2 ^ n
  BY <1>1, FS_SUBSET
<1>3. QED
  BY <1>2, FS_CardinalityType

(* The sleep before a retry is bounded.                                    *)
LEMMA DelayType ==
    ASSUME NEW index \in Nat \ {0}
    PROVE  Delay(index) \in 0 .. MaxBackoff
<1> DEFINE p == 2 ^ (index - 1)
<1>1. p \in Nat
  BY PowerType
<1> HIDE DEF p
<1>2. Backoff * p \in Nat
  BY <1>1, RetryAssumption
<1>3. (IF Backoff * p < MaxBackoff THEN Backoff * p ELSE MaxBackoff) \in 0 .. MaxBackoff
  BY <1>2, RetryAssumption
<1>4. QED
  BY <1>3 DEF Delay, p

(* Where a thread is says how many attempts it has behind it, and what it  *)
(* has published.                                                          *)
Publishing == {"publishOutput", "publishTrace", "done"}
Attempting ==
    /\ stage \in [Threads -> {"backoff", "call"} \cup Publishing]
    /\ wait \in [Threads -> 0 .. MaxBackoff]
    /\ attempts \in [Threads -> Seq(Kinds)]
    /\ output \in [Threads -> 0 .. MaxAttempts]
    /\ trace \in [Threads -> 0 .. MaxAttempts]
    /\ \A t \in Threads :
        /\ Len(attempts[t]) <= MaxAttempts
        /\ slot[t] # Outside => stage[t] = "call"
        /\ stage[t] = "backoff" => Len(attempts[t]) < MaxAttempts
        /\ slot[t] \in {"scheduling", "cooling", "calling"} => Len(attempts[t]) < MaxAttempts
        /\ slot[t] = "leaving" \/ stage[t] \in Publishing => attempts[t] # <<>>
        /\ stage[t] \in {"publishTrace", "done"} => output[t] = Len(attempts[t])
        /\ stage[t] = "done" => trace[t] = Len(attempts[t])

LEMMA AttemptingAlways == Spec => []Attempting
<1> USE RetryAssumption
<1>1. Init => Attempting
  <2>1. <<>> \in Seq(Kinds) /\ Len(<<>>) = 0 /\ 0 \in 0 .. MaxAttempts /\ 0 \in 0 .. MaxBackoff
    OBVIOUS
  <2>2. ASSUME Init, NEW t \in Threads
        PROVE  slot[t] = Outside /\ stage[t] = "backoff" /\ attempts[t] = <<>>
    BY <2>2 DEF Init, SlotInit
  <2>3. Init => /\ stage \in [Threads -> {"backoff", "call"} \cup Publishing]
                /\ wait \in [Threads -> 0 .. MaxBackoff]
                /\ attempts \in [Threads -> Seq(Kinds)]
                /\ output \in [Threads -> 0 .. MaxAttempts]
                /\ trace \in [Threads -> 0 .. MaxAttempts]
    BY <2>1 DEF Init
  <2>4. QED
    BY <2>1, <2>2, <2>3 DEF Attempting, Publishing, Outside
<1>2. Typed /\ Attempting /\ [Next]_vars => Attempting'
  <2> SUFFICES ASSUME Typed, Attempting, [Next]_vars PROVE Attempting'
    OBVIOUS
  <2>1. ASSUME NEW t \in Threads, StartAttempt(t) PROVE Attempting'
    BY <2>1 DEF StartAttempt, Acquire, Move, Typed, Attempting, Publishing, Inside, Outside
  <2>2. ASSUME NEW t \in Threads, Schedule(t) PROVE Attempting'
    BY <2>2 DEF Schedule, ReadCooldown, Enter, Move, retryVars, Typed, Attempting,
       Publishing, Inside, Outside
  <2>3. ASSUME NEW t \in Threads, NEW kind \in Kinds, CallEnds(t, kind) PROVE Attempting'
    <3>1. /\ slot[t] = "calling" /\ slot' = [slot EXCEPT ![t] = "leaving"]
          /\ attempts' = [attempts EXCEPT ![t] = Append(@, kind)]
          /\ UNCHANGED <<stage, wait>>
      BY <2>3 DEF CallEnds, Leave, Move
    <3>2. stage[t] = "call" /\ attempts[t] \in Seq(Kinds) /\ Len(attempts[t]) < MaxAttempts
      BY <3>1 DEF Attempting, Outside
    <3>3. /\ Append(attempts[t], kind) \in Seq(Kinds)
          /\ Len(Append(attempts[t], kind)) = Len(attempts[t]) + 1
          /\ Append(attempts[t], kind) # <<>>
      BY <3>2
    <3>4. attempts' \in [Threads -> Seq(Kinds)]
      BY <3>1, <3>3 DEF Attempting
    <3>5. /\ output' \in [Threads -> 0 .. MaxAttempts]
          /\ trace' \in [Threads -> 0 .. MaxAttempts]
          /\ \A u \in Threads : u # t => output'[u] = output[u] /\ trace'[u] = trace[u]
      BY <2>3 DEF CallEnds, Wrote, Attempting
    <3>6. Len(attempts'[t]) <= MaxAttempts /\ attempts'[t] # <<>> /\ stage'[t] = "call"
      BY <3>1, <3>2, <3>3 DEF Attempting
    <3>7. \A u \in Threads : u # t => attempts'[u] = attempts[u] /\ slot'[u] = slot[u]
      BY <3>1 DEF Attempting, Typed
    <3>8. slot'[t] = "leaving"
      BY <3>1 DEF Typed
    <3>9. QED
      BY <3>1, <3>4, <3>5, <3>6, <3>7, <3>8 DEF Attempting, Publishing
  <2>4. ASSUME NEW t \in Threads, AttemptReturns(t) PROVE Attempting'
    <3>1. /\ slot[t] = "leaving" /\ slot' = [slot EXCEPT ![t] = Outside]
          /\ UNCHANGED <<attempts, output, trace>>
      BY <2>4 DEF AttemptReturns, Release, Move
    <3>2. attempts[t] \in Seq(Kinds) /\ attempts[t] # <<>> /\ stage[t] = "call"
      BY <3>1 DEF Attempting, Outside
    <3>3. Len(attempts[t]) \in Nat \ {0}
      BY <3>2
    <3>4. CASE TryAgain(t) /\ stage' = [stage EXCEPT ![t] = "backoff"]
               /\ wait' = [wait EXCEPT ![t] = Delay(Len(attempts[t]))]
      <4>1. Delay(Len(attempts[t])) \in 0 .. MaxBackoff
        BY <3>3, DelayType
      <4>2. wait' \in [Threads -> 0 .. MaxBackoff]
        BY <3>4, <4>1 DEF Attempting
      <4>3. Len(attempts[t]) < MaxAttempts
        BY <3>4 DEF TryAgain
      <4>4. QED
        BY <3>1, <3>2, <3>4, <4>2, <4>3 DEF Attempting, Publishing, Typed, Outside
    <3>5. CASE stage' = [stage EXCEPT ![t] = "publishOutput"] /\ UNCHANGED wait
      BY <3>1, <3>2, <3>5 DEF Attempting, Publishing, Typed, Outside
    <3>6. QED
      BY <2>4, <3>4, <3>5 DEF AttemptReturns
  <2>5. ASSUME NEW t \in Threads, PublishOutput(t) \/ PublishTrace(t) PROVE Attempting'
    <3>1. attempts[t] \in Seq(Kinds) /\ Len(attempts[t]) \in 0 .. MaxAttempts
      BY DEF Attempting
    <3>2. UNCHANGED <<slot, wait, attempts>>
      BY <2>5 DEF PublishOutput, PublishTrace, slotVars
    <3>3. CASE PublishOutput(t)
      BY <3>1, <3>2, <3>3 DEF PublishOutput, Attempting, Publishing
    <3>4. CASE PublishTrace(t)
      BY <3>1, <3>2, <3>4 DEF PublishTrace, Attempting, Publishing
    <3>5. QED
      BY <2>5, <3>3, <3>4
  <2>6. CASE TimePasses
    BY <2>6 DEF TimePasses, Tick, Sooner, Attempting, Publishing
  <2>7. CASE UNCHANGED vars
    BY <2>7 DEF vars, Attempting, Publishing
  <2>8. QED
    BY <2>1, <2>2, <2>3, <2>4, <2>5, <2>6, <2>7 DEF Next, ThreadStep
<1>3. Spec => []Typed
  BY RetriesUseSlot, TypedAlways, PTL
<1>4. QED
  BY <1>1, <1>2, <1>3, PTL DEF Spec

(* Every state of the retries is well typed: attempts stay within the      *)
(* request's transport budget and sleeps within the longest backoff.       *)
THEOREM RetriesTyped == Spec => []TypeOK
<1>1. Typed /\ SlotsConserved /\ Attempting => TypeOK
  <2> SUFFICES ASSUME Typed, SlotsConserved, Attempting PROVE TypeOK
    OBVIOUS
  <2>1. IsFiniteSet(Holders) /\ Cardinality(Holders) \in Nat
    BY SlotAssumption, FS_Subset, FS_CardinalityType DEF Holders
  <2>2. permits \in 0 .. MaxConcurrency
    BY <2>1, SlotAssumption DEF SlotsConserved, Holders, Typed
  <2>3. SlotTypeOK
    BY <2>2 DEF SlotTypeOK, Typed
  <2>4. \A t \in Threads : \A i \in DOMAIN attempts[t] : attempts[t][i] \in Kinds
    BY DEF Attempting
  <2>5. QED
    BY <2>3, <2>4 DEF TypeOK, Attempting, Publishing
<1>2. Spec => []Typed
  BY RetriesUseSlot, TypedAlways, PTL
<1>3. QED
  BY <1>1, <1>2, RetriesConservePermits, AttemptingAlways, PTL

(* The output and the trace found under the requested names come from one  *)
(* attempt, the one whose result the caller gets.                          *)
THEOREM OneAttemptPublished == Spec => []PublishedTogether
<1>1. Attempting => PublishedTogether
  BY DEF Attempting, PublishedTogether
<1>2. QED
  BY <1>1, AttemptingAlways, PTL

===============================================================================
