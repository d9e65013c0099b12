------------------------ MODULE ExecuteProtocolProofs ------------------------
(***************************************************************************)
(* Proofs about ExecuteProtocol, for every set of requests, budgets,       *)
(* workspace, contract and number of crashes.                              *)
(***************************************************************************)
EXTENDS ExecuteProtocol, TLAPS

(* add_attempt changes the stage, one counter and the EXECUTE flag.        *)
LEMMA AddAttemptFacts ==
    ASSUME NEW r \in Runs, NEW s \in AttemptStages, NEW ok \in BOOLEAN
    PROVE  /\ AddAttempt(r, s, ok) \in Runs
           /\ AddAttempt(r, s, ok).request = r.request
           /\ AddAttempt(r, s, ok).stage = s
           /\ AddAttempt(r, s, ok).count = [r.count EXCEPT ![s] = @ + 1]
           /\ AddAttempt(r, s, ok).executed = (r.executed \/ (s = "execute" /\ ok))
           /\ AddAttempt(r, s, ok).reason = r.reason
           /\ r.executed => AddAttempt(r, s, ok).executed
<1> DEFINE e == r.executed \/ (s = "execute" /\ ok)
           c == [r.count EXCEPT ![s] = @ + 1]
           R == [r EXCEPT !.stage = s, !.count = c, !.executed = e]
<1>1. AddAttempt(r, s, ok) = R
  BY Zenon DEF AddAttempt
<1>2. e \in BOOLEAN
  OBVIOUS
<1>3. c \in [AttemptStages -> Nat]
  BY DEF Runs
<1>4. s \in Stages
  BY DEF Stages
<1> HIDE DEF e, c
<1>5. /\ R \in Runs
      /\ R.request = r.request
      /\ R.stage = s
      /\ R.count = c
      /\ R.executed = e
      /\ R.reason = r.reason
  BY <1>2, <1>3, <1>4 DEF Runs
<1>6. r.executed => R.executed
  BY <1>5 DEF e
<1>7. QED
  BY <1>1, <1>5, <1>6, Zenon DEF e, c

(* finish changes the stage and the reason.                                *)
LEMMA FinishFacts ==
    ASSUME NEW r \in Runs, NEW success \in BOOLEAN, NEW why \in Reasons
    PROVE  /\ Finish(r, success, why) \in Runs
           /\ Terminal(Finish(r, success, why))
           /\ Finish(r, success, why).request = r.request
           /\ Finish(r, success, why).stage = IF success THEN "complete" ELSE "failed"
           /\ Finish(r, success, why).count = r.count
           /\ Finish(r, success, why).executed = r.executed
           /\ Finish(r, success, why).reason = why
BY DEF Finish, Runs, Stages, AttemptStages, Phases, Terminal

(* A contract gives every validator a status.                              *)
LEMMA ContractType ==
    ASSUME NEW before \in Workspaces, NEW after \in Workspaces
    PROVE  Contract(before, after) \in Reports
BY ContractAssumption DEF Contract, Reports, ValidatorIds, Statuses

LEMMA NewRunType ==
    ASSUME NEW r \in Requests
    PROVE  NewRun(r) \in Runs
BY DEF NewRun, Runs, Stages, AttemptStages, Phases, Reasons

(* The verdict on a run finishes it and touches nothing else.              *)
LEMMA VerdictsFacts ==
    ASSUME NEW r \in Runs
    PROVE  /\ Verdicts(r) \in Runs
           /\ Terminal(Verdicts(r))
           /\ Verdicts(r).request = r.request
           /\ Verdicts(r).count = r.count
           /\ Verdicts(r).executed = r.executed
           /\ Verdicts(r).stage = "complete" => Verdicts(r).reason = "success"
           /\ Verdicts(r).reason # "resume_inflight_unknown"
<1> DEFINE why == {"validation_unsupported", "artifact_validation_exhausted", "success"}
<1>1. \E ok \in BOOLEAN, w \in why :
        /\ Verdicts(r) = Finish(r, ok, w)
        /\ ok <=> w = "success"
  BY DEF Verdicts
<1>2. why \subseteq Reasons /\ "resume_inflight_unknown" \notin why
  BY DEF Reasons
<1> HIDE DEF why
<1>3. QED
  BY <1>1, <1>2, FinishFacts

(* Saving keeps the types.                                                 *)
LEMMA SaveType ==
    ASSUME TypeOK, NEW r \in Runs, NEW p \in Phases \cup {"none"}, Save(r, p)
    PROVE  /\ disk' \in Checkpoints \cup {Absent}
           /\ run' \in Runs
           /\ inflight' \in Phases \cup {"none"}
           /\ fresh' \in BOOLEAN
           /\ calls' \in [Phases -> Nat]
           /\ contested' \in BOOLEAN
<1>1. contested' \in BOOLEAN
  BY DEF TypeOK, Save
<1>2. QED
  BY <1>1 DEF TypeOK, Save, Checkpoints, NoCalls, Phases

-----------------------------------------------------------------------------
(* Every state of the protocol is well typed.                              *)
THEOREM TypeCorrect == Spec => []TypeOK
<1>1. Init => TypeOK
  <2> SUFFICES ASSUME Init PROVE TypeOK
    OBVIOUS
  <2>1. pc \in Locations /\ run \in IF pc = "down" THEN {NoRun} ELSE Runs
    BY DEF Init, Locations
  <2>2. calls \in [Phases -> Nat]
    BY DEF Init, NoCalls
  <2>3. fresh \in BOOLEAN /\ orphan \in BOOLEAN /\ contested \in BOOLEAN
    BY DEF Init
  <2>4. QED
    BY <2>1, <2>2, <2>3 DEF Init, TypeOK
<1>2. TypeOK /\ [Next]_vars => TypeOK'
  <2> SUFFICES ASSUME TypeOK, [Next]_vars PROVE TypeOK'
    OBVIOUS
  <2>1. ASSUME NEW r \in Requests, StartFresh(r) PROVE TypeOK'
    BY <2>1, NewRunType DEF TypeOK, StartFresh, Locations
  <2>2. ASSUME NEW r \in Requests, Resume(r) PROVE TypeOK'
    <3>1. disk \in Checkpoints
      BY <2>2 DEF Resume, TypeOK
    <3>2. [disk.run EXCEPT !.request = r] \in Runs
      BY <3>1 DEF Checkpoints, Runs
    <3>3. QED
      BY <2>2, <3>1, <3>2 DEF Resume, TypeOK, Checkpoints, Locations
  <2>3. CASE RefuseInflight
    <3> DEFINE r == Finish(run, FALSE, "resume_inflight_unknown")
    <3>1. r \in Runs
      BY <2>3, FinishFacts DEF RefuseInflight, TypeOK, Reasons
    <3> HIDE DEF r
    <3>2. Save(r, "none")
      BY <2>3 DEF RefuseInflight, r
    <3>3. QED
      BY <2>3, <3>1, <3>2, SaveType DEF RefuseInflight, TypeOK, Locations
  <2>4. CASE ReplayTerminal
    BY <2>4 DEF ReplayTerminal, TypeOK, durable, Locations
  <2>5. CASE CapabilityMismatch
    <3> DEFINE r == Finish(run, FALSE, "executor_capability_mismatch")
    <3>1. r \in Runs
      BY <2>5, FinishFacts DEF CapabilityMismatch, TypeOK, Reasons
    <3> HIDE DEF r
    <3>2. Save(r, "none")
      BY <2>5 DEF CapabilityMismatch, r
    <3>3. QED
      BY <2>5, <3>1, <3>2, SaveType DEF CapabilityMismatch, TypeOK, Locations
  <2>6. CASE Proceed
    BY <2>6 DEF Proceed, TypeOK, durable, Locations, AfterPlan
  <2>7. CASE PlanAttempt
    <3>1. run \in Runs /\ "plan" \in Phases
      BY <2>7 DEF PlanAttempt, TypeOK, Phases
    <3>2. QED
      BY <2>7, <3>1, SaveType DEF PlanAttempt, TypeOK, Locations
  <2>8. CASE PlanExhausted
    <3> DEFINE r == Finish(run, FALSE, "plan_validation_exhausted")
    <3>1. r \in Runs
      BY <2>8, FinishFacts DEF PlanExhausted, TypeOK, Reasons
    <3> HIDE DEF r
    <3>2. Save(r, "none")
      BY <2>8 DEF PlanExhausted, r
    <3>3. QED
      BY <2>8, <3>1, <3>2, SaveType DEF PlanExhausted, TypeOK, Locations
  <2>9. CASE PlanAccepted
    <3> DEFINE r == AddAttempt(run, "plan", TRUE)
    <3>1. r \in Runs
      BY <2>9, AddAttemptFacts DEF PlanAccepted, TypeOK, AttemptStages, Phases
    <3> HIDE DEF r
    <3>2. run' = [r EXCEPT !.plan = TRUE]
      BY <2>9 DEF PlanAccepted, r
    <3>3. run' \in Runs
      BY <3>1, <3>2 DEF Runs
    <3>4. QED
      BY <2>9, <3>3 DEF PlanAccepted, TypeOK, durable, Locations, AfterPlan
  <2>10. CASE PlanRejected
    <3> DEFINE r == AddAttempt(run, "plan", FALSE)
    <3>1. r \in Runs
      BY <2>10, AddAttemptFacts DEF PlanRejected, TypeOK, AttemptStages, Phases
    <3> HIDE DEF r
    <3>2. Save(r, "none")
      BY <2>10 DEF PlanRejected, r
    <3>3. QED
      BY <2>10, <3>1, <3>2, SaveType DEF PlanRejected, TypeOK, Locations
  <2>11. CASE ExecuteAttempt
    <3> DEFINE r == [run EXCEPT !.baseline = ws]
    <3>1. r \in Runs /\ "execute" \in Phases
      BY <2>11 DEF ExecuteAttempt, TypeOK, Runs, Phases
    <3> HIDE DEF r
    <3>2. Save(r, "execute")
      BY <2>11 DEF ExecuteAttempt, r
    <3>3. QED
      BY <2>11, <3>1, <3>2, SaveType DEF ExecuteAttempt, TypeOK, Locations
  <2>12. ASSUME NEW ok \in BOOLEAN, ExecuteReturns(ok) PROVE TypeOK'
    <3> DEFINE a == AddAttempt(run, "execute", ok)
               r == IF ok THEN a ELSE Finish(a, FALSE, "execution_failed")
    <3>1. a \in Runs
      BY <2>12, AddAttemptFacts DEF ExecuteReturns, TypeOK, AttemptStages, Phases
    <3>2. r \in Runs
      BY <3>1, FinishFacts DEF Reasons
    <3> HIDE DEF r
    <3>3. Save(r, "none")
      BY <2>12 DEF ExecuteReturns, r
    <3>4. QED
      BY <2>12, <3>2, <3>3, SaveType DEF ExecuteReturns, TypeOK, Locations
  <2>13. CASE Validate
    <3> DEFINE a == AddAttempt(run, "validate", TRUE)
               c == Contract(run.baseline, ws)
               r == [a EXCEPT !.report = c]
    <3>1. run \in Runs /\ a \in Runs
      BY <2>13, AddAttemptFacts DEF Validate, TypeOK, AttemptStages
    <3>2. c \in Reports
      BY <2>13, <3>1, ContractType DEF Validate, TypeOK, Runs
    <3> HIDE DEF a, c
    <3>3. r \in Runs
      BY <3>1, <3>2 DEF Runs
    <3> HIDE DEF r
    <3>4. Save(r, "none")
      BY <2>13 DEF Validate, a, c, r
    <3>5. QED
      BY <2>13, <3>3, <3>4, SaveType DEF Validate, TypeOK, Locations
  <2>14. CASE RepairAttempt
    <3>1. run \in Runs /\ "repair" \in Phases
      BY <2>14 DEF RepairAttempt, TypeOK, Phases
    <3>2. QED
      BY <2>14, <3>1, SaveType DEF RepairAttempt, TypeOK, Locations
  <2>15. ASSUME NEW ok \in BOOLEAN, RepairReturns(ok) PROVE TypeOK'
    <3>1. run' \in Runs
      BY <2>15, AddAttemptFacts DEF RepairReturns, TypeOK, AttemptStages, Phases
    <3>2. QED
      BY <2>15, <3>1 DEF RepairReturns, TypeOK, durable, Locations
  <2>16. CASE Conclude
    <3>1. Verdicts(run) \in Runs
      BY <2>16, VerdictsFacts DEF Conclude, TypeOK
    <3>2. QED
      BY <2>16, <3>1, SaveType DEF Conclude, TypeOK, Locations
  <2>17. CASE FinalCheckpoint
    <3>1. run \in Runs
      BY <2>17 DEF FinalCheckpoint, TypeOK
    <3>2. QED
      BY <2>17, <3>1, SaveType DEF FinalCheckpoint, TypeOK, Locations
  <2>18. CASE WriteResult
    <3>1. Outcome(run) \in Outcomes
      BY <2>18 DEF WriteResult, TypeOK, Outcome, Outcomes, Runs
    <3>2. QED
      BY <2>18, <3>1 DEF WriteResult, Exit, TypeOK, Locations
  <2>19. CASE Invoke
    <3>1. calls' \in [Phases -> Nat]
      <4>1. CASE inflight \in Phases
        BY <2>19, <4>1 DEF Invoke, TypeOK
      <4>2. CASE inflight \notin Phases
        <5>1. calls' = calls
          BY <2>19, <4>2 DEF Invoke, TypeOK
        <5>2. QED
          BY <5>1 DEF TypeOK
      <4>3. QED
        BY <4>1, <4>2
    <3>2. QED
      BY <2>19, <3>1 DEF Invoke, TypeOK, durable, Locations
  <2>20. CASE RetryTransport
    BY <2>20 DEF RetryTransport, TypeOK, durable
  <2>21. CASE ExecutorWrites
    <3>1. ws' \in Workspaces
      BY <2>21 DEF ExecutorWrites, TypeOK, Workspaces
    <3>2. QED
      BY <2>21, <3>1 DEF ExecutorWrites, TypeOK, process
  <2>22. CASE OrphanExits
    BY <2>22 DEF OrphanExits, TypeOK, durable, process
  <2>23. CASE Crash
    <3>1. orphan' \in BOOLEAN
      BY <2>23 DEF Crash, TypeOK
    <3>2. QED
      <4>1. crashes' \in Nat /\ pc' \in Locations
        BY <2>23 DEF Crash, Exit, TypeOK, Locations
      <4>2. fresh' \in BOOLEAN /\ tries' \in Nat /\ inflight' = "none"
        BY <2>23 DEF Crash, Exit
      <4>3. run' \in IF pc' = "down" THEN {NoRun} ELSE Runs
        BY <2>23 DEF Crash, Exit
      <4>4. UNCHANGED <<ws, disk, result, calls, contested>>
        BY <2>23 DEF Crash, durable
      <4>5. QED
        BY <3>1, <4>1, <4>2, <4>3, <4>4 DEF TypeOK
  <2>24. CASE UNCHANGED vars
    BY <2>24 DEF vars, TypeOK
  <2>25. QED
    BY <2>1, <2>2, <2>3, <2>4, <2>5, <2>6, <2>7, <2>8, <2>9, <2>10, <2>11, <2>12,
       <2>13, <2>14, <2>15, <2>16, <2>17, <2>18, <2>19, <2>20, <2>21, <2>22,
       <2>23, <2>24 DEF Next, Step, CallReturns
<1>3. QED
  BY <1>1, <1>2, PTL DEF Spec

-----------------------------------------------------------------------------
(* The counters of a run are natural numbers.                              *)
LEMMA CountTypes ==
    ASSUME NEW r \in Runs
    PROVE  /\ \A p \in Phases : r.count[p] \in Nat
           /\ r.request \in Requests
           /\ PlanBudget[r.request] \in Nat
           /\ ArtifactBudget[r.request] \in Nat
BY RequestsAssumption DEF Runs, AttemptStages, Phases, Positive

(* A run whose attempts account for every call may be saved, with the call *)
(* about to be made or with none, and the disk's account holds again.      *)
LEMMA SaveKeepsAccount ==
    ASSUME TypeOK, NEW r \in Runs, NEW p \in Phases \cup {"none"}, Save(r, p),
           WithinBudget(r),
           fresh => \A q \in Phases : r.count[q] = 0,
           ~fresh => Counted(r),
           p # "none" => ~Terminal(r) /\ Affordable(r, p)
    PROVE  /\ DiskLedger'
           /\ disk' # Absent
           /\ disk'.run = r
           /\ disk'.inflight = p
           /\ run' = r
           /\ inflight' = p
           /\ fresh' = FALSE
           /\ \A q \in Phases : calls'[q] = r.count[q]
<1>1. disk' = [run |-> r, inflight |-> p] /\ run' = r /\ inflight' = p /\ fresh' = FALSE
  BY DEF Save
<1>2. disk' # Absent
  BY <1>1, AbsentAssumption DEF Checkpoints
<1>3. \A q \in Phases : calls'[q] = r.count[q]
  BY DEF Save, NoCalls, Counted
<1>4. DiskLedger'
  BY <1>1, <1>2, <1>3 DEF DiskLedger, Counted, WithinBudget, Affordable, Terminal
<1>5. QED
  BY <1>1, <1>2, <1>3, <1>4

LEMMA LedgerInit == Init => Ledger
BY DEF Init, Ledger, DiskLedger, ProcessLedger

(* Steps that write neither the checkpoint nor the account of calls and    *)
(* end or keep the process.                                                *)
LEMMA LedgerExit ==
    ASSUME Ledger, UNCHANGED <<disk, calls>>, Exit
    PROVE  Ledger'
BY DEF Ledger, DiskLedger, ProcessLedger, Exit, Counted, CountedBut, WithinBudget,
       Affordable, Terminal

LEMMA LedgerIdle ==
    ASSUME Ledger, UNCHANGED <<disk, calls, pc, run, inflight, fresh>>
    PROVE  Ledger'
BY DEF Ledger, DiskLedger, ProcessLedger, Counted, CountedBut, WithinBudget,
       Affordable, Terminal

(* Steps that change the process's memory only.                            *)
LEMMA DiskLedgerKept ==
    ASSUME DiskLedger, UNCHANGED <<disk, calls>>
    PROVE  DiskLedger'
BY DEF DiskLedger, Counted, CountedBut, WithinBudget, Affordable, Terminal

(* Start-up, before anything is saved.                                     *)
LEMMA LedgerStart ==
    ASSUME TypeOK, Ledger, NEW r \in Requests, StartFresh(r) \/ Resume(r)
    PROVE  Ledger'
<1>1. CASE StartFresh(r)
  <2>1. DiskLedger'
    BY <1>1, DiskLedgerKept DEF StartFresh, Ledger
  <2>2. NewRun(r).request = r /\ WithinBudget(NewRun(r))
    BY RequestsAssumption DEF NewRun, WithinBudget, AttemptStages, Phases, Positive
  <2>3. ProcessLedger'
    BY <1>1, <2>2 DEF StartFresh, ProcessLedger, WithinBudget, Terminal
  <2>4. QED
    BY <2>1, <2>3 DEF Ledger
<1>2. CASE Resume(r)
  <2>1. DiskLedger'
    BY <1>2, DiskLedgerKept DEF Resume, Ledger
  <2>2. disk \in Checkpoints
    BY <1>2 DEF Resume, TypeOK
  <2>3. run' = disk.run
    BY <1>2, <2>2 DEF Resume, DigestMatches, Checkpoints, Runs
  <2>4. WithinBudget(run')
    BY <1>2, <2>3 DEF Resume, Ledger, DiskLedger
  <2>5. ProcessLedger'
    BY <1>2, <2>3, <2>4 DEF Resume, ProcessLedger, WithinBudget, Terminal
  <2>6. QED
    BY <2>1, <2>5 DEF Ledger
<1>3. QED
  BY <1>1, <1>2

(* From start-up to the first stage or to an early end.                    *)
LEMMA LedgerBegin ==
    ASSUME TypeOK, Ledger,
           RefuseInflight \/ ReplayTerminal \/ CapabilityMismatch \/ Proceed
    PROVE  Ledger'
<1> USE DEF Ledger
<1>1. run \in Runs /\ WithinBudget(run) /\ pc = "begin"
  BY DEF RefuseInflight, ReplayTerminal, CapabilityMismatch, Proceed, TypeOK, ProcessLedger
<1>2. CASE RefuseInflight
  <2> DEFINE r == Finish(run, FALSE, "resume_inflight_unknown")
  <2>1. /\ r \in Runs /\ Terminal(r)
        /\ r.request = run.request /\ r.count = run.count
        /\ r.executed = run.executed /\ r.reason = "resume_inflight_unknown"
    BY <1>1, FinishFacts DEF Reasons
  <2> HIDE DEF r
  <2>2. Save(r, "none")
    BY <1>2 DEF RefuseInflight, r
  <2>3. ~fresh /\ disk # Absent /\ run = disk.run /\ inflight = disk.inflight
    BY <1>1, <1>2 DEF RefuseInflight, ProcessLedger
  <2>4. /\ disk' = [run |-> r, inflight |-> "none"] /\ run' = r
        /\ calls' = calls /\ fresh' = FALSE /\ inflight' = "none"
    BY <2>2, <2>3 DEF Save
  <2>5. WithinBudget(r)
    BY <1>1, <2>1 DEF WithinBudget
  <2>6. disk.inflight \in Phases
    BY <1>2, <2>3 DEF RefuseInflight, TypeOK
  <2>7. /\ Affordable(disk.run, disk.inflight)
        /\ Counted(disk.run) \/ CountedBut(disk.run, disk.inflight)
    BY <1>2, <2>3 DEF RefuseInflight, DiskLedger
  <2>8. \/ \A p \in Phases : calls'[p] = r.count[p]
        \/ \E lost \in Phases :
              /\ \A p \in Phases : calls'[p] = r.count[p] + IF p = lost THEN 1 ELSE 0
              /\ Affordable(r, lost)
    BY <2>1, <2>3, <2>4, <2>6, <2>7 DEF Counted, CountedBut, Affordable
  <2>9. DiskLedger'
    BY <2>1, <2>4, <2>5, <2>8 DEF DiskLedger, Counted, CountedBut, WithinBudget, Affordable, Terminal
  <2>10. disk' # Absent
    BY <2>1, <2>4, AbsentAssumption DEF Checkpoints
  <2>11. ProcessLedger'
    BY <1>2, <2>4, <2>5, <2>10 DEF RefuseInflight, ProcessLedger, WithinBudget, Terminal
  <2>12. QED
    BY <2>9, <2>11
<1>3. CASE ReplayTerminal
  <2>1. DiskLedger'
    BY <1>3, DiskLedgerKept DEF ReplayTerminal, durable
  <2>2. ~fresh
    BY <1>1, <1>3 DEF ReplayTerminal, ProcessLedger, NewRun, Terminal
  <2>3. ProcessLedger'
    BY <1>1, <1>3, <2>2 DEF ReplayTerminal, ProcessLedger, durable, WithinBudget, Terminal
  <2>4. QED
    BY <2>1, <2>3
<1>4. CASE CapabilityMismatch
  <2> DEFINE r == Finish(run, FALSE, "executor_capability_mismatch")
  <2>1. /\ r \in Runs /\ Terminal(r)
        /\ r.request = run.request /\ r.count = run.count /\ r.executed = run.executed
    BY <1>1, FinishFacts DEF Reasons
  <2> HIDE DEF r
  <2>2. Save(r, "none")
    BY <1>4 DEF CapabilityMismatch, r
  <2>3. WithinBudget(r)
    BY <1>1, <2>1 DEF WithinBudget
  <2>4. fresh => \A q \in Phases : r.count[q] = 0
    BY <1>1, <2>1 DEF ProcessLedger, NewRun, AttemptStages
  <2>5. ~fresh => Counted(r)
    BY <1>1, <1>4, <2>1 DEF CapabilityMismatch, ProcessLedger, DiskLedger, Counted
  <2>6. /\ DiskLedger' /\ disk' # Absent /\ disk'.run = r /\ disk'.inflight = "none"
        /\ run' = r /\ fresh' = FALSE
    BY <2>1, <2>2, <2>3, <2>4, <2>5, SaveKeepsAccount
  <2>7. ProcessLedger'
    BY <1>4, <2>3, <2>6 DEF CapabilityMismatch, ProcessLedger, WithinBudget, Terminal
  <2>8. QED
    BY <2>6, <2>7
<1>5. CASE Proceed
  <2>1. DiskLedger'
    BY <1>5, DiskLedgerKept DEF Proceed, durable
  <2>2. ~fresh => Counted(run) /\ ~Terminal(disk.run)
    BY <1>1, <1>5 DEF Proceed, ProcessLedger, DiskLedger
  <2>3. pc' = "execute" => run.count["execute"] = 0
    <3>1. pc' = "execute" => ~run.executed
      BY <1>5 DEF Proceed, AfterPlan
    <3>2. run.count["execute"] \in Nat
      BY <1>1, CountTypes DEF Phases
    <3>3. QED
      BY <1>1, <1>5, <3>1, <3>2 DEF Proceed, WithinBudget
  <2>4. pc' \in {"plan", "execute", "validate"} /\ (pc' = "validate" => run.executed)
    BY <1>5 DEF Proceed, AfterPlan
  <2>5. fresh => ~run.executed
    BY <1>1 DEF ProcessLedger, NewRun
  <2>6. ProcessLedger'
    BY <1>1, <1>5, <2>2, <2>3, <2>4, <2>5
       DEF Proceed, ProcessLedger, durable, WithinBudget, Terminal, Counted
  <2>7. QED
    BY <2>1, <2>6
<1>6. QED
  BY <1>2, <1>3, <1>4, <1>5

(* What holds of the process while it works on a stage.                    *)
LEMMA WorkingFacts ==
    ASSUME TypeOK, Ledger, pc \in {"plan", "execute", "validate", "repair"}
    PROVE  /\ run \in Runs
           /\ WithinBudget(run)
           /\ ~Terminal(run)
           /\ fresh => \A q \in Phases : run.count[q] = 0
           /\ ~fresh => Counted(run)
BY DEF TypeOK, Ledger, ProcessLedger, NewRun, AttemptStages

(* What holds of it when a call returns.                                   *)
LEMMA ReturnFacts ==
    ASSUME TypeOK, Ledger, pc = "call"
    PROVE  /\ run \in Runs
           /\ WithinBudget(run)
           /\ ~fresh
           /\ disk # Absent
           /\ run = disk.run
           /\ ~Terminal(run)
           /\ inflight \in Phases
           /\ Affordable(run, inflight)
           /\ CountedBut(run, inflight)
<1>1. disk # Absent /\ run = disk.run /\ inflight = disk.inflight /\ inflight \in Phases
  BY DEF Ledger, ProcessLedger
<1>2. inflight # "none"
  BY <1>1 DEF Phases
<1>3. QED
  BY <1>1, <1>2 DEF TypeOK, Ledger, ProcessLedger, DiskLedger

(* Recording the attempt of a call settles the account.                    *)
LEMMA AttemptSettles ==
    ASSUME NEW r \in Runs, NEW p \in Phases, NEW ok \in BOOLEAN,
           WithinBudget(r), ~Terminal(r), Affordable(r, p), CountedBut(r, p),
           p = "execute" => ok
    PROVE  /\ AddAttempt(r, p, ok) \in Runs
           /\ AddAttempt(r, p, ok).request = r.request
           /\ ~Terminal(AddAttempt(r, p, ok))
           /\ WithinBudget(AddAttempt(r, p, ok))
           /\ Counted(AddAttempt(r, p, ok))
           /\ p # "execute" /\ ~r.executed => ~AddAttempt(r, p, ok).executed
<1> DEFINE a == AddAttempt(r, p, ok)
<1>1. /\ a \in Runs /\ a.request = r.request /\ a.stage = p
      /\ a.count = [r.count EXCEPT ![p] = @ + 1]
      /\ a.executed = (r.executed \/ (p = "execute" /\ ok))
  BY AddAttemptFacts DEF AttemptStages
<1> HIDE DEF a
<1>2. r.count \in [AttemptStages -> Nat] /\ Phases \subseteq AttemptStages
  BY DEF Runs, AttemptStages
<1>3. Counted(a)
  BY <1>1, <1>2 DEF Counted, CountedBut
<1>4. ~Terminal(a)
  BY <1>1 DEF Terminal, Phases
<1>5. /\ a.count["plan"] <= PlanBudget[a.request]
      /\ a.count["repair"] <= ArtifactBudget[a.request]
      /\ a.count["execute"] <= 1
  BY <1>1, <1>2, CountTypes DEF WithinBudget, Affordable, Phases, AttemptStages
<1>6. a.count["execute"] = 1 => a.executed
  <2>1. CASE p = "execute"
    BY <2>1, <1>1
  <2>2. CASE p # "execute"
    <3>1. a.count["execute"] = r.count["execute"]
      BY <2>2, <1>1, <1>2 DEF Phases, AttemptStages
    <3>2. r.count["execute"] = 1 => r.executed
      BY DEF WithinBudget
    <3>3. QED
      BY <3>1, <3>2, <1>1
  <2>3. QED
    BY <2>1, <2>2
<1>7. WithinBudget(a)
  BY <1>5, <1>6 DEF WithinBudget
<1>8. p # "execute" /\ ~r.executed => ~a.executed
  BY <1>1
<1>9. QED
  BY <1>1, <1>3, <1>4, <1>7, <1>8 DEF a

LEMMA LedgerPlan ==
    ASSUME TypeOK, Ledger,
           PlanAttempt \/ PlanExhausted \/ PlanAccepted \/ PlanRejected
    PROVE  Ledger'
<1>1. CASE PlanAttempt
  <2>1. Affordable(run, "plan")
    BY <1>1 DEF PlanAttempt, CanAttempt, Limit, Affordable
  <2>2. Save(run, "plan") /\ pc = "plan" /\ "plan" \in Phases
    BY <1>1 DEF PlanAttempt, Phases
  <2>3. /\ DiskLedger' /\ disk' # Absent /\ disk'.run = run /\ disk'.inflight = "plan"
        /\ run' = run /\ inflight' = "plan" /\ fresh' = FALSE
        /\ \A q \in Phases : calls'[q] = run.count[q]
    <3>1. /\ run \in Runs /\ WithinBudget(run) /\ ~Terminal(run)
          /\ fresh => \A q \in Phases : run.count[q] = 0
          /\ ~fresh => Counted(run)
      BY <2>2, WorkingFacts
    <3>2. "plan" \in Phases \cup {"none"} /\ "plan" # "none"
      BY DEF Phases
    <3>3. QED
      BY <2>1, <2>2, <3>1, <3>2, SaveKeepsAccount
  <2>4. WithinBudget(run)
    BY <2>2, WorkingFacts
  <2>5. Counted(run)' /\ WithinBudget(run)' /\ pc' = "invoke"
    BY <1>1, <2>3, <2>4 DEF PlanAttempt, WithinBudget, Terminal, Counted
  <2>6. ProcessLedger'
    BY <2>2, <2>3, <2>5 DEF ProcessLedger
  <2>7. QED
    BY <2>3, <2>6 DEF Ledger
<1>2. CASE PlanExhausted
  <2> DEFINE r == Finish(run, FALSE, "plan_validation_exhausted")
  <2>1. pc = "plan" /\ run \in Runs
    BY <1>2 DEF PlanExhausted, TypeOK
  <2>2. /\ r \in Runs /\ Terminal(r)
        /\ r.request = run.request /\ r.count = run.count /\ r.executed = run.executed
    BY <2>1, FinishFacts DEF Reasons
  <2> HIDE DEF r
  <2>3. Save(r, "none")
    BY <1>2 DEF PlanExhausted, r
  <2>4. /\ WithinBudget(r)
        /\ fresh => \A q \in Phases : r.count[q] = 0
        /\ ~fresh => Counted(r)
    BY <2>1, <2>2, WorkingFacts DEF WithinBudget, Counted
  <2>5. /\ DiskLedger' /\ disk' # Absent /\ disk'.run = r /\ disk'.inflight = "none"
        /\ run' = r /\ fresh' = FALSE
    BY <2>2, <2>3, <2>4, SaveKeepsAccount
  <2>6. ProcessLedger'
    BY <1>2, <2>4, <2>5 DEF PlanExhausted, ProcessLedger, WithinBudget, Terminal
  <2>7. QED
    BY <2>5, <2>6 DEF Ledger
<1>3. CASE PlanAccepted
  <2> DEFINE a == AddAttempt(run, "plan", TRUE)
  <2>1. pc = "call" /\ inflight = "plan" /\ UNCHANGED <<disk, calls, fresh>>
    BY <1>3 DEF PlanAccepted, durable
  <2>2. /\ a \in Runs /\ a.request = run.request
        /\ ~Terminal(a) /\ WithinBudget(a) /\ Counted(a)
        /\ ~run.executed => ~a.executed
    BY <2>1, ReturnFacts, AttemptSettles DEF Phases
  <2> HIDE DEF a
  <2>3. run' = [a EXCEPT !.plan = TRUE]
    BY <1>3 DEF PlanAccepted, a
  <2>4. /\ run'.request = a.request /\ run'.count = a.count
        /\ run'.executed = a.executed /\ run'.stage = a.stage
    BY <2>2, <2>3 DEF Runs
  <2>5. /\ ~Terminal(run)' /\ WithinBudget(run)' /\ Counted(run)'
    BY <2>1, <2>2, <2>4 DEF Terminal, WithinBudget, Counted
  <2>6. pc' \in {"validate", "execute"} /\ (pc' = "execute" => ~run.executed)
    BY <1>3 DEF PlanAccepted, AfterPlan
  <2>7. pc' = "execute" => run'.count["execute"] = 0
    <3>1. a.count["execute"] \in Nat
      BY <2>2, CountTypes DEF Phases
    <3>2. QED
      BY <2>2, <2>4, <2>6, <3>1 DEF WithinBudget
  <2>8. ~fresh' /\ disk' # Absent /\ disk'.run.request = run'.request /\ ~Terminal(disk.run)'
    BY <2>1, <2>2, <2>4, ReturnFacts DEF Terminal
  <2>9. ProcessLedger'
    BY <2>5, <2>6, <2>7, <2>8 DEF ProcessLedger
  <2>10. QED
    BY <2>1, <2>9, DiskLedgerKept DEF Ledger
<1>4. CASE PlanRejected
  <2> DEFINE a == AddAttempt(run, "plan", FALSE)
  <2>1. pc = "call" /\ inflight = "plan"
    BY <1>4 DEF PlanRejected
  <2>2. /\ a \in Runs /\ a.request = run.request
        /\ ~Terminal(a) /\ WithinBudget(a) /\ Counted(a) /\ ~fresh
    BY <2>1, ReturnFacts, AttemptSettles DEF Phases
  <2> HIDE DEF a
  <2>3. Save(a, "none")
    BY <1>4 DEF PlanRejected, a
  <2>4. /\ DiskLedger' /\ disk' # Absent /\ disk'.run = a /\ disk'.inflight = "none"
        /\ run' = a /\ fresh' = FALSE /\ \A q \in Phases : calls'[q] = a.count[q]
    BY <2>2, <2>3, SaveKeepsAccount
  <2>5. ProcessLedger'
    BY <1>4, <2>2, <2>4 DEF PlanRejected, ProcessLedger, WithinBudget, Terminal, Counted
  <2>6. QED
    BY <2>4, <2>5 DEF Ledger
<1>5. QED
  BY <1>1, <1>2, <1>3, <1>4

LEMMA LedgerExecute ==
    ASSUME TypeOK, Ledger, NEW ok \in BOOLEAN, ExecuteAttempt \/ ExecuteReturns(ok)
    PROVE  Ledger'
<1>1. CASE ExecuteAttempt
  <2> DEFINE r == [run EXCEPT !.baseline = ws]
  <2>1. pc = "execute" /\ run \in Runs /\ ws \in Workspaces
    BY <1>1 DEF ExecuteAttempt, TypeOK
  <2>2. /\ r \in Runs /\ r.request = run.request /\ r.stage = run.stage
        /\ r.count = run.count /\ r.executed = run.executed
    BY <2>1 DEF Runs
  <2> HIDE DEF r
  <2>3. Save(r, "execute")
    BY <1>1 DEF ExecuteAttempt, r
  <2>4. /\ WithinBudget(r) /\ ~Terminal(r)
        /\ fresh => \A q \in Phases : r.count[q] = 0
        /\ ~fresh => Counted(r)
    BY <2>1, <2>2, WorkingFacts DEF WithinBudget, Terminal, Counted
  <2>5. Affordable(r, "execute")
    BY <2>1, <2>2 DEF Ledger, ProcessLedger, Affordable
  <2>6. "execute" \in Phases \cup {"none"} /\ "execute" # "none"
    BY DEF Phases
  <2>7. /\ DiskLedger' /\ disk' # Absent /\ disk'.run = r /\ disk'.inflight = "execute"
        /\ run' = r /\ inflight' = "execute" /\ fresh' = FALSE
        /\ \A q \in Phases : calls'[q] = r.count[q]
    BY <2>2, <2>3, <2>4, <2>5, <2>6, SaveKeepsAccount
  <2>8. Counted(run)' /\ WithinBudget(run)' /\ pc' = "invoke"
    BY <1>1, <2>4, <2>7 DEF ExecuteAttempt, WithinBudget, Terminal, Counted
  <2>9. ProcessLedger'
    BY <2>6, <2>7, <2>8 DEF ProcessLedger, Phases
  <2>10. QED
    BY <2>7, <2>9 DEF Ledger
<1>2. CASE ExecuteReturns(ok)
  <2> DEFINE a == AddAttempt(run, "execute", ok)
             r == IF ok THEN a ELSE Finish(a, FALSE, "execution_failed")
  <2>1. pc = "call" /\ inflight = "execute" /\ "execute" \in AttemptStages
    BY <1>2 DEF ExecuteReturns, AttemptStages, Phases
  <2>2. /\ run \in Runs /\ WithinBudget(run) /\ ~fresh /\ disk # Absent
        /\ run = disk.run /\ ~Terminal(run)
        /\ Affordable(run, "execute") /\ CountedBut(run, "execute")
    BY <2>1, ReturnFacts
  <2>3. /\ a \in Runs /\ a.request = run.request /\ a.stage = "execute"
        /\ a.count = [run.count EXCEPT !["execute"] = @ + 1]
    BY <2>1, <2>2, AddAttemptFacts
  <2>4. ok => WithinBudget(a) /\ ~Terminal(a) /\ Counted(a)
    BY <2>2, AttemptSettles DEF Phases
  <2> HIDE DEF a
  <2>5. /\ r \in Runs /\ r.request = run.request /\ r.count = a.count
        /\ ok => r = a
        /\ ~ok => Terminal(r)
    <3> DEFINE f == Finish(a, FALSE, "execution_failed")
    <3>1. f \in Runs /\ Terminal(f) /\ f.request = a.request /\ f.count = a.count
      BY <2>3, FinishFacts DEF Reasons
    <3> HIDE DEF f
    <3>2. r = IF ok THEN a ELSE f
      BY DEF f
    <3>3. CASE ok
      BY <2>3, <3>2, <3>3
    <3>4. CASE ~ok
      BY <2>3, <3>1, <3>2, <3>4
    <3>5. QED
      BY <3>3, <3>4
  <2> HIDE DEF r
  <2>6. Save(r, "none")
    BY <1>2 DEF ExecuteReturns, a, r
  <2>7. Counted(r)
    <3>1. run.count \in [AttemptStages -> Nat] /\ Phases \subseteq AttemptStages
      BY <2>2 DEF Runs, AttemptStages
    <3>2. QED
      BY <2>2, <2>3, <2>5, <3>1 DEF Counted, CountedBut
  <2>8. WithinBudget(r)
    <3>1. CASE ok
      BY <2>4, <2>5, <3>1
    <3>2. CASE ~ok
      <4>1. run.count \in [AttemptStages -> Nat] /\ Phases \subseteq AttemptStages
        BY <2>2 DEF Runs, AttemptStages
      <4>2. /\ r.count["plan"] = run.count["plan"]
            /\ r.count["repair"] = run.count["repair"]
            /\ r.count["execute"] = 1
        BY <2>2, <2>3, <2>5, <4>1 DEF Affordable, Phases
      <4>3. QED
        BY <2>2, <2>5, <3>2, <4>2 DEF WithinBudget
    <3>3. QED
      BY <3>1, <3>2
  <2>9. /\ DiskLedger' /\ disk' # Absent /\ disk'.run = r /\ disk'.inflight = "none"
        /\ run' = r /\ fresh' = FALSE /\ \A q \in Phases : calls'[q] = r.count[q]
    BY <2>2, <2>5, <2>6, <2>7, <2>8, SaveKeepsAccount
  <2>10. (pc' = "validate" /\ ok) \/ (pc' = "final" /\ ~ok)
    BY <1>2 DEF ExecuteReturns
  <2>11. /\ WithinBudget(run)' /\ Counted(run)'
         /\ ok => ~Terminal(run)' /\ ~Terminal(disk.run)'
    BY <2>4, <2>5, <2>8, <2>9 DEF WithinBudget, Terminal, Counted
  <2>12. ProcessLedger'
    BY <2>9, <2>10, <2>11 DEF ProcessLedger
  <2>13. QED
    BY <2>9, <2>12 DEF Ledger
<1>3. QED
  BY <1>1, <1>2

LEMMA LedgerRepair ==
    ASSUME TypeOK, Ledger, NEW ok \in BOOLEAN,
           Validate \/ RepairAttempt \/ RepairReturns(ok) \/ Conclude
    PROVE  Ledger'
<1>1. CASE Validate
  <2> DEFINE a == AddAttempt(run, "validate", TRUE)
             c == Contract(run.baseline, ws)
             r == [a EXCEPT !.report = c]
  <2>1. pc = "validate" /\ run \in Runs /\ ws \in Workspaces /\ run.baseline # Absent
    BY <1>1 DEF Validate, TypeOK
  <2>2. c \in Reports
    BY <2>1, ContractType DEF Runs
  <2>3. "validate" \in AttemptStages /\ TRUE \in BOOLEAN
    BY DEF AttemptStages
  <2>4. /\ a \in Runs /\ a.request = run.request /\ a.stage = "validate"
        /\ a.count = [run.count EXCEPT !["validate"] = @ + 1]
        /\ run.executed => a.executed
    BY <2>1, <2>3, AddAttemptFacts
  <2> HIDE DEF a, c
  <2>5. /\ r \in Runs /\ r.request = run.request /\ r.stage = "validate"
        /\ r.count = a.count /\ r.executed = a.executed
    BY <2>2, <2>4 DEF Runs
  <2> HIDE DEF r
  <2>6. \A q \in Phases : r.count[q] = run.count[q]
    <3>1. run.count \in [AttemptStages -> Nat] /\ "validate" \notin Phases
      BY <2>1 DEF Runs, Phases
    <3>2. QED
      BY <2>4, <2>5, <3>1 DEF AttemptStages
  <2>7. run.executed => r.executed
    BY <2>4, <2>5
  <2>8. /\ WithinBudget(r) /\ ~Terminal(r)
        /\ fresh => \A q \in Phases : r.count[q] = 0
        /\ ~fresh => Counted(r)
    <3>1. /\ WithinBudget(run) /\ ~Terminal(run)
          /\ fresh => \A q \in Phases : run.count[q] = 0
          /\ ~fresh => Counted(run)
      BY <2>1, WorkingFacts
    <3>2. ~Terminal(r)
      BY <2>5 DEF Terminal
    <3>3. WithinBudget(r)
      BY <2>5, <2>6, <2>7, <3>1 DEF WithinBudget, Phases
    <3>4. QED
      BY <2>6, <3>1, <3>2, <3>3 DEF Counted
  <2>9. Save(r, "none")
    BY <1>1 DEF Validate, a, c, r
  <2>10. /\ DiskLedger' /\ disk' # Absent /\ disk'.run = r /\ disk'.inflight = "none"
         /\ run' = r /\ fresh' = FALSE /\ \A q \in Phases : calls'[q] = r.count[q]
    BY <2>5, <2>8, <2>9, SaveKeepsAccount
  <2>11. ProcessLedger'
    BY <1>1, <2>8, <2>10 DEF Validate, ProcessLedger, WithinBudget, Terminal, Counted
  <2>12. QED
    BY <2>10, <2>11 DEF Ledger
<1>2. CASE RepairAttempt
  <2>1. Affordable(run, "repair")
    BY <1>2 DEF RepairAttempt, NeedsRepair, CanAttempt, Limit, Affordable
  <2>2. Save(run, "repair") /\ pc = "repair" /\ "repair" \in Phases
    BY <1>2 DEF RepairAttempt, Phases
  <2>3. /\ run \in Runs /\ WithinBudget(run) /\ ~Terminal(run)
        /\ fresh => \A q \in Phases : run.count[q] = 0
        /\ ~fresh => Counted(run)
    BY <2>2, WorkingFacts
  <2>4. "repair" \in Phases \cup {"none"} /\ "repair" # "none"
    BY DEF Phases
  <2>5. /\ DiskLedger' /\ disk' # Absent /\ disk'.run = run /\ disk'.inflight = "repair"
        /\ run' = run /\ inflight' = "repair" /\ fresh' = FALSE
        /\ \A q \in Phases : calls'[q] = run.count[q]
    BY <2>1, <2>2, <2>3, <2>4, SaveKeepsAccount
  <2>6. Counted(run)' /\ WithinBudget(run)' /\ pc' = "invoke"
    BY <1>2, <2>3, <2>5 DEF RepairAttempt, WithinBudget, Terminal, Counted
  <2>7. ProcessLedger'
    BY <2>2, <2>5, <2>6 DEF ProcessLedger
  <2>8. QED
    BY <2>5, <2>7 DEF Ledger
<1>3. CASE RepairReturns(ok)
  <2> DEFINE a == AddAttempt(run, "repair", ok)
  <2>1. pc = "call" /\ inflight = "repair" /\ UNCHANGED <<disk, calls, fresh>>
    BY <1>3 DEF RepairReturns, durable
  <2>2. /\ a \in Runs /\ a.request = run.request
        /\ ~Terminal(a) /\ WithinBudget(a) /\ Counted(a)
    BY <2>1, ReturnFacts, AttemptSettles DEF Phases
  <2> HIDE DEF a
  <2>3. run' = a /\ pc' \in {"validate", "repair"}
    BY <1>3 DEF RepairReturns, a
  <2>4. /\ ~Terminal(run)' /\ WithinBudget(run)' /\ Counted(run)'
    BY <2>1, <2>2, <2>3 DEF Terminal, WithinBudget, Counted
  <2>5. ~fresh' /\ disk' # Absent /\ disk'.run.request = run'.request /\ ~Terminal(disk.run)'
    BY <2>1, <2>2, <2>3, ReturnFacts DEF Terminal
  <2>6. ProcessLedger'
    BY <2>3, <2>4, <2>5 DEF ProcessLedger
  <2>7. QED
    BY <2>1, <2>6, DiskLedgerKept DEF Ledger
<1>4. CASE Conclude
  <2> DEFINE r == Verdicts(run)
  <2>1. pc = "repair" /\ run \in Runs
    BY <1>4 DEF Conclude, TypeOK
  <2>2. /\ r \in Runs /\ Terminal(r)
        /\ r.request = run.request /\ r.count = run.count
    BY <2>1, VerdictsFacts
  <2> HIDE DEF r
  <2>3. Save(r, "none")
    BY <1>4 DEF Conclude, r
  <2>4. /\ WithinBudget(r)
        /\ fresh => \A q \in Phases : r.count[q] = 0
        /\ ~fresh => Counted(r)
    BY <2>1, <2>2, WorkingFacts DEF WithinBudget, Counted
  <2>5. /\ DiskLedger' /\ disk' # Absent /\ disk'.run = r /\ disk'.inflight = "none"
        /\ run' = r /\ fresh' = FALSE
    BY <2>2, <2>3, <2>4, SaveKeepsAccount
  <2>6. ProcessLedger'
    BY <1>4, <2>4, <2>5 DEF Conclude, ProcessLedger, WithinBudget, Terminal
  <2>7. QED
    BY <2>5, <2>6 DEF Ledger
<1>5. QED
  BY <1>1, <1>2, <1>3, <1>4

(* The closing checkpoint saves what is on disk already.                   *)
LEMMA LedgerClose ==
    ASSUME TypeOK, Ledger, FinalCheckpoint
    PROVE  Ledger'
<1>1. /\ pc = "final" /\ ~fresh /\ run = disk.run /\ disk.inflight = "none"
      /\ disk # Absent /\ disk \in Checkpoints
  BY DEF FinalCheckpoint, Ledger, ProcessLedger, TypeOK
<1>2. disk = [run |-> run, inflight |-> "none"]
  BY <1>1 DEF Checkpoints
<1>3. disk' = disk /\ calls' = calls /\ run' = run /\ fresh' = FALSE
  BY <1>1, <1>2 DEF FinalCheckpoint, Save
<1>4. DiskLedger'
  BY <1>3, DiskLedgerKept DEF Ledger
<1>5. WithinBudget(run)'
  BY <1>1, <1>3 DEF Ledger, ProcessLedger, WithinBudget, Terminal
<1>6. ProcessLedger'
  BY <1>1, <1>3, <1>5 DEF FinalCheckpoint, ProcessLedger
<1>7. QED
  BY <1>4, <1>6 DEF Ledger

(* The call the checkpoint announces is made.                              *)
LEMMA LedgerInvoke ==
    ASSUME TypeOK, Ledger, Invoke
    PROVE  Ledger'
<1>1. /\ pc = "invoke" /\ ~fresh /\ disk # Absent
      /\ run = disk.run /\ inflight = disk.inflight /\ inflight \in Phases
      /\ Counted(run) /\ WithinBudget(run)
  BY DEF Invoke, Ledger, ProcessLedger
<1>2. /\ UNCHANGED <<disk, run, inflight, fresh>> /\ pc' = "call"
      /\ calls' = [calls EXCEPT ![inflight] = @ + 1]
  BY DEF Invoke, durable
<1>3. CountedBut(run, inflight)'
  <2>1. run \in Runs /\ calls \in [Phases -> Nat]
    BY <1>1 DEF TypeOK
  <2>2. \A p \in Phases : calls'[p] = run.count[p] + IF p = inflight THEN 1 ELSE 0
    BY <1>1, <1>2, <2>1, CountTypes DEF Counted
  <2>3. QED
    BY <1>2, <2>2 DEF CountedBut
<1>4. inflight # "none"
  BY <1>1 DEF Phases
<1>5. DiskLedger'
  <2>1. WithinBudget(disk.run) /\ ~Terminal(disk.run) /\ Affordable(disk.run, disk.inflight)
    BY <1>1, <1>4 DEF Ledger, DiskLedger
  <2>2. (WithinBudget(disk.run) /\ ~Terminal(disk.run) /\ Affordable(disk.run, disk.inflight))'
    BY <2>1, <1>2 DEF WithinBudget, Terminal, Affordable
  <2>3. CountedBut(disk.run, disk.inflight)'
    BY <1>1, <1>2, <1>3 DEF CountedBut
  <2>4. disk'.inflight # "none"
    BY <1>1, <1>2, <1>4
  <2>5. QED
    BY <2>2, <2>3, <2>4 DEF DiskLedger
<1>6. WithinBudget(run)'
  BY <1>1, <1>2 DEF WithinBudget, Terminal
<1>7. ProcessLedger'
  BY <1>1, <1>2, <1>3, <1>6 DEF ProcessLedger
<1>8. QED
  BY <1>5, <1>7 DEF Ledger

-----------------------------------------------------------------------------
(* The checkpoint and the process keep the same account of the calls made, *)
(* through every crash and resume.                                         *)
THEOREM LedgerCorrect == Spec => []Ledger
<1>1. TypeOK /\ Ledger /\ [Next]_vars => Ledger'
  <2> SUFFICES ASSUME TypeOK, Ledger, [Next]_vars PROVE Ledger'
    OBVIOUS
  <2>1. ASSUME NEW r \in Requests, StartFresh(r) \/ Resume(r) PROVE Ledger'
    BY <2>1, LedgerStart
  <2>2. ASSUME RefuseInflight \/ ReplayTerminal \/ CapabilityMismatch \/ Proceed
        PROVE  Ledger'
    BY <2>2, LedgerBegin
  <2>3. ASSUME PlanAttempt \/ PlanExhausted \/ PlanAccepted \/ PlanRejected
        PROVE  Ledger'
    BY <2>3, LedgerPlan
  <2>4. ASSUME NEW ok \in BOOLEAN, ExecuteAttempt \/ ExecuteReturns(ok) PROVE Ledger'
    BY <2>4, LedgerExecute
  <2>5. ASSUME NEW ok \in BOOLEAN,
               Validate \/ RepairAttempt \/ RepairReturns(ok) \/ Conclude
        PROVE  Ledger'
    BY <2>5, LedgerRepair
  <2>6. CASE FinalCheckpoint
    BY <2>6, LedgerClose
  <2>7. CASE WriteResult
    BY <2>7, LedgerExit DEF WriteResult
  <2>8. CASE Invoke
    BY <2>8, LedgerInvoke
  <2>9. CASE RetryTransport
    BY <2>9, LedgerIdle DEF RetryTransport, durable
  <2>10. CASE ExecutorWrites
    BY <2>10, LedgerIdle DEF ExecutorWrites, process
  <2>11. CASE OrphanExits
    BY <2>11, LedgerIdle DEF OrphanExits, durable, process
  <2>12. CASE Crash
    BY <2>12, LedgerExit DEF Crash, durable
  <2>13. CASE UNCHANGED vars
    BY <2>13, LedgerIdle DEF vars
  <2>14. QED
    BY <2>1, <2>2, <2>3, <2>4, <2>5, <2>6, <2>7, <2>8, <2>9, <2>10, <2>11, <2>12,
       <2>13 DEF Next, Step, CallReturns
<1>2. QED
  BY <1>1, LedgerInit, TypeCorrect, PTL DEF Spec

(* However a run is interrupted, its calls stay within its budgets.        *)
THEOREM BudgetsHold == Spec => []CallsWithinBudget
<1>1. TypeOK /\ Ledger => CallsWithinBudget
  <2> SUFFICES ASSUME TypeOK, Ledger, disk # Absent
               PROVE  /\ calls["plan"] <= PlanBudget[disk.run.request]
                      /\ calls["execute"] <= 1
                      /\ calls["repair"] <= ArtifactBudget[disk.run.request]
    BY DEF CallsWithinBudget
  <2> DEFINE r == disk.run
  <2>1. r \in Runs
    BY DEF TypeOK, Checkpoints
  <2> HIDE DEF r
  <2>2. WithinBudget(r)
    BY DEF Ledger, DiskLedger, r
  <2>3. \/ Counted(r)
        \/ \E lost \in Phases : CountedBut(r, lost) /\ Affordable(r, lost)
    <3>1. disk.inflight \in Phases \cup {"none"}
      BY DEF TypeOK, Checkpoints
    <3>2. QED
      BY <3>1 DEF Ledger, DiskLedger, r
  <2>4. /\ calls["plan"] <= PlanBudget[r.request]
        /\ calls["execute"] <= 1
        /\ calls["repair"] <= ArtifactBudget[r.request]
    <3>1. CASE Counted(r)
      BY <2>2, <3>1 DEF Counted, WithinBudget, Phases
    <3>2. ASSUME NEW lost \in Phases, CountedBut(r, lost), Affordable(r, lost)
          PROVE  /\ calls["plan"] <= PlanBudget[r.request]
                 /\ calls["execute"] <= 1
                 /\ calls["repair"] <= ArtifactBudget[r.request]
      BY <2>1, <2>2, <3>2, CountTypes DEF CountedBut, Affordable, WithinBudget, Phases
    <3>3. QED
      BY <2>3, <3>1, <3>2
  <2>5. QED
    BY <2>4 DEF r
<1>2. QED
  BY <1>1, TypeCorrect, LedgerCorrect, PTL

(* The attempts of a finished run account for every call made for it.      *)
THEOREM AccountHolds == Spec => []CallsAccounted
<1>1. TypeOK /\ Ledger => CallsAccounted
  <2> SUFFICES ASSUME TypeOK, Ledger, disk # Absent, Terminal(disk.run)
               PROVE  \E lost \in Phases \cup {"none"} :
                        /\ lost # "none" => disk.run.reason = "resume_inflight_unknown"
                        /\ \A p \in Phases :
                             calls[p] = disk.run.count[p] + IF p = lost THEN 1 ELSE 0
    BY DEF CallsAccounted
  <2> DEFINE r == disk.run
  <2>1. r \in Runs
    BY DEF TypeOK, Checkpoints
  <2>2. disk.inflight = "none"
    BY DEF Ledger, DiskLedger
  <2>3. \/ Counted(r)
        \/ r.reason = "resume_inflight_unknown" /\ \E lost \in Phases : CountedBut(r, lost)
    BY <2>2 DEF Ledger, DiskLedger
  <2> HIDE DEF r
  <2>4. CASE Counted(r)
    <3>1. \A p \in Phases : calls[p] = r.count[p] + IF p = "none" THEN 1 ELSE 0
      BY <2>1, <2>4, CountTypes DEF Counted, Phases
    <3>2. QED
      BY <3>1 DEF r
  <2>5. CASE r.reason = "resume_inflight_unknown" /\ \E lost \in Phases : CountedBut(r, lost)
    BY <2>5 DEF CountedBut, r
  <2>6. QED
    BY <2>3, <2>4, <2>5
<1>2. QED
  BY <1>1, TypeCorrect, LedgerCorrect, PTL

-----------------------------------------------------------------------------
(* What is finished stays finished, and what outlives a process is known.  *)

(* Of a run that is not contested: a call that outlives its process is     *)
(* still announced by the checkpoint, or the run has been given up because *)
(* of it, so that a process that resumes goes no further than start-up.    *)
(* And a process that ends has finished its run.                           *)
Haunted == orphan /\ ~contested

Contained ==
    /\ Haunted =>
        /\ disk # Absent
        /\ disk.inflight # "none" \/ Terminal(disk.run)
        /\ pc \in {"down", "begin", "report"} \/ fresh
    /\ pc \in {"final", "report"} => Terminal(run)

(* A checkpoint is replaced only while its run is open, or by a run begun  *)
(* from scratch.                                                           *)
LEMMA SaveReplacesOpenRun ==
    ASSUME TypeOK, Ledger, Next, disk # Absent, Terminal(disk.run), ~fresh
    PROVE  disk' = disk
<1>1. CASE pc \in {"plan", "execute", "validate", "repair"}
  BY <1>1 DEF Ledger, ProcessLedger
<1>2. ASSUME pc \in {"invoke", "call"} PROVE FALSE
  <2>1. run = disk.run /\ disk.inflight \in Phases
    BY <1>2 DEF Ledger, ProcessLedger
  <2>2. disk.inflight # "none"
    BY <2>1 DEF Phases
  <2>3. QED
    BY <2>2 DEF Ledger, DiskLedger
<1>3. CASE pc = "begin"
  <2>1. run = disk.run /\ inflight = "none"
    BY <1>3 DEF Ledger, ProcessLedger, DiskLedger
  <2>2. QED
    BY <1>3, <2>1 DEF Next, Step, CallReturns, StartFresh, Resume, RefuseInflight,
       ReplayTerminal, CapabilityMismatch, Proceed, PlanAttempt, PlanExhausted,
       PlanAccepted, PlanRejected, ExecuteAttempt, ExecuteReturns, Validate,
       RepairAttempt, RepairReturns, Conclude, FinalCheckpoint, WriteResult, Invoke,
       RetryTransport, ExecutorWrites, OrphanExits, Crash, durable
<1>4. CASE pc = "final"
  <2>1. disk = [run |-> run, inflight |-> "none"]
    BY <1>4 DEF Ledger, ProcessLedger, TypeOK, Checkpoints
  <2>2. FinalCheckpoint => disk' = disk
    BY <2>1 DEF FinalCheckpoint, Save
  <2>3. QED
    BY <1>4, <2>2 DEF Next, Step, CallReturns, StartFresh, Resume, RefuseInflight,
       ReplayTerminal, CapabilityMismatch, Proceed, PlanAttempt, PlanExhausted,
       PlanAccepted, PlanRejected, ExecuteAttempt, ExecuteReturns, Validate,
       RepairAttempt, RepairReturns, Conclude, WriteResult, Invoke,
       RetryTransport, ExecutorWrites, OrphanExits, Crash, durable
<1>5. CASE pc \in {"down", "report"}
  BY <1>5 DEF Next, Step, CallReturns, StartFresh, Resume, RefuseInflight,
     ReplayTerminal, CapabilityMismatch, Proceed, PlanAttempt, PlanExhausted,
     PlanAccepted, PlanRejected, ExecuteAttempt, ExecuteReturns, Validate,
     RepairAttempt, RepairReturns, Conclude, FinalCheckpoint, WriteResult, Invoke,
     RetryTransport, ExecutorWrites, OrphanExits, Crash, durable
<1>6. QED
  BY <1>1, <1>2, <1>3, <1>4, <1>5 DEF TypeOK, Locations

(* A finished checkpoint is only ever replaced by a run begun from scratch.*)
THEOREM TerminalStaysFinal == Spec => TerminalIsFinal
<1>1. /\ TypeOK /\ Ledger /\ [Next]_vars
      => [disk # Absent /\ Terminal(disk.run) /\ ~fresh => disk' = disk]_vars
  BY SaveReplacesOpenRun DEF vars
<1>2. QED
  BY <1>1, TypeCorrect, LedgerCorrect, PTL DEF Spec, TerminalIsFinal

(* A checkpoint of a process that began while a call was left over makes   *)
(* the run contested; one of any other process leaves that as it is.       *)
LEMMA SavedHaunted ==
    ASSUME TypeOK, NEW r, NEW p, Save(r, p), orphan' = orphan, Haunted => fresh
    PROVE  ~Haunted'
<1>1. contested' = IF fresh THEN orphan ELSE contested
  BY DEF Save
<1>2. CASE fresh
  BY <1>1, <1>2 DEF Haunted
<1>3. CASE ~fresh
  BY <1>1, <1>3 DEF Haunted
<1>4. QED
  BY <1>2, <1>3

LEMMA ContainedStep ==
    ASSUME TypeOK, Ledger, Contained, [Next]_vars
    PROVE  Contained'
<1>1. ASSUME NEW r \in Requests, StartFresh(r) \/ Resume(r) PROVE Contained'
  <2>1. pc' = "begin" /\ UNCHANGED <<disk, orphan, contested>>
    BY <1>1 DEF StartFresh, Resume
  <2>2. QED
    BY <2>1 DEF Contained, Haunted, Terminal
<1>2. CASE RefuseInflight
  <2> DEFINE f == Finish(run, FALSE, "resume_inflight_unknown")
  <2>1. run \in Runs
    BY <1>2 DEF RefuseInflight, TypeOK
  <2>2. f \in Runs /\ Terminal(f)
    BY <2>1, FinishFacts DEF Reasons
  <2> HIDE DEF f
  <2>3. disk' = [run |-> f, inflight |-> "none"] /\ run' = f /\ pc' = "report"
    BY <1>2 DEF RefuseInflight, Save, f
  <2>4. disk' # Absent
    BY <2>2, <2>3, AbsentAssumption DEF Checkpoints
  <2>5. QED
    BY <2>2, <2>3, <2>4 DEF Contained, Terminal
<1>3. CASE ReplayTerminal
  <2>1. Terminal(run) /\ pc' = "report" /\ UNCHANGED <<disk, run, orphan, contested>>
    BY <1>3 DEF ReplayTerminal, durable
  <2>2. QED
    BY <2>1 DEF Contained, Haunted, Terminal
<1>4. ASSUME pc = "begin", inflight = "none", ~Terminal(run) PROVE Haunted => fresh
  BY <1>4 DEF Contained, Ledger, ProcessLedger
<1>5. CASE CapabilityMismatch
  <2> DEFINE f == Finish(run, FALSE, "executor_capability_mismatch")
  <2>1. run \in Runs /\ (Haunted => fresh)
    BY <1>4, <1>5 DEF CapabilityMismatch, TypeOK
  <2>2. Terminal(f)
    BY <2>1, FinishFacts DEF Reasons
  <2> HIDE DEF f
  <2>3. Save(f, "none") /\ run' = f /\ orphan' = orphan
    BY <1>5 DEF CapabilityMismatch, Save, f
  <2>4. ~Haunted'
    BY <2>1, <2>3, SavedHaunted
  <2>5. QED
    BY <2>2, <2>3, <2>4 DEF Contained, Terminal
<1>6. CASE Proceed
  <2>1. /\ Haunted => fresh
        /\ pc' \in {"plan", "validate", "execute"}
        /\ UNCHANGED <<disk, run, fresh, orphan, contested>>
    BY <1>4, <1>6 DEF Proceed, AfterPlan, durable
  <2>2. QED
    BY <2>1 DEF Contained, Haunted, Terminal
<1>7. CASE PlanExhausted
  <2> DEFINE f == Finish(run, FALSE, "plan_validation_exhausted")
  <2>1. run \in Runs /\ (Haunted => fresh)
    BY <1>7 DEF PlanExhausted, TypeOK, Contained
  <2>2. Terminal(f)
    BY <2>1, FinishFacts DEF Reasons
  <2> HIDE DEF f
  <2>3. Save(f, "none") /\ run' = f /\ orphan' = orphan
    BY <1>7 DEF PlanExhausted, Save, f
  <2>4. ~Haunted'
    BY <2>1, <2>3, SavedHaunted
  <2>5. QED
    BY <2>2, <2>3, <2>4 DEF Contained, Terminal
<1>8. ASSUME NEW ok \in BOOLEAN, ExecuteReturns(ok) PROVE Contained'
  <2> DEFINE a == AddAttempt(run, "execute", ok)
             f == Finish(a, FALSE, "execution_failed")
  <2>1. run \in Runs /\ (Haunted => fresh) /\ "execute" \in AttemptStages
    BY <1>8 DEF ExecuteReturns, TypeOK, Contained, AttemptStages, Phases
  <2>2. a \in Runs
    BY <2>1, AddAttemptFacts
  <2>3. Terminal(f)
    BY <2>2, FinishFacts DEF Reasons
  <2> DEFINE r == IF ok THEN a ELSE f
  <2> HIDE DEF a, f
  <2>4. Terminal(r) \/ ok
    BY <2>3
  <2>5. Save(r, "none")
    BY <1>8 DEF ExecuteReturns, a, f
  <2> HIDE DEF r
  <2>6. run' = r /\ orphan' = orphan /\ pc' = IF ok THEN "validate" ELSE "final"
    BY <1>8, <2>5 DEF ExecuteReturns, Save
  <2>7. ~Haunted'
    BY <2>1, <2>5, <2>6, SavedHaunted
  <2>8. QED
    BY <2>4, <2>6, <2>7 DEF Contained, Terminal
<1>9. CASE Conclude
  <2>1. run \in Runs /\ (Haunted => fresh)
    BY <1>9 DEF Conclude, TypeOK, Contained
  <2>2. Terminal(Verdicts(run))
    BY <2>1, VerdictsFacts
  <2>3. Save(Verdicts(run), "none") /\ run' = Verdicts(run) /\ orphan' = orphan
    BY <1>9 DEF Conclude, Save
  <2>4. ~Haunted'
    BY <2>1, <2>3, SavedHaunted
  <2>5. QED
    BY <2>2, <2>3, <2>4 DEF Contained, Terminal
<1>10. CASE PlanAttempt \/ ExecuteAttempt \/ Validate \/ RepairAttempt
  <2>1. /\ Haunted => fresh
        /\ orphan' = orphan
        /\ pc' \in {"invoke", "repair"}
        /\ \E r, p : Save(r, p)
    BY <1>10 DEF PlanAttempt, ExecuteAttempt, Validate, RepairAttempt, Contained
  <2>2. ~Haunted'
    BY <2>1, SavedHaunted
  <2>3. QED
    BY <2>1, <2>2 DEF Contained
<1>11. CASE PlanAccepted \/ PlanRejected \/ \E ok \in BOOLEAN : RepairReturns(ok)
  <2>1. pc = "call" /\ orphan' = orphan
    BY <1>11 DEF PlanAccepted, PlanRejected, RepairReturns
  <2>2. pc' \in {"validate", "execute", "plan", "repair"}
    <3>1. PlanAccepted => pc' \in {"validate", "execute"}
      BY DEF PlanAccepted, AfterPlan
    <3>2. PlanRejected => pc' = "plan"
      BY DEF PlanRejected
    <3>3. ASSUME NEW ok \in BOOLEAN, RepairReturns(ok) PROVE pc' \in {"validate", "repair"}
      BY <3>3 DEF RepairReturns
    <3>4. QED
      BY <1>11, <3>1, <3>2, <3>3
  <2>3. Haunted => fresh
    BY <2>1 DEF Contained
  <2>4. ~fresh
    BY <2>1 DEF Ledger, ProcessLedger
  <2>5. PlanRejected => ~Haunted'
    BY <2>1, <2>3, SavedHaunted DEF PlanRejected
  <2>6. PlanAccepted \/ (\E ok \in BOOLEAN : RepairReturns(ok)) => contested' = contested
    BY DEF PlanAccepted, RepairReturns
  <2>7. ~Haunted'
    BY <1>11, <2>1, <2>3, <2>4, <2>5, <2>6 DEF Haunted
  <2>8. QED
    BY <2>2, <2>7 DEF Contained
<1>12. CASE FinalCheckpoint
  <2>1. Save(run, "none") /\ orphan' = orphan /\ pc = "final" /\ pc' = "report"
    BY <1>12 DEF FinalCheckpoint
  <2>2. run' = run /\ Terminal(run) /\ (Haunted => fresh)
    BY <2>1 DEF Save, Contained
  <2>3. ~Haunted'
    BY <2>1, <2>2, SavedHaunted
  <2>4. QED
    BY <2>2, <2>3 DEF Contained, Terminal
<1>13. CASE WriteResult
  <2>1. pc' = "down" /\ UNCHANGED <<disk, orphan, contested>>
    BY <1>13 DEF WriteResult, Exit
  <2>2. QED
    BY <2>1 DEF Contained, Haunted, Terminal
<1>14. CASE Invoke \/ RetryTransport
  <2>1. /\ pc \in {"invoke", "call"} /\ pc' = "call"
        /\ UNCHANGED <<disk, fresh, orphan, contested>>
    BY <1>14 DEF Invoke, RetryTransport, durable
  <2>2. QED
    BY <2>1 DEF Contained, Haunted, Terminal
<1>15. CASE ExecutorWrites \/ OrphanExits
  <2>1. UNCHANGED <<disk, pc, run, fresh, contested>> /\ (orphan' => orphan)
    BY <1>15 DEF ExecutorWrites, OrphanExits, durable, process
  <2>2. QED
    BY <2>1 DEF Contained, Haunted, Terminal
<1>16. CASE Crash
  <2>1. pc = "call" => disk # Absent /\ disk.inflight # "none"
    BY DEF Ledger, ProcessLedger, Phases
  <2>2. /\ pc' = "down" /\ UNCHANGED <<disk, contested>>
        /\ orphan' => orphan \/ pc = "call"
    BY <1>16 DEF Crash, Exit, durable
  <2>3. QED
    BY <2>1, <2>2 DEF Contained, Haunted, Terminal
<1>17. CASE UNCHANGED vars
  BY <1>17 DEF vars, Contained, Haunted, Terminal
<1>18. QED
  BY <1>1, <1>2, <1>3, <1>5, <1>6, <1>7, <1>8, <1>9, <1>10, <1>11, <1>12, <1>13,
     <1>14, <1>15, <1>16, <1>17 DEF Next, Step, CallReturns

LEMMA ContainedAlways == Spec => []Contained
<1>1. Init => Contained
  BY DEF Init, Contained, Haunted
<1>2. QED
  BY <1>1, ContainedStep, TypeCorrect, LedgerCorrect, PTL DEF Spec

(* A process that resumes, or works on a run that was begun when no call   *)
(* was left over, neither validates the workspace nor calls a model on it  *)
(* while a call that outlived an earlier process may be writing there.     *)
(* Runs begun without resume beside such a call are contested, and not     *)
(* spoken of.                                                              *)
THEOREM NoReadOfOrphan == Spec => []NoOrphanedReads
<1>1. Contained => NoOrphanedReads
  BY DEF Contained, Haunted, NoOrphanedReads
<1>2. QED
  BY <1>1, ContainedAlways, PTL

(* The result file is written from a checkpoint that is finished on disk.  *)
THEOREM ResultIsDurable == Spec => ResultFollowsCheckpoint
<1>1. ASSUME Ledger, Contained, WriteResult
      PROVE  Terminal(disk.run) /\ disk.inflight = "none" /\ result' = Outcome(disk.run)
  BY <1>1 DEF WriteResult, Ledger, ProcessLedger, Contained
<1>2. Next => WriteResult \/ result' = result
  BY DEF Next, Step, CallReturns, StartFresh, Resume, RefuseInflight,
     ReplayTerminal, CapabilityMismatch, Proceed, PlanAttempt, PlanExhausted,
     PlanAccepted, PlanRejected, ExecuteAttempt, ExecuteReturns, Validate,
     RepairAttempt, RepairReturns, Conclude, FinalCheckpoint, Invoke,
     RetryTransport, ExecutorWrites, OrphanExits, Crash, durable
<1>3. Ledger /\ Contained /\ [Next]_vars
      => [result' # result =>
            /\ Terminal(disk.run)
            /\ disk.inflight = "none"
            /\ result' = Outcome(disk.run)]_vars
  BY <1>1, <1>2 DEF vars
<1>4. QED
  BY <1>3, LedgerCorrect, ContainedAlways, PTL DEF Spec, ResultFollowsCheckpoint

=============================================================================
