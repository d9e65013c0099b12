----------------------- MODULE ExecuteRefinementProofs -----------------------
(***************************************************************************)
(* Proofs that a run's success stands, that its baseline stays, and that   *)
(* ExecuteProtocol implements RunContract, for every set of requests,      *)
(* budgets, workspace, contract and number of crashes.                     *)
(***************************************************************************)
EXTENDS ExecuteRefinement, ExecuteProtocolProofs

Working == pc \in {"plan", "execute", "validate", "repair"}
Calling(p) == pc \in {"invoke", "call"} /\ inflight = p

(* The plan comes before the execution, and the execution before any       *)
(* validation or repair.                                                   *)
PlanFirst(r) ==
    /\ r.plan => r.count["plan"] > 0
    /\ Structured[r.request] /\ r.count["execute"] > 0 => r.plan
    /\ r.executed => r.count["execute"] = 1

(* Where the process is says what its run has done, and the attempts it    *)
(* remembers are those the checkpoint records or announces.                *)
Order ==
    /\ disk # Absent => PlanFirst(disk.run)
    /\ pc # "down" => PlanFirst(run)
    /\ pc = "plan" \/ Calling("plan") => Structured[run.request] /\ ~run.plan
    /\ pc = "execute" \/ Calling("execute") => (Structured[run.request] => run.plan)
    /\ pc \in {"validate", "repair"} \/ Calling("repair") => run.executed
    /\ Working /\ ~fresh => \A p \in Phases : RunUsed[p] = run.count[p]

(* A process that did not begin its run measures from the baseline on disk.*)
SameBaseline == pc # "down" /\ ~fresh => run.baseline = disk.run.baseline

(* A report without failures is that of the workspace as it is, unless the *)
(* run is contested: only a repair, which has failures to repair, leaves a *)
(* report behind.                                                          *)
Validated ==
    /\ pc = "repair" =>
        /\ run.baseline # Absent
        /\ Failures(run.report) = {} /\ ~contested
              => run.report = Contract(run.baseline, ws)
    /\ Calling("repair") => run.baseline # Absent /\ Failures(run.report) # {}
    /\ Haunted => disk.run.stage # "complete"
    /\ SuccessIsValidated

-----------------------------------------------------------------------------
(* What finishing a run, recording an attempt and saving leave alone.      *)
LEMMA FinishKeeps ==
    ASSUME NEW r \in Runs, NEW success \in BOOLEAN, NEW why \in Reasons
    PROVE  /\ Finish(r, success, why).plan = r.plan
           /\ Finish(r, success, why).baseline = r.baseline
           /\ Finish(r, success, why).report = r.report
BY DEF Finish, Runs

(* add_attempt keeps the plan, the baseline and the validations.           *)
LEMMA AddAttemptKeeps ==
    ASSUME NEW r \in Runs, NEW s \in AttemptStages, NEW ok \in BOOLEAN
    PROVE  /\ AddAttempt(r, s, ok).plan = r.plan
           /\ AddAttempt(r, s, ok).baseline = r.baseline
           /\ AddAttempt(r, s, ok).report = r.report
<1> DEFINE e == r.executed \/ (s = "execute" /\ ok)
           c == [r.count EXCEPT ![s] = @ + 1]
           R == [r EXCEPT !.stage = s, !.count = c, !.executed = e]
<1>1. AddAttempt(r, s, ok) = R
  BY Zenon DEF AddAttempt
<1> HIDE DEF e, c
<1>2. R.plan = r.plan /\ R.baseline = r.baseline /\ R.report = r.report
  BY DEF Runs
<1>3. QED
  BY <1>1, <1>2, Zenon

(* Only an execution that passed raises the EXECUTE flag.                  *)
LEMMA AttemptExecutes ==
    ASSUME NEW r \in Runs, NEW s \in AttemptStages, NEW ok \in BOOLEAN
    PROVE  /\ s # "execute" => AddAttempt(r, s, ok).executed = r.executed
           /\ s = "execute" /\ ok => AddAttempt(r, s, ok).executed
<1> DEFINE e == r.executed \/ (s = "execute" /\ ok)
           c == [r.count EXCEPT ![s] = @ + 1]
           R == [r EXCEPT !.stage = s, !.count = c, !.executed = e]
<1>1. AddAttempt(r, s, ok) = R
  BY Zenon DEF AddAttempt
<1>2. /\ s # "execute" => e = r.executed
      /\ s = "execute" /\ ok => e
  BY DEF Runs
<1> HIDE DEF e, c
<1>3. R.executed = e
  BY DEF Runs
<1> HIDE DEF R
<1>4. QED
  BY <1>1, <1>2, <1>3

(* A verdict keeps them too, and says success only of a report in which    *)
(* nothing failed and nothing required was left unchecked.                 *)
LEMMA VerdictsKeep ==
    ASSUME NEW r \in Runs
    PROVE  /\ Verdicts(r).plan = r.plan
           /\ Verdicts(r).baseline = r.baseline
           /\ Verdicts(r).report = r.report
           /\ Verdicts(r).stage = "complete" =>
                /\ Failures(r.report) = {}
                /\ RequiredUnsupported(r.report) = {}
<1> DEFINE why == {"validation_unsupported", "artifact_validation_exhausted", "success"}
<1>1. \E ok \in BOOLEAN, w \in why :
        /\ Verdicts(r) = Finish(r, ok, w)
        /\ ok => Failures(r.report) = {} /\ RequiredUnsupported(r.report) = {}
  BY DEF Verdicts
<1>2. why \subseteq Reasons
  BY DEF Reasons
<1> HIDE DEF why
<1>3. QED
  BY <1>1, <1>2, FinishFacts, FinishKeeps

(* What a checkpoint makes of the two files and of the process.            *)
LEMMA Saved ==
    ASSUME NEW r \in Runs, NEW p \in Phases \cup {"none"}, Save(r, p)
    PROVE  /\ disk' # Absent
           /\ disk'.run = r
           /\ disk'.inflight = p
           /\ run' = r
           /\ inflight' = p
           /\ fresh' = FALSE
           /\ calls' = IF fresh THEN NoCalls ELSE calls
           /\ \A q \in Phases : RunUsed'[q] = r.count[q] + IF q = p THEN 1 ELSE 0
<1>1. disk' = [run |-> r, inflight |-> p]
  BY DEF Save
<1>2. disk' # Absent /\ disk'.run = r /\ disk'.inflight = p
  BY <1>1, AbsentAssumption DEF Checkpoints
<1>3. QED
  BY <1>2 DEF Save, RunUsed

-----------------------------------------------------------------------------
(* The order of a run's stages.                                            *)

LEMMA PlanFirstFinish ==
    ASSUME NEW r \in Runs, PlanFirst(r), NEW success \in BOOLEAN, NEW why \in Reasons
    PROVE  PlanFirst(Finish(r, success, why))
BY FinishFacts, FinishKeeps DEF PlanFirst

(* Recording an attempt keeps the order if the execution comes after the   *)
(* plan and there is none before it.                                       *)
LEMMA PlanFirstAttempt ==
    ASSUME NEW r \in Runs, PlanFirst(r), NEW s \in AttemptStages, NEW ok \in BOOLEAN,
           s = "execute" => /\ r.count["execute"] = 0
                            /\ Structured[r.request] => r.plan
    PROVE  PlanFirst(AddAttempt(r, s, ok))
<1> DEFINE a == AddAttempt(r, s, ok)
<1>1. /\ a.request = r.request
      /\ a.count = [r.count EXCEPT ![s] = @ + 1]
      /\ a.executed = (r.executed \/ (s = "execute" /\ ok))
      /\ a.plan = r.plan
  BY AddAttemptFacts, AddAttemptKeeps
<1> HIDE DEF a
<1>2. r.count \in [AttemptStages -> Nat] /\ {"plan", "execute"} \subseteq AttemptStages
  BY DEF Runs, AttemptStages, Phases
<1>3. a.plan => a.count["plan"] > 0
  BY <1>1, <1>2 DEF PlanFirst
<1>4. Structured[a.request] /\ a.count["execute"] > 0 => a.plan
  BY <1>1, <1>2 DEF PlanFirst
<1>5. a.executed => a.count["execute"] = 1
  <2>1. CASE s = "execute"
    BY <1>1, <1>2, <2>1
  <2>2. CASE s # "execute"
    BY <1>1, <1>2, <2>2 DEF PlanFirst
  <2>3. QED
    BY <2>1, <2>2
<1>6. QED
  BY <1>3, <1>4, <1>5 DEF PlanFirst, a

(* Steps that write no checkpoint and end or keep the process.             *)
LEMMA OrderExit ==
    ASSUME Order, UNCHANGED disk, Exit
    PROVE  Order'
BY DEF Order, Exit, PlanFirst, Calling, Working

LEMMA OrderIdle ==
    ASSUME Order, UNCHANGED <<disk, pc, run, inflight, fresh>>
    PROVE  Order'
BY DEF Order, PlanFirst, Calling, Working, RunUsed

(* Start-up, before anything is saved.                                     *)
LEMMA OrderStart ==
    ASSUME TypeOK, Order, NEW r \in Requests, StartFresh(r) \/ Resume(r)
    PROVE  Order'
<1>1. CASE StartFresh(r)
  <2>1. PlanFirst(NewRun(r))
    BY DEF PlanFirst, NewRun, AttemptStages, Phases
  <2>2. QED
    BY <1>1, <2>1 DEF StartFresh, Order, PlanFirst, Calling, Working
<1>2. CASE Resume(r)
  <2>1. disk \in Checkpoints
    BY <1>2 DEF Resume, TypeOK
  <2>2. run' = disk.run
    BY <1>2, <2>1 DEF Resume, DigestMatches, Checkpoints, Runs
  <2>3. QED
    BY <1>2, <2>2 DEF Resume, Order, PlanFirst, Calling, Working
<1>3. QED
  BY <1>1, <1>2

(* A run that is finished on disk as the process goes on to its report.    *)
LEMMA OrderFinish ==
    ASSUME NEW r \in Runs, PlanFirst(r), Save(r, "none"), pc' \in {"report", "final"}
    PROVE  Order'
BY Saved DEF Order, PlanFirst, Calling, Working

(* A checkpoint before a call, the process waiting for it.                 *)
LEMMA OrderCall ==
    ASSUME NEW r \in Runs, NEW p \in Phases, PlanFirst(r), Save(r, p), pc' = "invoke",
           p = "plan" => Structured[r.request] /\ ~r.plan,
           p = "execute" => (Structured[r.request] => r.plan),
           p = "repair" => r.executed
    PROVE  Order'
BY Saved DEF Order, PlanFirst, Calling, Working

(* From start-up to the first stage or to an early end.                    *)
LEMMA OrderBegin ==
    ASSUME TypeOK, Ledger, Order,
           RefuseInflight \/ ReplayTerminal \/ CapabilityMismatch \/ Proceed
    PROVE  Order'
<1>1. run \in Runs /\ PlanFirst(run) /\ pc = "begin"
  BY DEF RefuseInflight, ReplayTerminal, CapabilityMismatch, Proceed, TypeOK, Order
<1>2. CASE RefuseInflight \/ CapabilityMismatch
  <2>1. PICK why \in Reasons : Save(Finish(run, FALSE, why), "none")
    BY <1>2 DEF RefuseInflight, CapabilityMismatch, Reasons
  <2>2. pc' \in {"report", "final"}
    BY <1>2 DEF RefuseInflight, CapabilityMismatch
  <2>3. QED
    BY <1>1, <2>1, <2>2, FinishFacts, PlanFirstFinish, OrderFinish
<1>3. CASE ReplayTerminal
  BY <1>1, <1>3 DEF ReplayTerminal, durable, Order, PlanFirst, Calling, Working
<1>4. CASE Proceed
  <2>1. /\ UNCHANGED <<disk, run, inflight, fresh>>
        /\ pc' \in {"plan", "execute", "validate"}
        /\ pc' = "plan" => Structured[run.request] /\ ~run.plan
        /\ pc' = "execute" => (Structured[run.request] => run.plan)
        /\ pc' = "validate" => run.executed
    BY <1>4 DEF Proceed, AfterPlan, durable
  <2>2. ~fresh => \A p \in Phases : RunUsed[p] = run.count[p]
    <3>1. ~fresh => disk # Absent /\ run = disk.run /\ disk.inflight = "none"
      BY <1>4 DEF Proceed, Ledger, ProcessLedger
    <3>2. QED
      BY <1>1, <3>1, CountTypes DEF RunUsed, Phases
  <2>3. QED
    BY <1>1, <2>1, <2>2 DEF Order, PlanFirst, Calling, Working, RunUsed
<1>5. QED
  BY <1>2, <1>3, <1>4

(* The plan loop and the execution.                                        *)
LEMMA OrderPlan ==
    ASSUME TypeOK, Ledger, Order,
           PlanAttempt \/ PlanExhausted \/ PlanAccepted \/ PlanRejected
    PROVE  Order'
<1>1. run \in Runs /\ PlanFirst(run)
  BY DEF PlanAttempt, PlanExhausted, PlanAccepted, PlanRejected, TypeOK, Order
<1>2. CASE PlanAttempt
  BY <1>1, <1>2, OrderCall DEF PlanAttempt, Order, Phases
<1>3. CASE PlanExhausted
  BY <1>1, <1>3, FinishFacts, PlanFirstFinish, OrderFinish DEF PlanExhausted, Reasons
<1>4. CASE PlanAccepted
  <2> DEFINE a == AddAttempt(run, "plan", TRUE)
  <2>1. pc = "call" /\ inflight = "plan" /\ UNCHANGED <<disk, inflight, fresh>>
    BY <1>4 DEF PlanAccepted, durable
  <2>2. ~fresh /\ disk # Absent /\ run = disk.run /\ disk.inflight = "plan"
    BY <2>1, ReturnFacts DEF Ledger, ProcessLedger
  <2>3. /\ a \in Runs /\ a.request = run.request /\ a.executed = run.executed
        /\ a.count = [run.count EXCEPT !["plan"] = @ + 1] /\ a.plan = run.plan
    BY <1>1, AddAttemptFacts, AddAttemptKeeps, AttemptExecutes DEF AttemptStages, Phases
  <2> HIDE DEF a
  <2>4. run' = [a EXCEPT !.plan = TRUE]
    BY <1>4 DEF PlanAccepted, a
  <2>5. /\ run'.request = run.request /\ run'.executed = run.executed
        /\ run'.count = [run.count EXCEPT !["plan"] = @ + 1] /\ run'.plan
    BY <2>3, <2>4 DEF Runs
  <2>6. run.count \in [AttemptStages -> Nat] /\ Phases \subseteq AttemptStages
    BY <1>1 DEF Runs, AttemptStages
  <2>7. PlanFirst(run)'
    BY <1>1, <2>5, <2>6 DEF PlanFirst, Phases
  <2>8. pc' \in {"validate", "execute"} /\ (pc' = "validate" => run.executed)
    BY <1>4 DEF PlanAccepted, AfterPlan
  <2>9. \A p \in Phases : RunUsed'[p] = run'.count[p]
    BY <2>1, <2>2, <2>5, <2>6 DEF RunUsed
  <2>10. QED
    BY <2>1, <2>2, <2>5, <2>7, <2>8, <2>9 DEF Order, PlanFirst, Calling, Working
<1>5. CASE PlanRejected
  <2> DEFINE a == AddAttempt(run, "plan", FALSE)
  <2>1. Structured[run.request] /\ ~run.plan
    BY <1>5 DEF PlanRejected, Order, Calling
  <2>2. a \in Runs /\ a.request = run.request /\ a.plan = run.plan /\ PlanFirst(a)
    BY <1>1, AddAttemptFacts, AddAttemptKeeps, PlanFirstAttempt DEF AttemptStages, Phases
  <2> HIDE DEF a
  <2>3. Save(a, "none") /\ pc' = "plan"
    BY <1>5 DEF PlanRejected, a
  <2>4. /\ disk'.run = a /\ run' = a /\ inflight' = "none"
        /\ \A p \in Phases : RunUsed'[p] = a.count[p] + IF p = "none" THEN 1 ELSE 0
    BY <2>2, <2>3, Saved
  <2>5. \A p \in Phases : RunUsed'[p] = a.count[p]
    BY <2>2, <2>4, CountTypes DEF Phases
  <2>6. QED
    BY <2>1, <2>2, <2>3, <2>4, <2>5 DEF Order, PlanFirst, Calling, Working
<1>6. QED
  BY <1>2, <1>3, <1>4, <1>5

LEMMA OrderExecute ==
    ASSUME TypeOK, Ledger, Order, NEW ok \in BOOLEAN, ExecuteAttempt \/ ExecuteReturns(ok)
    PROVE  Order'
<1>1. run \in Runs /\ PlanFirst(run)
  BY DEF ExecuteAttempt, ExecuteReturns, TypeOK, Order
<1>2. CASE ExecuteAttempt
  <2> DEFINE r == [run EXCEPT !.baseline = ws]
  <2>1. /\ r \in Runs /\ r.request = run.request /\ r.count = run.count
        /\ r.executed = run.executed /\ r.plan = run.plan
    BY <1>1 DEF TypeOK, Runs
  <2> HIDE DEF r
  <2>2. PlanFirst(r) /\ (Structured[r.request] => r.plan)
    BY <1>1, <1>2, <2>1 DEF ExecuteAttempt, PlanFirst, Order
  <2>3. Save(r, "execute") /\ pc' = "invoke"
    BY <1>2 DEF ExecuteAttempt, r
  <2>4. QED
    BY <2>1, <2>2, <2>3, OrderCall DEF Phases
<1>3. CASE ExecuteReturns(ok)
  <2> DEFINE a == AddAttempt(run, "execute", ok)
  <2>1. /\ run.count["execute"] = 0
        /\ Structured[run.request] => run.plan
    BY <1>3, ReturnFacts DEF ExecuteReturns, Affordable, Order, Calling
  <2>2. a \in Runs /\ PlanFirst(a) /\ (ok => a.executed)
    BY <1>1, <2>1, AddAttemptFacts, AttemptExecutes, PlanFirstAttempt DEF AttemptStages, Phases
  <2> HIDE DEF a
  <2>3. CASE ok
    <3>1. Save(a, "none") /\ pc' = "validate"
      BY <1>3, <2>3 DEF ExecuteReturns, a
    <3>2. /\ disk'.run = a /\ run' = a /\ inflight' = "none"
          /\ \A p \in Phases : RunUsed'[p] = a.count[p] + IF p = "none" THEN 1 ELSE 0
      BY <2>2, <3>1, Saved
    <3>3. \A p \in Phases : RunUsed'[p] = a.count[p]
      BY <2>2, <3>2, CountTypes DEF Phases
    <3>4. QED
      BY <2>2, <2>3, <3>1, <3>2, <3>3 DEF Order, PlanFirst, Calling, Working
  <2>4. CASE ~ok
    <3>1. Save(Finish(a, FALSE, "execution_failed"), "none") /\ pc' = "final"
      BY <1>3, <2>4 DEF ExecuteReturns, a
    <3>2. QED
      BY <2>2, <3>1, FinishFacts, PlanFirstFinish, OrderFinish DEF Reasons
  <2>5. QED
    BY <2>3, <2>4
<1>4. QED
  BY <1>2, <1>3

(* Validation, the repair loop and the end of a run.                       *)
LEMMA OrderRepair ==
    ASSUME TypeOK, Ledger, Order, NEW ok \in BOOLEAN,
           Validate \/ RepairAttempt \/ RepairReturns(ok) \/ Conclude \/ FinalCheckpoint
    PROVE  Order'
<1>1. run \in Runs /\ PlanFirst(run) /\ ws \in Workspaces
  BY DEF Validate, RepairAttempt, RepairReturns, Conclude, FinalCheckpoint, TypeOK, Order
<1>2. CASE Validate
  <2> DEFINE a == AddAttempt(run, "validate", TRUE)
             c == Contract(run.baseline, ws)
             r == [a EXCEPT !.report = c]
  <2>1. run.executed /\ c \in Reports
    BY <1>1, <1>2, ContractType DEF Validate, Order, Runs
  <2>2. a \in Runs /\ PlanFirst(a) /\ a.executed
    BY <1>1, <2>1, AddAttemptFacts, PlanFirstAttempt DEF AttemptStages
  <2> HIDE DEF a, c
  <2>3. /\ r \in Runs /\ r.request = a.request /\ r.count = a.count
        /\ r.executed = a.executed /\ r.plan = a.plan
    BY <2>1, <2>2 DEF Runs
  <2> HIDE DEF r
  <2>4. Save(r, "none") /\ pc' = "repair"
    BY <1>2 DEF Validate, a, c, r
  <2>5. /\ disk'.run = r /\ run' = r /\ inflight' = "none"
        /\ \A p \in Phases : RunUsed'[p] = r.count[p] + IF p = "none" THEN 1 ELSE 0
    BY <2>3, <2>4, Saved
  <2>6. \A p \in Phases : RunUsed'[p] = r.count[p]
    BY <2>3, <2>5, CountTypes DEF Phases
  <2>7. PlanFirst(r)
    BY <2>2, <2>3 DEF PlanFirst
  <2>8. QED
    BY <2>2, <2>3, <2>4, <2>5, <2>6, <2>7 DEF Order, PlanFirst, Calling, Working
<1>3. CASE RepairAttempt
  BY <1>1, <1>3, OrderCall DEF RepairAttempt, Order, Phases
<1>4. CASE RepairReturns(ok)
  <2> DEFINE a == AddAttempt(run, "repair", ok)
  <2>1. pc = "call" /\ inflight = "repair" /\ UNCHANGED <<disk, inflight, fresh>>
    BY <1>4 DEF RepairReturns, durable
  <2>2. ~fresh /\ disk # Absent /\ run = disk.run /\ disk.inflight = "repair" /\ run.executed
    BY <2>1, ReturnFacts DEF Ledger, ProcessLedger, Order, Calling
  <2>3. /\ a \in Runs /\ PlanFirst(a) /\ a.executed
        /\ a.count = [run.count EXCEPT !["repair"] = @ + 1]
    <3>1. "repair" \in AttemptStages
      BY DEF AttemptStages, Phases
    <3>2. a \in Runs /\ a.count = [run.count EXCEPT !["repair"] = @ + 1]
      BY <1>1, <3>1, AddAttemptFacts
    <3>3. PlanFirst(a)
      BY <1>1, <3>1, PlanFirstAttempt
    <3>4. a.executed
      BY <1>1, <2>2, <3>1, AttemptExecutes
    <3>5. QED
      BY <3>2, <3>3, <3>4
  <2> HIDE DEF a
  <2>4. run' = a /\ pc' \in {"validate", "repair"}
    BY <1>4 DEF RepairReturns, a
  <2>5. run.count \in [AttemptStages -> Nat] /\ Phases \subseteq AttemptStages
    BY <1>1 DEF Runs, AttemptStages
  <2>6. \A p \in Phases : RunUsed'[p] = run'.count[p]
    BY <2>1, <2>2, <2>3, <2>4, <2>5 DEF RunUsed
  <2>7. PlanFirst(disk.run)'
    BY <2>1, <2>2 DEF Order, PlanFirst
  <2>8. QED
    BY <2>1, <2>2, <2>3, <2>4, <2>6, <2>7 DEF Order, PlanFirst, Calling, Working
<1>5. CASE Conclude
  <2>1. Verdicts(run) \in Runs /\ PlanFirst(Verdicts(run))
    BY <1>1, VerdictsFacts, VerdictsKeep DEF PlanFirst
  <2>2. QED
    BY <1>5, <2>1, OrderFinish DEF Conclude
<1>6. CASE FinalCheckpoint
  BY <1>1, <1>6, OrderFinish DEF FinalCheckpoint
<1>7. QED
  BY <1>2, <1>3, <1>4, <1>5, <1>6

(* What a run has done when it is planned, executed, validated or repaired.*)
LEMMA OrderAlways == Spec => []Order
<1>1. Init => Order
  BY DEF Init, Order, Calling, Working
<1>2. TypeOK /\ Ledger /\ Order /\ [Next]_vars => Order'
  <2> SUFFICES ASSUME TypeOK, Ledger, Order, [Next]_vars PROVE Order'
    OBVIOUS
  <2>1. ASSUME NEW r \in Requests, StartFresh(r) \/ Resume(r) PROVE Order'
    BY <2>1, OrderStart
  <2>2. ASSUME RefuseInflight \/ ReplayTerminal \/ CapabilityMismatch \/ Proceed
        PROVE  Order'
    BY <2>2, OrderBegin
  <2>3. ASSUME PlanAttempt \/ PlanExhausted \/ PlanAccepted \/ PlanRejected
        PROVE  Order'
    BY <2>3, OrderPlan
  <2>4. ASSUME NEW ok \in BOOLEAN, ExecuteAttempt \/ ExecuteReturns(ok) PROVE Order'
    BY <2>4, OrderExecute
  <2>5. ASSUME NEW ok \in BOOLEAN,
               \/ Validate \/ RepairAttempt \/ RepairReturns(ok) \/ Conclude
               \/ FinalCheckpoint
        PROVE  Order'
    BY <2>5, OrderRepair
  <2>6. CASE WriteResult
    BY <2>6, OrderExit DEF WriteResult
  <2>7. CASE Invoke
    BY <2>7 DEF Invoke, durable, Order, PlanFirst, Calling, Working
  <2>8. CASE RetryTransport \/ ExecutorWrites \/ OrphanExits
    BY <2>8, OrderIdle DEF RetryTransport, ExecutorWrites, OrphanExits, durable, process
  <2>9. CASE Crash
    BY <2>9, OrderExit DEF Crash, durable
  <2>10. CASE UNCHANGED vars
    BY <2>10, OrderIdle DEF vars
  <2>11. QED
    BY <2>1, <2>2, <2>3, <2>4, <2>5, <2>6, <2>7, <2>8, <2>9, <2>10
       DEF Next, Step, CallReturns
<1>3. QED
  BY <1>1, <1>2, TypeCorrect, LedgerCorrect, PTL DEF Spec

-----------------------------------------------------------------------------
(* ExecuteProtocol implements RunContract: each step of the protocol is a  *)
(* step of the contract on the two files or leaves them as they are.       *)

(* A checkpoint as the contract sees it.                                   *)
LEMMA SavedContract ==
    ASSUME NEW r \in Runs, NEW p \in Phases \cup {"none"}, Save(r, p)
    PROVE  /\ RunOwner' = r.request
           /\ RunLife' = IF p # "none" THEN p ELSE IF Terminal(r) THEN "ended" ELSE "idle"
           /\ RunSuccess' = (r.stage = "complete")
           /\ RunUsed' = [q \in Phases |-> r.count[q] + IF q = p THEN 1 ELSE 0]
<1>1. disk' # Absent /\ disk'.run = r /\ disk'.inflight = p
  BY Saved
<1>2. RunOwner' = r.request /\ RunSuccess' = (r.stage = "complete")
  BY <1>1 DEF RunOwner, RunSuccess
<1>3. RunLife' = IF p # "none" THEN p ELSE IF Terminal(r) THEN "ended" ELSE "idle"
  BY <1>1 DEF RunLife, Terminal
<1>4. RunUsed' = [q \in Phases |-> r.count[q] + IF q = p THEN 1 ELSE 0]
  BY <1>1 DEF RunUsed
<1>5. QED
  BY <1>1, <1>2, <1>3, <1>4, Zenon

(* The checkpoint of an open run as the contract sees it.                  *)
LEMMA OpenContract ==
    ASSUME disk \in Checkpoints, ~Terminal(disk.run)
    PROVE  /\ RunOwner = disk.run.request
           /\ RunLife = IF disk.inflight # "none" THEN disk.inflight ELSE "idle"
           /\ Promise!Alive
           /\ RunSuccess = FALSE
           /\ RunUsed \in [Phases -> Nat]
<1>1. disk # Absent
  BY AbsentAssumption
<1>2. disk.inflight \in Phases \cup {"none"} /\ disk.run \in Runs
  BY DEF Checkpoints
<1>3. RunOwner = disk.run.request /\ RunSuccess = FALSE
  BY <1>1 DEF RunOwner, RunSuccess, Terminal
<1>4. RunLife = IF disk.inflight # "none" THEN disk.inflight ELSE "idle"
  BY <1>1 DEF RunLife
<1>5. Promise!Alive
  BY <1>2, <1>4 DEF Promise!Alive, Promise!CallPhases, Phases
<1>6. RunUsed \in [Phases -> Nat]
  BY <1>1, <1>2, CountTypes DEF RunUsed
<1>7. QED
  BY <1>3, <1>4, <1>5, <1>6

(* A run begun from scratch saves its first call or that it cannot make    *)
(* one.                                                                    *)
LEMMA BeginStep ==
    ASSUME NEW r \in Runs, NEW p \in {"none", "plan", "execute"}, Save(r, p),
           UNCHANGED result,
           \A q \in Phases : r.count[q] = 0,
           r.stage # "complete",
           p = "none" => Terminal(r),
           p = "execute" => ~Structured[r.request]
    PROVE  Promise!Next
<1> DEFINE l == IF p = "none" THEN "ended" ELSE p
<1>1. r.request \in Requests /\ PlanBudget[r.request] > 0
  BY RequestsAssumption DEF Runs, Positive
<1>2. p \in Phases \cup {"none"} /\ l \in {"plan", "execute", "ended"}
  BY DEF Phases
<1>3. /\ RunOwner' = r.request /\ RunLife' = l /\ RunSuccess' = FALSE
      /\ RunUsed' = [q \in Phases |-> r.count[q] + IF q = p THEN 1 ELSE 0]
  BY <1>2, SavedContract
<1>4. RunUsed' = [q \in Promise!CallPhases |-> IF q = l THEN 1 ELSE 0]
  BY <1>3 DEF Phases, Promise!CallPhases
<1>5. l = "ended" \/ Promise!MayReserve(r.request, Promise!NothingUsed, l)
  BY <1>1 DEF Promise!MayReserve, Promise!NothingUsed, Promise!CallPhases
<1>6. RunPublished' = RunPublished
  BY DEF RunPublished
<1> HIDE DEF l
<1>7. Promise!Begin(r.request, l)
  BY <1>3, <1>4, <1>5, <1>6 DEF Promise!Begin
<1>8. QED
  BY <1>1, <1>2, <1>7 DEF Promise!Next

(* A run that goes on reserves its next call.                              *)
LEMMA ReserveStep ==
    ASSUME disk \in Checkpoints, ~Terminal(disk.run),
           NEW r \in Runs, NEW p \in Phases, Save(r, p), UNCHANGED result,
           r.request = disk.run.request, ~Terminal(r),
           \A q \in Phases : RunUsed[q] = r.count[q],
           Promise!MayReserve(r.request, RunUsed, p)
    PROVE  Promise!Next
<1>1. /\ RunOwner = r.request /\ Promise!Alive /\ RunSuccess = FALSE
      /\ RunUsed \in [Phases -> Nat]
  BY OpenContract
<1>2. p # "none"
  BY DEF Phases
<1>3. /\ RunOwner' = r.request /\ RunLife' = p /\ RunSuccess' = FALSE
      /\ RunUsed' = [q \in Phases |-> r.count[q] + IF q = p THEN 1 ELSE 0]
  BY <1>2, SavedContract DEF Terminal
<1>4. RunUsed' = [RunUsed EXCEPT ![p] = @ + 1]
  <2>1. RunUsed' \in [Phases -> Nat]
    BY <1>1, <1>3
  <2>2. \A q \in Phases : RunUsed'[q] = [RunUsed EXCEPT ![p] = @ + 1][q]
    BY <1>1, <1>3
  <2>3. QED
    BY <1>1, <2>1, <2>2
<1>5. RunPublished' = RunPublished
  BY DEF RunPublished
<1>6. Promise!Reserve(p)
  BY <1>1, <1>3, <1>4, <1>5 DEF Promise!Reserve
<1>7. QED
  BY <1>6 DEF Promise!Next, Promise!CallPhases, Phases

(* A run that goes on records a call that has returned, or ends.           *)
LEMMA SettleStep ==
    ASSUME disk \in Checkpoints, ~Terminal(disk.run),
           NEW r \in Runs, Save(r, "none"), UNCHANGED result,
           r.request = disk.run.request,
           \A q \in Phases : RunUsed[q] = r.count[q],
           r.stage = "complete" => r.count["execute"] = 1
    PROVE  Promise!Next \/ UNCHANGED Promise!vars
<1>1. /\ RunOwner = r.request /\ Promise!Alive /\ RunSuccess = FALSE
      /\ RunUsed \in [Phases -> Nat]
  BY OpenContract
<1>2. /\ RunOwner' = r.request
      /\ RunLife' = IF Terminal(r) THEN "ended" ELSE "idle"
      /\ RunSuccess' = (r.stage = "complete")
      /\ RunUsed' = [q \in Phases |-> r.count[q] + IF q = "none" THEN 1 ELSE 0]
  BY SavedContract
<1>3. RunUsed' = RunUsed
  BY <1>1, <1>2 DEF Phases
<1>4. RunPublished' = RunPublished
  BY DEF RunPublished
<1>5. CASE Terminal(r)
  <2>1. RunSuccess' \in BOOLEAN /\ (RunSuccess' => RunUsed["execute"] = 1)
    BY <1>2 DEF Phases
  <2>2. RunLife' = "ended"
    BY <1>2, <1>5
  <2>3. Promise!End
    BY <1>1, <1>2, <1>3, <1>4, <2>1, <2>2 DEF Promise!End
  <2>4. QED
    BY <2>3 DEF Promise!Next
<1>6. CASE ~Terminal(r)
  <2>1. RunSuccess' = FALSE /\ RunLife' = "idle"
    BY <1>2, <1>6 DEF Terminal
  <2>2. CASE RunLife = "idle"
    BY <1>1, <1>2, <1>3, <1>4, <2>1, <2>2 DEF Promise!vars
  <2>3. CASE RunLife \in Promise!CallPhases
    BY <1>1, <1>2, <1>3, <1>4, <2>1, <2>3 DEF Promise!Settle, Promise!Next
  <2>4. QED
    BY <1>1, <2>2, <2>3 DEF Promise!Alive
<1>7. QED
  BY <1>5, <1>6

(* Steps that touch neither file.                                          *)
LEMMA FilesKept ==
    ASSUME UNCHANGED <<disk, result>>
    PROVE  UNCHANGED Promise!vars
BY DEF Promise!vars, RunOwner, RunLife, RunUsed, RunSuccess, RunPublished, Terminal

(* A working process, begun from scratch or going on with a run.           *)
LEMMA WorkingContract ==
    ASSUME TypeOK, Ledger, Order, Working
    PROVE  /\ run \in Runs
           /\ ~Terminal(run)
           /\ fresh => run = NewRun(run.request) /\ \A q \in Phases : run.count[q] = 0
           /\ ~fresh => /\ disk \in Checkpoints
                        /\ ~Terminal(disk.run)
                        /\ run.request = disk.run.request
                        /\ \A q \in Phases : RunUsed[q] = run.count[q]
<1>1. pc \in {"plan", "execute", "validate", "repair"}
  BY DEF Working
<1>2. /\ run \in Runs /\ ~Terminal(run)
      /\ fresh => \A q \in Phases : run.count[q] = 0
  BY <1>1, WorkingFacts
<1>3. fresh => run = NewRun(run.request)
  BY <1>1 DEF Ledger, ProcessLedger
<1>4. ~fresh => disk # Absent /\ ~Terminal(disk.run) /\ run.request = disk.run.request
  BY <1>1 DEF Ledger, ProcessLedger
<1>5. ~fresh => disk \in Checkpoints
  BY <1>4 DEF TypeOK
<1>6. ~fresh => \A q \in Phases : RunUsed[q] = run.count[q]
  BY DEF Order
<1>7. QED
  BY <1>2, <1>3, <1>4, <1>5, <1>6

(* Finishing a run before any further call: the run ends, failed.          *)
LEMMA FailStep ==
    ASSUME TypeOK, Ledger, Order,
           Working \/ (pc = "begin" /\ inflight = "none" /\ ~Terminal(run)),
           NEW why \in Reasons, Save(Finish(run, FALSE, why), "none"), UNCHANGED result
    PROVE  Promise!Next \/ UNCHANGED Promise!vars
<1> DEFINE f == Finish(run, FALSE, why)
<1>1. run \in Runs
  BY DEF TypeOK, Working
<1>2. /\ f \in Runs /\ Terminal(f) /\ f.request = run.request /\ f.count = run.count
      /\ f.stage = "failed"
  BY <1>1, FinishFacts
<1> HIDE DEF f
<1>3. CASE fresh
  <2>1. \A q \in Phases : f.count[q] = 0
    BY <1>2, <1>3, WorkingContract DEF Ledger, ProcessLedger, NewRun, AttemptStages
  <2>2. QED
    BY <1>2, <2>1, BeginStep DEF f
<1>4. CASE ~fresh
  <2>1. /\ disk \in Checkpoints /\ ~Terminal(disk.run) /\ run.request = disk.run.request
        /\ \A q \in Phases : RunUsed[q] = run.count[q]
    <3>1. CASE Working
      BY <1>4, <3>1, WorkingContract
    <3>2. CASE pc = "begin" /\ inflight = "none" /\ ~Terminal(run)
      <4>1. disk # Absent /\ run = disk.run /\ disk.inflight = "none"
        BY <1>4, <3>2 DEF Ledger, ProcessLedger
      <4>2. \A q \in Phases : RunUsed[q] = run.count[q]
        BY <1>1, <4>1, CountTypes DEF RunUsed, Phases
      <4>3. QED
        BY <3>2, <4>1, <4>2 DEF TypeOK
    <3>3. QED
      BY <3>1, <3>2
  <2>2. QED
    BY <1>2, <2>1, SettleStep DEF f
<1>5. QED
  BY <1>3, <1>4

(* The calls a run reserves.                                               *)
LEMMA ContractReserve ==
    ASSUME TypeOK, Ledger, Order, PlanAttempt \/ ExecuteAttempt \/ RepairAttempt
    PROVE  Promise!Next
<1>1. Working /\ UNCHANGED result
  BY DEF PlanAttempt, ExecuteAttempt, RepairAttempt, Working
<1>2. run \in Runs /\ PlanFirst(run)
  BY <1>1, WorkingContract DEF Order, Working
<1>3. \A q \in Phases : run.count[q] \in Nat
  BY <1>2, CountTypes
<1>4. CASE PlanAttempt
  <2>1. /\ Save(run, "plan")
        /\ run.count["plan"] < PlanBudget[run.request]
        /\ run.count["execute"] = 0
    BY <1>2, <1>3, <1>4 DEF PlanAttempt, CanAttempt, Limit, Order, PlanFirst, Phases
  <2>2. CASE fresh
    BY <1>1, <1>2, <2>1, <2>2, WorkingContract, BeginStep DEF Terminal
  <2>3. CASE ~fresh
    <3>1. RunUsed["plan"] = run.count["plan"] /\ RunUsed["execute"] = run.count["execute"]
      BY <1>1, <2>3, WorkingContract DEF Phases
    <3>2. Promise!MayReserve(run.request, RunUsed, "plan")
      BY <2>1, <3>1 DEF Promise!MayReserve
    <3>3. QED
      BY <1>1, <1>2, <2>1, <2>3, <3>2, WorkingContract, ReserveStep DEF Phases
  <2>4. QED
    BY <2>2, <2>3
<1>5. CASE ExecuteAttempt
  <2> DEFINE r == [run EXCEPT !.baseline = ws]
  <2>1. /\ r \in Runs /\ r.request = run.request /\ r.count = run.count
        /\ r.stage = run.stage /\ r.plan = run.plan
    BY <1>2 DEF TypeOK, Runs
  <2> HIDE DEF r
  <2>2. /\ Save(r, "execute")
        /\ run.count["execute"] = 0
        /\ Structured[run.request] => run.plan
    BY <1>5 DEF ExecuteAttempt, Ledger, ProcessLedger, Order, r
  <2>3. ~Terminal(r)
    BY <1>1, <2>1, WorkingContract DEF Terminal
  <2>4. CASE fresh
    <3>1. ~run.plan
      BY <1>1, <2>4, WorkingContract DEF NewRun
    <3>2. QED
      BY <1>1, <2>1, <2>2, <2>3, <2>4, <3>1, WorkingContract, BeginStep DEF Terminal
  <2>5. CASE ~fresh
    <3>1. RunUsed["plan"] = run.count["plan"] /\ RunUsed["execute"] = run.count["execute"]
      BY <1>1, <2>5, WorkingContract DEF Phases
    <3>2. Promise!MayReserve(r.request, RunUsed, "execute")
      BY <1>2, <2>1, <2>2, <3>1 DEF Promise!MayReserve, PlanFirst
    <3>3. QED
      BY <1>1, <2>1, <2>2, <2>3, <2>5, <3>2, WorkingContract, ReserveStep DEF Phases
  <2>6. QED
    BY <2>4, <2>5
<1>6. CASE RepairAttempt
  <2>1. /\ Save(run, "repair")
        /\ run.count["repair"] < ArtifactBudget[run.request]
        /\ run.count["execute"] = 1
    BY <1>2, <1>6 DEF RepairAttempt, NeedsRepair, CanAttempt, Limit, Order, PlanFirst
  <2>2. ~fresh
    BY <1>6 DEF RepairAttempt, Ledger, ProcessLedger
  <2>3. RunUsed["repair"] = run.count["repair"] /\ RunUsed["execute"] = run.count["execute"]
    BY <1>1, <2>2, WorkingContract DEF Phases
  <2>4. Promise!MayReserve(run.request, RunUsed, "repair")
    BY <2>1, <2>3 DEF Promise!MayReserve
  <2>5. QED
    BY <1>1, <1>2, <2>1, <2>2, <2>4, WorkingContract, ReserveStep DEF Phases
<1>7. QED
  BY <1>4, <1>5, <1>6

(* Calls that are recorded on return, validations and the verdict.         *)
LEMMA ContractSettle ==
    ASSUME TypeOK, Ledger, Order, NEW ok \in BOOLEAN,
           PlanRejected \/ ExecuteReturns(ok) \/ Validate \/ Conclude
    PROVE  Promise!Next \/ UNCHANGED Promise!vars
<1>1. run \in Runs /\ ws \in Workspaces /\ PlanFirst(run) /\ UNCHANGED result
  BY DEF PlanRejected, ExecuteReturns, Validate, Conclude, TypeOK, Order
<1>2. /\ run.count \in [AttemptStages -> Nat] /\ "plan" \in AttemptStages
      /\ "execute" \in AttemptStages /\ "validate" \in AttemptStages
      /\ Phases \subseteq AttemptStages /\ "validate" \notin Phases
  BY <1>1 DEF Runs, AttemptStages, Phases
<1>3. ASSUME NEW p \in Phases, NEW q \in Phases, pc = "call", inflight = p
      PROVE  /\ disk \in Checkpoints /\ ~Terminal(disk.run)
             /\ run.request = disk.run.request
             /\ RunUsed[q] = run.count[q] + IF p = q THEN 1 ELSE 0
  <2>1. disk # Absent /\ run = disk.run /\ disk.inflight = p /\ ~Terminal(run)
    BY <1>3, ReturnFacts DEF Ledger, ProcessLedger
  <2>2. QED
    BY <2>1 DEF RunUsed, TypeOK
<1>4. CASE PlanRejected
  <2> DEFINE a == AddAttempt(run, "plan", FALSE)
  <2>1. /\ a \in Runs /\ a.request = run.request /\ a.stage = "plan"
        /\ a.count = [run.count EXCEPT !["plan"] = @ + 1]
    BY <1>1, <1>2, AddAttemptFacts
  <2> HIDE DEF a
  <2>2. pc = "call" /\ inflight = "plan" /\ Save(a, "none")
    BY <1>4 DEF PlanRejected, a
  <2>3. \A q \in Phases : RunUsed[q] = a.count[q]
    BY <1>2, <1>3, <2>1, <2>2 DEF Phases
  <2>4. QED
    BY <1>1, <1>3, <2>1, <2>2, <2>3, SettleStep DEF Phases
<1>5. CASE ExecuteReturns(ok)
  <2> DEFINE a == AddAttempt(run, "execute", ok)
  <2>1. /\ a \in Runs /\ a.request = run.request /\ a.stage = "execute"
        /\ a.count = [run.count EXCEPT !["execute"] = @ + 1]
    BY <1>1, <1>2, AddAttemptFacts
  <2> HIDE DEF a
  <2>2. PICK r \in Runs : /\ Save(r, "none") /\ r.request = a.request
                          /\ r.count = a.count /\ r.stage # "complete"
    <3> DEFINE f == Finish(a, FALSE, "execution_failed")
    <3>1. f \in Runs /\ f.request = a.request /\ f.count = a.count /\ f.stage = "failed"
      BY <2>1, FinishFacts DEF Reasons
    <3> HIDE DEF f
    <3>2. Save(IF ok THEN a ELSE f, "none")
      BY <1>5 DEF ExecuteReturns, a, f
    <3>3. QED
      BY <2>1, <3>1, <3>2
  <2>3. pc = "call" /\ inflight = "execute"
    BY <1>5 DEF ExecuteReturns
  <2>4. \A q \in Phases : RunUsed[q] = r.count[q]
    BY <1>2, <1>3, <2>1, <2>2, <2>3 DEF Phases
  <2>5. QED
    BY <1>1, <1>3, <2>1, <2>2, <2>3, <2>4, SettleStep DEF Phases
<1>6. CASE Validate
  <2> DEFINE a == AddAttempt(run, "validate", TRUE)
             c == Contract(run.baseline, ws)
             r == [a EXCEPT !.report = c]
  <2>1. c \in Reports
    BY <1>1, <1>6, ContractType DEF Validate, Runs
  <2>2. /\ a \in Runs /\ a.request = run.request /\ a.stage = "validate"
        /\ a.count = [run.count EXCEPT !["validate"] = @ + 1]
    BY <1>1, <1>2, AddAttemptFacts
  <2> HIDE DEF a, c
  <2>3. r \in Runs /\ r.request = a.request /\ r.count = a.count /\ r.stage = "validate"
    BY <2>1, <2>2 DEF Runs
  <2> HIDE DEF r
  <2>4. Save(r, "none") /\ Working /\ ~fresh
    BY <1>6 DEF Validate, Working, Ledger, ProcessLedger, a, c, r
  <2>5. \A q \in Phases : RunUsed[q] = r.count[q]
    BY <1>2, <2>2, <2>3, <2>4, WorkingContract
  <2>6. QED
    BY <1>1, <2>2, <2>3, <2>4, <2>5, WorkingContract, SettleStep
<1>7. CASE Conclude
  <2> DEFINE v == Verdicts(run)
  <2>1. v \in Runs /\ v.request = run.request /\ v.count = run.count
    BY <1>1, VerdictsFacts
  <2> HIDE DEF v
  <2>2. Save(v, "none") /\ Working /\ ~fresh /\ run.count["execute"] = 1
    BY <1>1, <1>7 DEF Conclude, Working, Ledger, ProcessLedger, Order, PlanFirst, v
  <2>3. QED
    BY <1>1, <2>1, <2>2, WorkingContract, SettleStep
<1>8. QED
  BY <1>4, <1>5, <1>6, <1>7

(* A run resumed with a call in flight ends without counting that call.    *)
LEMMA ContractRefuse ==
    ASSUME TypeOK, Ledger, RefuseInflight
    PROVE  Promise!Next
<1> DEFINE f == Finish(run, FALSE, "resume_inflight_unknown")
           p == disk.inflight
<1>1. /\ disk # Absent /\ run = disk.run /\ p \in Phases /\ run \in Runs
      /\ UNCHANGED result
  BY DEF RefuseInflight, Ledger, ProcessLedger, TypeOK
<1>2. disk \in Checkpoints /\ ~Terminal(disk.run)
  BY <1>1 DEF TypeOK, Ledger, DiskLedger, Phases
<1>3. /\ f \in Runs /\ Terminal(f) /\ f.request = run.request /\ f.count = run.count
      /\ f.stage = "failed"
  BY <1>1, FinishFacts DEF Reasons
<1> HIDE DEF f
<1>4. Save(f, "none")
  BY DEF RefuseInflight, f
<1>5. /\ RunOwner' = f.request /\ RunLife' = "ended" /\ RunSuccess' = FALSE
      /\ RunUsed' = [q \in Phases |-> f.count[q] + IF q = "none" THEN 1 ELSE 0]
  BY <1>3, <1>4, SavedContract
<1>6. /\ RunOwner = run.request /\ RunLife = p
      /\ RunUsed = [q \in Phases |-> run.count[q] + IF p = q THEN 1 ELSE 0]
  BY <1>1, <1>2, OpenContract DEF RunUsed, Phases
<1>7. RunUsed' = [RunUsed EXCEPT ![p] = @ - 1]
  <2>1. \A q \in Phases : run.count[q] \in Nat /\ q # "none"
    BY <1>1, CountTypes DEF Phases
  <2>2. \A q \in Phases : RunUsed'[q] = [RunUsed EXCEPT ![p] = @ - 1][q]
    BY <1>1, <1>3, <1>5, <1>6, <2>1
  <2>3. QED
    BY <1>5, <1>6, <2>2
<1>8. RunPublished' = RunPublished
  BY <1>1 DEF RunPublished
<1>9. p \in Promise!CallPhases
  BY <1>1 DEF Phases, Promise!CallPhases
<1> HIDE DEF p
<1>10. Promise!EndUnknown
  BY <1>3, <1>5, <1>6, <1>7, <1>8, <1>9 DEF Promise!EndUnknown
<1>11. QED
  BY <1>10 DEF Promise!Next

(* The result is that of the run that has ended on disk.                   *)
LEMMA ContractPublish ==
    ASSUME TypeOK, Ledger, Contained, WriteResult
    PROVE  Promise!Next
<1>1. /\ disk # Absent /\ run = disk.run /\ disk.inflight = "none" /\ Terminal(run)
      /\ run \in Runs /\ disk' = disk /\ result' = Outcome(run)
  BY DEF WriteResult, Ledger, ProcessLedger, Contained, TypeOK, NewRun, Terminal
<1>2. Outcome(run) \in Outcomes
  BY <1>1 DEF Outcome, Outcomes, Runs
<1>3. result' # Absent
  BY <1>1, <1>2, AbsentAssumption
<1>4. result'.request = run.request /\ result'.stage = run.stage
  BY <1>1 DEF Outcome
<1>5. RunPublished' = [owner |-> run.request, success |-> run.stage = "complete"]
  BY <1>3, <1>4 DEF RunPublished
<1>6. /\ RunLife = "ended" /\ RunOwner = run.request
      /\ RunSuccess = (run.stage = "complete")
  BY <1>1 DEF RunLife, RunOwner, RunSuccess
<1>7. UNCHANGED <<RunOwner, RunLife, RunUsed, RunSuccess>>
  BY <1>1 DEF RunOwner, RunLife, RunUsed, RunSuccess, Terminal
<1>8. Promise!Publish
  BY <1>5, <1>6, <1>7, Zenon DEF Promise!Publish
<1>9. QED
  BY <1>8 DEF Promise!Next

(* Every step is a step of the contract on the durable files, or leaves    *)
(* them as they are.                                                       *)
LEMMA ContractStep ==
    ASSUME TypeOK, Ledger, Contained, Order, [Next]_vars
    PROVE  [Promise!Next]_Promise!vars
<1>1. ASSUME NEW r \in Requests, StartFresh(r) \/ Resume(r)
      PROVE  UNCHANGED Promise!vars
  BY <1>1, FilesKept DEF StartFresh, Resume
<1>2. CASE RefuseInflight
  BY <1>2, ContractRefuse
<1>3. CASE ReplayTerminal \/ Proceed \/ PlanAccepted \/ Invoke \/ RetryTransport
  BY <1>3, FilesKept DEF ReplayTerminal, Proceed, PlanAccepted, Invoke, RetryTransport, durable
<1>4. CASE CapabilityMismatch
  BY <1>4, FailStep DEF CapabilityMismatch, Reasons
<1>5. CASE PlanExhausted
  BY <1>5, FailStep DEF PlanExhausted, Working, Reasons
<1>6. CASE PlanAttempt \/ ExecuteAttempt \/ RepairAttempt
  BY <1>6, ContractReserve
<1>7. ASSUME NEW ok \in BOOLEAN,
             PlanRejected \/ ExecuteReturns(ok) \/ Validate \/ Conclude
      PROVE  [Promise!Next]_Promise!vars
  BY <1>7, ContractSettle
<1>8. ASSUME NEW ok \in BOOLEAN, RepairReturns(ok) PROVE UNCHANGED Promise!vars
  BY <1>8, FilesKept DEF RepairReturns, durable
<1>9. CASE FinalCheckpoint
  <2>1. /\ disk \in Checkpoints /\ run = disk.run /\ disk.inflight = "none"
        /\ UNCHANGED result
    BY <1>9 DEF FinalCheckpoint, Ledger, ProcessLedger, TypeOK, NewRun
  <2>2. disk' = disk
    BY <1>9, <2>1 DEF FinalCheckpoint, Save, Checkpoints
  <2>3. QED
    BY <2>1, <2>2, FilesKept
<1>10. CASE WriteResult
  BY <1>10, ContractPublish
<1>11. CASE ExecutorWrites \/ OrphanExits \/ Crash
  BY <1>11, FilesKept DEF ExecutorWrites, OrphanExits, Crash, durable
<1>12. CASE UNCHANGED vars
  BY <1>12, FilesKept DEF vars
<1>13. QED
  BY <1>1, <1>2, <1>3, <1>4, <1>5, <1>6, <1>7, <1>8, <1>9, <1>10, <1>11, <1>12
     DEF Next, Step, CallReturns

(* The durable files keep the contract of RunContract: calls are reserved  *)
(* before they are made, within the budgets and in order, a run ends once, *)
(* and its result is published after that.                                 *)
THEOREM ContractKept == Spec => ImplementsContract
<1>1. Init => Promise!Init
  BY DEF Init, Promise!Init, Promise!NothingUsed, Promise!CallPhases, Phases,
     RunOwner, RunLife, RunUsed, RunSuccess, RunPublished
<1>2. TypeOK /\ Ledger /\ Contained /\ Order /\ [Next]_vars => [Promise!Next]_Promise!vars
  BY ContractStep
<1>3. QED
  BY <1>1, <1>2, TypeCorrect, LedgerCorrect, ContainedAlways, OrderAlways, PTL
     DEF Spec, Promise!Spec, ImplementsContract

-----------------------------------------------------------------------------
(* The baseline stays, and a success stands.                               *)

(* Only the execution call is saved with a new baseline; any other step    *)
(* leaves the file, or saves a run that has the process's baseline.        *)
BaselineSummary ==
    \/ UNCHANGED <<disk, calls, pc, run, fresh>>
    \/ UNCHANGED <<disk, calls>> /\ pc' = "down"
    \/ UNCHANGED <<disk, calls>> /\ pc = "down" /\ fresh'
    \/ /\ UNCHANGED <<disk, calls>> /\ pc = "down" /\ disk # Absent
       /\ run'.baseline = disk.run.baseline
    \/ /\ UNCHANGED <<disk, fresh>> /\ pc # "down"
       /\ calls' = calls \/ pc = "invoke"
       /\ run'.baseline = run.baseline
    \/ \E r \in Runs, p \in Phases \cup {"none"} :
          /\ Save(r, p)
          /\ pc # "down"
          /\ r.baseline = run.baseline \/ pc = "execute"

(* Every step is one of these.                                             *)
LEMMA BaselineSaves ==
    ASSUME TypeOK, Next
    PROVE  BaselineSummary
<1> USE DEF BaselineSummary
<1>1. ASSUME NEW r \in Requests, StartFresh(r) \/ Resume(r) PROVE BaselineSummary
  <2>1. CASE StartFresh(r)
    BY <2>1 DEF StartFresh
  <2>2. CASE Resume(r)
    <3>1. disk \in Checkpoints
      BY <2>2 DEF Resume, TypeOK
    <3>2. [disk.run EXCEPT !.request = r].baseline = disk.run.baseline
      BY <3>1 DEF Checkpoints, Runs
    <3>3. QED
      BY <2>2, <3>2 DEF Resume
  <2>3. QED
    BY <1>1, <2>1, <2>2
<1>2. pc # "down" => run \in Runs
  BY DEF TypeOK
<1>3. CASE RefuseInflight \/ CapabilityMismatch \/ PlanExhausted
  <2>1. PICK why \in Reasons : Save(Finish(run, FALSE, why), "none")
    BY <1>3 DEF RefuseInflight, CapabilityMismatch, PlanExhausted, Reasons
  <2>2. pc # "down"
    BY <1>3 DEF RefuseInflight, CapabilityMismatch, PlanExhausted
  <2>3. QED
    BY <1>2, <2>1, <2>2, FinishFacts, FinishKeeps
<1>4. CASE ReplayTerminal \/ Proceed \/ Invoke \/ RetryTransport
  BY <1>4 DEF ReplayTerminal, Proceed, Invoke, RetryTransport, durable
<1>5. CASE PlanAttempt \/ RepairAttempt \/ FinalCheckpoint
  <2>1. PICK p \in Phases \cup {"none"} : Save(run, p)
    BY <1>5 DEF PlanAttempt, RepairAttempt, FinalCheckpoint, Phases
  <2>2. pc # "down"
    BY <1>5 DEF PlanAttempt, RepairAttempt, FinalCheckpoint
  <2>3. QED
    BY <1>2, <2>1, <2>2
<1>6. CASE ExecuteAttempt
  <2> DEFINE r == [run EXCEPT !.baseline = ws]
  <2>1. r \in Runs /\ pc = "execute"
    BY <1>2, <1>6 DEF ExecuteAttempt, TypeOK, Runs
  <2> HIDE DEF r
  <2>2. Save(r, "execute")
    BY <1>6 DEF ExecuteAttempt, r
  <2>3. QED
    BY <2>1, <2>2 DEF Phases
<1>7. CASE PlanAccepted
  <2> DEFINE a == AddAttempt(run, "plan", TRUE)
  <2>1. pc = "call" /\ run \in Runs /\ UNCHANGED <<disk, calls, fresh>>
    BY <1>2, <1>7 DEF PlanAccepted, durable
  <2>2. a \in Runs /\ a.baseline = run.baseline
    BY <2>1, AddAttemptFacts, AddAttemptKeeps DEF AttemptStages, Phases
  <2> HIDE DEF a
  <2>3. run' = [a EXCEPT !.plan = TRUE]
    BY <1>7 DEF PlanAccepted, a
  <2>4. run'.baseline = run.baseline
    BY <2>2, <2>3 DEF Runs
  <2>5. QED
    BY <2>1, <2>4
<1>8. CASE PlanRejected
  <2> DEFINE a == AddAttempt(run, "plan", FALSE)
  <2>1. pc = "call" /\ run \in Runs /\ "plan" \in AttemptStages
    BY <1>2, <1>8 DEF PlanRejected, AttemptStages, Phases
  <2>2. a \in Runs /\ a.baseline = run.baseline
    BY <2>1, AddAttemptFacts, AddAttemptKeeps
  <2> HIDE DEF a
  <2>3. Save(a, "none")
    BY <1>8 DEF PlanRejected, a
  <2>4. QED
    BY <2>1, <2>2, <2>3
<1>9. ASSUME NEW ok \in BOOLEAN, ExecuteReturns(ok) PROVE BaselineSummary
  <2> DEFINE a == AddAttempt(run, "execute", ok)
             f == Finish(a, FALSE, "execution_failed")
  <2>1. pc = "call" /\ run \in Runs /\ "execute" \in AttemptStages
    BY <1>2, <1>9 DEF ExecuteReturns, AttemptStages, Phases
  <2>2. a \in Runs /\ a.baseline = run.baseline
    BY <2>1, AddAttemptFacts, AddAttemptKeeps
  <2>3. f \in Runs /\ f.baseline = a.baseline
    BY <2>2, FinishFacts, FinishKeeps DEF Reasons
  <2> HIDE DEF a, f
  <2>4. Save(IF ok THEN a ELSE f, "none")
    BY <1>9 DEF ExecuteReturns, a, f
  <2>5. QED
    BY <2>1, <2>2, <2>3, <2>4
<1>10. CASE Validate
  <2> DEFINE a == AddAttempt(run, "validate", TRUE)
             c == Contract(run.baseline, ws)
             r == [a EXCEPT !.report = c]
  <2>1. pc = "validate" /\ run \in Runs /\ c \in Reports
    BY <1>2, <1>10, ContractType DEF Validate, TypeOK, Runs
  <2>2. a \in Runs /\ a.baseline = run.baseline
    BY <2>1, AddAttemptFacts, AddAttemptKeeps DEF AttemptStages
  <2> HIDE DEF a, c
  <2>3. r \in Runs /\ r.baseline = run.baseline
    BY <2>1, <2>2 DEF Runs
  <2> HIDE DEF r
  <2>4. Save(r, "none")
    BY <1>10 DEF Validate, a, c, r
  <2>5. QED
    BY <2>1, <2>3, <2>4
<1>11. ASSUME NEW ok \in BOOLEAN, RepairReturns(ok) PROVE BaselineSummary
  <2>1. pc = "call" /\ run \in Runs /\ UNCHANGED <<disk, calls, fresh>>
        /\ run' = AddAttempt(run, "repair", ok)
    BY <1>2, <1>11 DEF RepairReturns, durable
  <2>2. AddAttempt(run, "repair", ok).baseline = run.baseline
    BY <2>1, AddAttemptKeeps DEF AttemptStages, Phases
  <2>3. QED
    BY <2>1, <2>2
<1>12. CASE Conclude
  BY <1>2, <1>12, VerdictsFacts, VerdictsKeep DEF Conclude
<1>13. CASE WriteResult \/ Crash
  BY <1>13 DEF WriteResult, Crash, Exit, durable
<1>14. CASE ExecutorWrites \/ OrphanExits
  BY <1>14 DEF ExecutorWrites, OrphanExits, durable, process
<1>15. QED
  BY <1>1, <1>3, <1>4, <1>5, <1>6, <1>7, <1>8, <1>9, <1>10, <1>11, <1>12, <1>13, <1>14
     DEF Next, Step, CallReturns

LEMMA SameBaselineAlways == Spec => []SameBaseline
<1>1. Init => SameBaseline
  BY DEF Init, SameBaseline
<1>2. TypeOK /\ Ledger /\ SameBaseline /\ [Next]_vars => SameBaseline'
  <2> SUFFICES ASSUME TypeOK, Ledger, SameBaseline, Next PROVE SameBaseline'
    BY DEF SameBaseline, vars
  <2>1. ASSUME NEW r \in Runs, NEW p \in Phases \cup {"none"}, Save(r, p)
        PROVE  SameBaseline'
    BY <2>1, Saved DEF SameBaseline
  <2>2. QED
    BY <2>1, BaselineSaves DEF BaselineSummary, SameBaseline
<1>3. QED
  BY <1>1, <1>2, TypeCorrect, LedgerCorrect, PTL DEF Spec

(* Once the execution call is made, no process of that run moves the       *)
(* baseline that path_scope is measured from.                              *)
THEOREM BaselineStays == Spec => BaselineFrozen
<1>1. /\ TypeOK /\ Ledger /\ SameBaseline /\ [Next]_vars
      => [calls["execute"] > 0 /\ calls'["execute"] > 0
            => disk'.run.baseline = disk.run.baseline]_vars
  <2> SUFFICES ASSUME TypeOK, Ledger, SameBaseline, Next,
                      calls["execute"] > 0, calls'["execute"] > 0
               PROVE  disk'.run.baseline = disk.run.baseline
    BY DEF vars
  <2>1. ASSUME NEW r \in Runs, NEW p \in Phases \cup {"none"}, Save(r, p), pc # "down",
               r.baseline = run.baseline \/ pc = "execute"
        PROVE  disk'.run.baseline = disk.run.baseline
    <3>1. disk'.run = r /\ (fresh => calls' = NoCalls)
      BY <2>1, Saved
    <3>2. ~fresh
      BY <3>1 DEF NoCalls, Phases
    <3>3. pc # "execute"
      <4>1. pc = "execute" => run.count["execute"] = 0 /\ Counted(run)
        BY <3>2 DEF Ledger, ProcessLedger
      <4>2. QED
        BY <4>1 DEF Counted, Phases
    <3>4. QED
      BY <2>1, <3>1, <3>2, <3>3 DEF SameBaseline
  <2>2. QED
    BY <2>1, BaselineSaves DEF BaselineSummary
<1>2. QED
  BY <1>1, TypeCorrect, LedgerCorrect, SameBaselineAlways, PTL DEF Spec, BaselineFrozen

(* A checkpoint of a run that has not succeeded needs no evidence.         *)
LEMMA ValidatedOpen ==
    ASSUME NEW r \in Runs, NEW p \in Phases \cup {"none"}, Save(r, p),
           r.stage # "complete", pc' # "repair", p # "repair"
    PROVE  Validated'
BY Saved DEF Validated, SuccessIsValidated, Calling

(* Nor does a step that leaves the workspace and the checkpoint, and the   *)
(* process away from the repair loop.                                      *)
LEMMA ValidatedAway ==
    ASSUME Validated, UNCHANGED <<ws, disk, orphan, contested>>, pc' # "repair",
           pc' \in {"invoke", "call"} => inflight' # "repair"
    PROVE  Validated'
BY DEF Validated, Haunted, SuccessIsValidated, Calling

LEMMA ValidatedStep ==
    ASSUME TypeOK, Ledger, Contained, Validated, [Next]_vars
    PROVE  Validated'
<1>1. pc # "down" => run \in Runs
  BY DEF TypeOK
<1>2. ASSUME NEW r \in Requests, StartFresh(r) \/ Resume(r) PROVE Validated'
  BY <1>2, ValidatedAway DEF StartFresh, Resume
<1>3. CASE RefuseInflight \/ CapabilityMismatch \/ PlanExhausted
  <2>1. PICK why \in Reasons : Save(Finish(run, FALSE, why), "none")
    BY <1>3 DEF RefuseInflight, CapabilityMismatch, PlanExhausted, Reasons
  <2>2. pc # "down" /\ pc' \in {"report", "final"}
    BY <1>3 DEF RefuseInflight, CapabilityMismatch, PlanExhausted
  <2>3. QED
    BY <1>1, <2>1, <2>2, FinishFacts, ValidatedOpen
<1>4. CASE ReplayTerminal \/ Proceed
  BY <1>4, ValidatedAway DEF ReplayTerminal, Proceed, AfterPlan, durable
<1>5. CASE PlanAttempt
  BY <1>1, <1>5, WorkingFacts, ValidatedOpen DEF PlanAttempt, Terminal, Phases
<1>6. CASE PlanAccepted
  BY <1>6, ValidatedAway DEF PlanAccepted, AfterPlan, durable
<1>7. CASE PlanRejected
  <2>1. pc = "call" /\ run \in Runs /\ "plan" \in AttemptStages /\ pc' = "plan"
        /\ Save(AddAttempt(run, "plan", FALSE), "none")
    BY <1>1, <1>7 DEF PlanRejected, AttemptStages, Phases
  <2>2. QED
    BY <2>1, AddAttemptFacts, ValidatedOpen
<1>8. CASE ExecuteAttempt
  <2> DEFINE r == [run EXCEPT !.baseline = ws]
  <2>1. r \in Runs /\ r.stage = run.stage /\ ~Terminal(run)
    BY <1>1, <1>8, WorkingFacts DEF ExecuteAttempt, TypeOK, Runs
  <2> HIDE DEF r
  <2>2. Save(r, "execute") /\ pc' = "invoke"
    BY <1>8 DEF ExecuteAttempt, r
  <2>3. QED
    BY <2>1, <2>2, ValidatedOpen DEF Terminal, Phases
<1>9. ASSUME NEW ok \in BOOLEAN, ExecuteReturns(ok) PROVE Validated'
  <2> DEFINE a == AddAttempt(run, "execute", ok)
             f == Finish(a, FALSE, "execution_failed")
  <2>1. pc = "call" /\ run \in Runs /\ "execute" \in AttemptStages
    BY <1>1, <1>9 DEF ExecuteReturns, AttemptStages, Phases
  <2>2. a \in Runs /\ a.stage = "execute"
    BY <2>1, AddAttemptFacts
  <2>3. f \in Runs /\ f.stage = "failed"
    BY <2>2, FinishFacts DEF Reasons
  <2> HIDE DEF a, f
  <2>4. Save(IF ok THEN a ELSE f, "none") /\ pc' \in {"validate", "final"}
    BY <1>9 DEF ExecuteReturns, a, f
  <2>5. QED
    BY <2>2, <2>3, <2>4, ValidatedOpen
<1>10. CASE Validate
  <2> DEFINE a == AddAttempt(run, "validate", TRUE)
             c == Contract(run.baseline, ws)
             r == [a EXCEPT !.report = c]
  <2>1. run \in Runs /\ c \in Reports /\ run.baseline # Absent
    BY <1>1, <1>10, ContractType DEF Validate, TypeOK, Runs
  <2>2. a \in Runs /\ a.stage = "validate" /\ a.baseline = run.baseline
    BY <2>1, AddAttemptFacts, AddAttemptKeeps DEF AttemptStages
  <2> HIDE DEF a
  <2>3. r \in Runs /\ r.stage = "validate" /\ r.baseline = run.baseline /\ r.report = c
    BY <2>1, <2>2 DEF Runs
  <2> HIDE DEF r
  <2>4. Save(r, "none") /\ pc' = "repair" /\ ws' = ws
    BY <1>10 DEF Validate, a, r
  <2>5. disk'.run = r /\ run' = r
    BY <2>3, <2>4, Saved
  <2>6. c = Contract(r.baseline, ws')
    BY <2>3, <2>4
  <2> HIDE DEF c
  <2>7. run'.report = Contract(run'.baseline, ws')
    BY <2>3, <2>5, <2>6
  <2>8. QED
    BY <2>1, <2>3, <2>4, <2>5, <2>7 DEF Validated, SuccessIsValidated, Calling
<1>11. CASE RepairAttempt
  <2>1. run \in Runs /\ run.stage # "complete" /\ Save(run, "repair") /\ pc' = "invoke"
        /\ run.baseline # Absent /\ Failures(run.report) # {}
    BY <1>1, <1>11, WorkingFacts DEF RepairAttempt, NeedsRepair, Validated, Terminal
  <2>2. disk'.run = run /\ run' = run
    BY <2>1, Saved DEF Phases
  <2>3. QED
    BY <2>1, <2>2 DEF Validated, SuccessIsValidated, Calling, Failures
<1>12. ASSUME NEW ok \in BOOLEAN, RepairReturns(ok) PROVE Validated'
  <2> DEFINE a == AddAttempt(run, "repair", ok)
  <2>1. run \in Runs /\ "repair" \in AttemptStages
        /\ run.baseline # Absent /\ Failures(run.report) # {}
    BY <1>1, <1>12 DEF RepairReturns, Validated, Calling, AttemptStages, Phases
  <2>2. a.baseline = run.baseline /\ a.report = run.report
    BY <2>1, AddAttemptKeeps
  <2> HIDE DEF a
  <2>3. run' = a /\ pc' \in {"validate", "repair"} /\ UNCHANGED <<ws, disk, orphan, contested>>
    BY <1>12 DEF RepairReturns, durable, a
  <2>4. Failures(run'.report) # {} /\ run'.baseline # Absent
    BY <2>1, <2>2, <2>3
  <2>5. QED
    BY <2>3, <2>4 DEF Validated, Haunted, SuccessIsValidated, Calling, Failures
<1>13. CASE Conclude
  <2> DEFINE v == Verdicts(run)
  <2>1. /\ run \in Runs /\ pc = "repair" /\ run.baseline # Absent
        /\ Failures(run.report) = {} /\ ~contested
              => run.report = Contract(run.baseline, ws)
    BY <1>1, <1>13 DEF Conclude, Validated
  <2>2. /\ v \in Runs /\ v.baseline = run.baseline /\ v.report = run.report
        /\ v.stage = "complete" => /\ Failures(v.report) = {}
                                   /\ RequiredUnsupported(v.report) = {}
    BY <2>1, VerdictsFacts, VerdictsKeep
  <2> HIDE DEF v
  <2>3. Save(v, "none") /\ pc' = "report" /\ ws' = ws /\ orphan' = orphan
    BY <1>13 DEF Conclude, v
  <2>4. disk'.run = v
    BY <2>2, <2>3, Saved
  <2>5. ~fresh /\ ~Haunted
    BY <2>1 DEF Ledger, ProcessLedger, Contained
  <2>6. contested' = contested /\ ~Haunted'
    <3>1. contested' = contested
      BY <2>3, <2>5 DEF Save
    <3>2. QED
      BY <2>3, <2>5, <3>1 DEF Haunted
  <2>7. v.stage = "complete" =>
            /\ v.baseline # Absent
            /\ ~contested' => v.report = Contract(v.baseline, ws')
    BY <2>1, <2>2, <2>3, <2>6
  <2>8. SuccessIsValidated'
    BY <2>2, <2>4, <2>7 DEF SuccessIsValidated, Failures, RequiredUnsupported
  <2>9. QED
    BY <2>3, <2>6, <2>8 DEF Validated, Calling
<1>14. CASE FinalCheckpoint
  <2>1. disk \in Checkpoints /\ run = disk.run /\ disk.inflight = "none"
    BY <1>14 DEF FinalCheckpoint, Ledger, ProcessLedger, TypeOK, NewRun
  <2>2. disk' = disk
    BY <1>14, <2>1 DEF FinalCheckpoint, Save, Checkpoints
  <2>3. contested' = contested
    BY <1>14 DEF FinalCheckpoint, Save, Ledger, ProcessLedger
  <2>4. QED
    BY <1>14, <2>2, <2>3, ValidatedAway DEF FinalCheckpoint
<1>15. CASE WriteResult
  BY <1>15, ValidatedAway DEF WriteResult, Exit
<1>16. CASE Invoke \/ RetryTransport
  BY <1>16 DEF Invoke, RetryTransport, durable, Validated, Haunted, SuccessIsValidated,
     Calling, Failures
<1>17. pc = "call" => disk.run.stage # "complete"
  BY ReturnFacts DEF Terminal
<1>18. CASE ExecutorWrites
  <2>1. /\ UNCHANGED <<disk, pc, run, inflight, orphan, contested>>
        /\ pc = "call" \/ orphan
    BY <1>18 DEF ExecutorWrites, process
  <2>2. contested \/ (pc # "repair" /\ disk.run.stage # "complete")
    <3>1. fresh => pc # "repair"
      BY DEF Ledger, ProcessLedger
    <3>2. QED
      BY <1>17, <2>1, <3>1 DEF Contained, Validated, Haunted
  <2>3. QED
    BY <2>1, <2>2 DEF Validated, Haunted, SuccessIsValidated, Calling, Failures,
       RequiredUnsupported
<1>19. CASE OrphanExits
  <2>1. UNCHANGED <<ws, disk, pc, run, inflight, contested>> /\ ~orphan'
    BY <1>19 DEF OrphanExits, durable, process
  <2>2. QED
    BY <2>1 DEF Validated, Haunted, SuccessIsValidated, Calling, Failures
<1>20. CASE Crash
  <2>1. /\ UNCHANGED <<ws, disk, contested>> /\ pc' = "down"
        /\ orphan' => orphan \/ pc = "call"
    BY <1>20 DEF Crash, Exit, durable
  <2>2. QED
    BY <1>17, <2>1 DEF Validated, Haunted, SuccessIsValidated, Calling
<1>21. CASE UNCHANGED vars
  BY <1>21 DEF vars, Validated, Haunted, SuccessIsValidated, Calling, Failures
<1>22. QED
  BY <1>2, <1>3, <1>4, <1>5, <1>6, <1>7, <1>8, <1>9, <1>10, <1>11, <1>12, <1>13, <1>14,
     <1>15, <1>16, <1>18, <1>19, <1>20, <1>21 DEF Next, Step, CallReturns

(* A checkpoint that says success holds a report without failures, and the *)
(* report is that of the workspace as it is, with the scope measured from  *)
(* before the execution, whichever processes executed, repaired and        *)
(* validated.  What a run begun without resume beside a call still at work *)
(* reports may be overtaken by that call: of such contested runs only the  *)
(* first half is said.                                                     *)
THEOREM SuccessStands == Spec => []SuccessIsValidated
<1>1. Init => Validated
  BY DEF Init, Validated, Haunted, SuccessIsValidated, Calling
<1>2. Validated => SuccessIsValidated
  BY DEF Validated
<1>3. QED
  BY <1>1, <1>2, ValidatedStep, TypeCorrect, LedgerCorrect, ContainedAlways, PTL DEF Spec

=============================================================================
