--------------------------- MODULE ExecuteProtocol ---------------------------
(***************************************************************************)
(* The plan / execute / validate / repair protocol of                      *)
(* scripts/execute_protocol.py (execute) over the execution state of       *)
(* evals/execution_state.py, one process at a time, with crashes between   *)
(* any two durable steps and restarts with or without "resume".            *)
(*                                                                         *)
(* Durable state is the workspace, the checkpoint file and the result      *)
(* file.  A process holds a copy of the run in memory; checkpoint() saves  *)
(* it together with the model call about to be made ("inflight").          *)
(***************************************************************************)
EXTENDS Naturals

CONSTANTS
    Requests,        \* request digests: what _request_digest tells apart
    Structured,      \* [Requests -> BOOLEAN] structured_plan
    Capable,         \* [Requests -> BOOLEAN] executor offers what is required
    Transport,       \* [Requests -> positive] budgets.transport
    PlanBudget,      \* [Requests -> positive] budgets.plan
    ArtifactBudget,  \* [Requests -> Nat] budgets.artifact
    Files,           \* paths of the workspace
    Contents,        \* what a path can hold (absence included)
    AllowedFiles,    \* allowed_paths of the contract
    Validators,      \* ids of the contract's own validators
    Required,        \* those with required = true
    Verdict,         \* [Validators -> [Workspaces -> Statuses]]
    MaxCrashes,      \* bound on the crashes of a behaviour
    Absent           \* no file, no fingerprints, no validations

Workspaces == [Files -> Contents]
Statuses == {"pass", "fail", "unsupported"}
Positive == Nat \ {0}

ASSUME RequestsAssumption ==
    /\ Structured \in [Requests -> BOOLEAN]
    /\ Capable \in [Requests -> BOOLEAN]
    /\ Transport \in [Requests -> Positive]
    /\ PlanBudget \in [Requests -> Positive]
    /\ ArtifactBudget \in [Requests -> Nat]

ASSUME ContractAssumption ==
    /\ AllowedFiles \subseteq Files
    /\ Required \subseteq Validators
    /\ "path_scope" \notin Validators
    /\ Verdict \in [Validators -> [Workspaces -> Statuses]]

VARIABLES
    ws,          \* the workspace: [Files -> Contents]
    disk,        \* checkpoint.json: a saved run and the call in flight
    result,      \* the result file
    pc,          \* where the process is, "down" when none runs
    run,         \* the process's copy of the run
    inflight,    \* the call in flight that was loaded or is being made
    tries,       \* transport attempts of the current call
    fresh,       \* the process started from scratch and has saved nothing
    crashes,     \* crashes so far
    calls,       \* history: calls made by the run that owns the checkpoint
    orphan,      \* a call outlived the process that made it
    contested    \* history: the run that owns the checkpoint was begun
                 \* while such a call was still at work

durable == <<ws, disk, result>>
process == <<pc, run, inflight, tries, fresh>>
vars == <<ws, disk, result, pc, run, inflight, tries, fresh, crashes, calls, orphan, contested>>

-----------------------------------------------------------------------------
(* Runs: ExecutionState and the fields saved beside it.  The list of       *)
(* attempts is kept as the number of attempts of each stage and whether an *)
(* EXECUTE attempt passed, which is all the control flow reads of it.      *)

Phases == {"plan", "execute", "repair"}
AttemptStages == Phases \cup {"validate"}
Stages == AttemptStages \cup {"complete", "failed"}
Reasons == {"none", "resume_inflight_unknown", "executor_capability_mismatch",
            "plan_validation_exhausted", "execution_failed",
            "validation_unsupported", "artifact_validation_exhausted", "success"}
ValidatorIds == Validators \cup {"path_scope"}
Reports == [ValidatorIds -> Statuses]

Runs == [request  : Requests,
         stage    : Stages,
         count    : [AttemptStages -> Nat],
         executed : BOOLEAN,
         reason   : Reasons,
         plan     : BOOLEAN,
         baseline : Workspaces \cup {Absent},
         report   : Reports \cup {Absent}]

Checkpoints == [run : Runs, inflight : Phases \cup {"none"}]

Outcomes == [request : Requests, stage : Stages, reason : Reasons,
             count : [AttemptStages -> Nat], report : Reports \cup {Absent}]

ASSUME AbsentAssumption ==
    Absent \notin Workspaces \cup Reports \cup Checkpoints \cup Outcomes

NewRun(r) ==
    [request |-> r, stage |-> "plan", count |-> [s \in AttemptStages |-> 0],
     executed |-> FALSE, reason |-> "none", plan |-> FALSE,
     baseline |-> Absent, report |-> Absent]

Terminal(r) == r.stage \in {"complete", "failed"}

Limit(r, stage) ==
    IF stage = "plan" THEN PlanBudget[r.request] ELSE ArtifactBudget[r.request]

(* Wrong: one attempt too many.                                            *)
CanAttemptOffByOne(r, stage) == r.count[stage] <= Limit(r, stage)

CanAttempt(r, stage) == r.count[stage] < Limit(r, stage)

AddAttempt(r, s, ok) ==
    [r EXCEPT !.stage = s,
              !.count = [r.count EXCEPT ![s] = @ + 1],
              !.executed = r.executed \/ (s = "execute" /\ ok)]

Finish(r, success, why) ==
    [r EXCEPT !.stage = IF success THEN "complete" ELSE "failed", !.reason = why]

(* What _result takes from the run.                                        *)
Outcome(r) == [request |-> r.request, stage |-> r.stage, reason |-> r.reason,
               count |-> r.count, report |-> r.report]

-----------------------------------------------------------------------------
(* Validation: path_scope compares the workspace with the fingerprints     *)
(* taken before execution, the other validators look at the workspace.     *)

Changed(before, after) == {f \in Files : before[f] # after[f]}

Contract(before, after) ==
    [v \in ValidatorIds |->
        IF v = "path_scope"
        THEN IF Changed(before, after) \subseteq AllowedFiles THEN "pass" ELSE "fail"
        ELSE Verdict[v][after]]

Failures(report) == {v \in ValidatorIds : report[v] = "fail"}

RequiredUnsupported(report) ==
    {v \in Required \cup {"path_scope"} : report[v] = "unsupported"}

-----------------------------------------------------------------------------
NoCalls == [p \in Phases |-> 0]
NoRun == [stage |-> "none"]

(* checkpoint(active): replace the file atomically by run r and the call p *)
(* about to be made.  Attempts of an older run on that file are gone.      *)
Save(r, p) ==
    /\ disk' = [run |-> r, inflight |-> p]
    /\ run' = r
    /\ inflight' = p
    /\ fresh' = FALSE
    /\ calls' = IF fresh THEN NoCalls ELSE calls
    /\ contested' = IF fresh THEN orphan ELSE contested

(* The process ends; what it had in memory is gone.                        *)
Exit ==
    /\ pc' = "down"
    /\ run' = NoRun
    /\ inflight' = "none"
    /\ tries' = 0
    /\ fresh' = FALSE

Init ==
    /\ ws \in Workspaces
    /\ disk = Absent
    /\ result = Absent
    /\ pc = "down"
    /\ run = NoRun
    /\ inflight = "none"
    /\ tries = 0
    /\ fresh = FALSE
    /\ crashes = 0
    /\ calls = NoCalls
    /\ orphan = FALSE
    /\ contested = FALSE

(* Start-up: resume=false or no checkpoint file.  The checkpoint there may *)
(* be is not opened, so that neither the run it holds nor a call it        *)
(* announces, which may still be at work, keeps the new run from starting. *)
StartFresh(r) ==
    /\ pc = "down"
    /\ pc' = "begin"
    /\ run' = NewRun(r)
    /\ inflight' = "none"
    /\ fresh' = TRUE
    /\ UNCHANGED <<ws, disk, result, tries, crashes, calls, orphan, contested>>

(* The checkpoint binds a request: any other digest raises ValueError      *)
(* before anything is written, which leaves every variable as it is.       *)
DigestMatches(r) == disk.run.request = r

(* Wrong: the call in flight is forgotten.                                 *)
ResumeForgetsInflight(r) ==
    /\ pc = "down"
    /\ disk # Absent
    /\ DigestMatches(r)
    /\ pc' = "begin"
    /\ run' = disk.run
    /\ inflight' = "none"
    /\ fresh' = FALSE
    /\ UNCHANGED <<ws, disk, result, tries, crashes, calls, orphan, contested>>

(* Wrong: fingerprints are taken again at start-up.                        *)
ResumeMovesBaseline(r) ==
    /\ pc = "down"
    /\ disk # Absent
    /\ DigestMatches(r)
    /\ pc' = "begin"
    /\ run' = [disk.run EXCEPT !.baseline = ws]
    /\ inflight' = disk.inflight
    /\ fresh' = FALSE
    /\ UNCHANGED <<ws, disk, result, tries, crashes, calls, orphan, contested>>

Resume(r) ==
    /\ pc = "down"
    /\ disk # Absent
    /\ DigestMatches(r)
    /\ pc' = "begin"
    /\ run' = [disk.run EXCEPT !.request = r]
    /\ inflight' = disk.inflight
    /\ fresh' = FALSE
    /\ UNCHANGED <<ws, disk, result, tries, crashes, calls, orphan, contested>>

(* Wrong: the call in flight is made again.                                *)
RepeatInflight ==
    /\ pc = "begin"
    /\ inflight # "none"
    /\ pc' = "invoke"
    /\ UNCHANGED <<durable, run, inflight, tries, fresh, crashes, calls, orphan, contested>>

RefuseInflight ==
    /\ pc = "begin"
    /\ inflight # "none"
    /\ Save(Finish(run, FALSE, "resume_inflight_unknown"), "none")
    /\ pc' = "report"
    /\ UNCHANGED <<ws, result, tries, crashes, orphan>>

(* Wrong: a finished run that executed is validated again.                 *)
RevalidateTerminal ==
    /\ pc = "begin"
    /\ inflight = "none"
    /\ Terminal(run)
    /\ pc' = IF run.executed THEN "validate" ELSE "report"
    /\ UNCHANGED <<durable, run, inflight, tries, fresh, crashes, calls, orphan, contested>>

(* Wrong: a finished run needs no result file.                             *)
SkipTerminal ==
    /\ pc = "begin"
    /\ inflight = "none"
    /\ Terminal(run)
    /\ Exit
    /\ UNCHANGED <<durable, crashes, calls, orphan, contested>>

ReplayTerminal ==
    /\ pc = "begin"
    /\ inflight = "none"
    /\ Terminal(run)
    /\ pc' = "report"
    /\ UNCHANGED <<durable, run, inflight, tries, fresh, crashes, calls, orphan, contested>>

CapabilityMismatch ==
    /\ pc = "begin"
    /\ inflight = "none"
    /\ ~Terminal(run)
    /\ ~Capable[run.request]
    /\ Save(Finish(run, FALSE, "executor_capability_mismatch"), "none")
    /\ pc' = "final"
    /\ UNCHANGED <<ws, result, tries, crashes, orphan>>

(* A run whose EXECUTE attempt passed goes on from validation.             *)
AfterPlan(r) == IF r.executed THEN "validate" ELSE "execute"

Proceed ==
    /\ pc = "begin"
    /\ inflight = "none"
    /\ ~Terminal(run)
    /\ Capable[run.request]
    /\ pc' = IF Structured[run.request] /\ ~run.plan THEN "plan" ELSE AfterPlan(run)
    /\ UNCHANGED <<durable, run, inflight, tries, fresh, crashes, calls, orphan, contested>>

-----------------------------------------------------------------------------
(* The plan loop.                                                          *)

PlanAttempt ==
    /\ pc = "plan"
    /\ CanAttempt(run, "plan")
    /\ Save(run, "plan")
    /\ pc' = "invoke"
    /\ UNCHANGED <<ws, result, tries, crashes, orphan>>

PlanExhausted ==
    /\ pc = "plan"
    /\ ~CanAttempt(run, "plan")
    /\ Save(Finish(run, FALSE, "plan_validation_exhausted"), "none")
    /\ pc' = "final"
    /\ UNCHANGED <<ws, result, tries, crashes, orphan>>

(* A plan that validates leaves the loop before the checkpoint: the file   *)
(* still says that the plan call is in flight.                             *)
PlanAccepted ==
    /\ pc = "call"
    /\ inflight = "plan"
    /\ run' = [AddAttempt(run, "plan", TRUE) EXCEPT !.plan = TRUE]
    /\ pc' = AfterPlan(run)
    /\ tries' = 0
    /\ UNCHANGED <<durable, inflight, fresh, crashes, calls, orphan, contested>>

(* An invalid plan, or a call that failed.                                 *)
PlanRejected ==
    /\ pc = "call"
    /\ inflight = "plan"
    /\ Save(AddAttempt(run, "plan", FALSE), "none")
    /\ pc' = "plan"
    /\ tries' = 0
    /\ UNCHANGED <<ws, result, crashes, orphan>>

-----------------------------------------------------------------------------
(* The execution call, made at most once in the life of a run.             *)

ExecuteAttempt ==
    /\ pc = "execute"
    /\ Save([run EXCEPT !.baseline = ws], "execute")
    /\ pc' = "invoke"
    /\ UNCHANGED <<ws, result, tries, crashes, orphan>>

ExecuteReturns(ok) ==
    /\ pc = "call"
    /\ inflight = "execute"
    /\ LET r == AddAttempt(run, "execute", ok)
       IN  Save(IF ok THEN r ELSE Finish(r, FALSE, "execution_failed"), "none")
    /\ pc' = IF ok THEN "validate" ELSE "final"
    /\ tries' = 0
    /\ UNCHANGED <<ws, result, crashes, orphan>>

-----------------------------------------------------------------------------
(* Validation and the repair loop.                                         *)

(* Wrong: the checkpoint names validation as the call in flight.           *)
ValidateInflight ==
    /\ pc = "validate"
    /\ run.baseline # Absent
    /\ Save([AddAttempt(run, "validate", TRUE)
                EXCEPT !.report = Contract(run.baseline, ws)], "validate")
    /\ pc' = "repair"
    /\ UNCHANGED <<ws, result, tries, crashes, orphan>>

(* Wrong: a check that passed before is not run again.                     *)
ValidateFailedOnly ==
    /\ pc = "validate"
    /\ run.baseline # Absent
    /\ LET now == Contract(run.baseline, ws)
           kept(v) == run.report # Absent /\ run.report[v] = "pass"
       IN  Save([AddAttempt(run, "validate", TRUE) EXCEPT !.report =
                    [v \in ValidatorIds |-> IF kept(v) THEN "pass" ELSE now[v]]], "none")
    /\ pc' = "repair"
    /\ UNCHANGED <<ws, result, tries, crashes, orphan>>

Validate ==
    /\ pc = "validate"
    /\ run.baseline # Absent
    /\ Save([AddAttempt(run, "validate", TRUE)
                EXCEPT !.report = Contract(run.baseline, ws)], "none")
    /\ pc' = "repair"
    /\ UNCHANGED <<ws, result, tries, crashes, orphan>>

NeedsRepair == Failures(run.report) # {} /\ CanAttempt(run, "repair")

RepairAttempt ==
    /\ pc = "repair"
    /\ NeedsRepair
    /\ Save(run, "repair")
    /\ pc' = "invoke"
    /\ UNCHANGED <<ws, result, tries, crashes, orphan>>

(* Wrong: a repair call that failed is no attempt.                         *)
RepairUncounted(ok) ==
    /\ pc = "call"
    /\ inflight = "repair"
    /\ run' = IF ok THEN AddAttempt(run, "repair", ok) ELSE run
    /\ pc' = IF ok THEN "validate" ELSE "repair"
    /\ tries' = 0
    /\ UNCHANGED <<durable, inflight, fresh, crashes, calls, orphan, contested>>

(* A repair call that succeeded is followed by a validation; one that      *)
(* failed goes back to the loop's test, neither validated nor saved.       *)
RepairReturns(ok) ==
    /\ pc = "call"
    /\ inflight = "repair"
    /\ run' = AddAttempt(run, "repair", ok)
    /\ pc' = IF ok THEN "validate" ELSE "repair"
    /\ tries' = 0
    /\ UNCHANGED <<durable, inflight, fresh, crashes, calls, orphan, contested>>

Verdicts(r) ==
    CASE RequiredUnsupported(r.report) # {} -> Finish(r, FALSE, "validation_unsupported")
      [] Failures(r.report) # {} /\ RequiredUnsupported(r.report) = {}
            -> Finish(r, FALSE, "artifact_validation_exhausted")
      [] OTHER -> Finish(r, TRUE, "success")

(* Wrong: the result is written before the closing checkpoint.             *)
ConcludeUnsaved ==
    /\ pc = "repair"
    /\ ~NeedsRepair
    /\ run' = Verdicts(run)
    /\ pc' = "report"
    /\ UNCHANGED <<durable, inflight, tries, fresh, crashes, calls, orphan, contested>>

Conclude ==
    /\ pc = "repair"
    /\ ~NeedsRepair
    /\ Save(Verdicts(run), "none")
    /\ pc' = "report"
    /\ UNCHANGED <<ws, result, tries, crashes, orphan>>

(* The closing checkpoint of the paths that have already finished.         *)
FinalCheckpoint ==
    /\ pc = "final"
    /\ Save(run, "none")
    /\ pc' = "report"
    /\ UNCHANGED <<ws, result, tries, crashes, orphan>>

WriteResult ==
    /\ pc = "report"
    /\ result' = Outcome(run)
    /\ Exit
    /\ UNCHANGED <<ws, disk, crashes, calls, orphan, contested>>

-----------------------------------------------------------------------------
(* A model call: invoke and its transport attempts.  The executor may      *)
(* write any file while it runs, also in an attempt that then fails, and   *)
(* survives a crash of the process that started it.                        *)

Invoke ==
    /\ pc = "invoke"
    /\ pc' = "call"
    /\ tries' = 1
    /\ calls' = [calls EXCEPT ![inflight] = @ + 1]
    /\ UNCHANGED <<durable, run, inflight, fresh, crashes, orphan, contested>>

RetryTransport ==
    /\ pc = "call"
    /\ tries < Transport[run.request]
    /\ tries' = tries + 1
    /\ UNCHANGED <<durable, pc, run, inflight, fresh, crashes, calls, orphan, contested>>

ExecutorWrites ==
    /\ pc = "call" \/ orphan
    /\ \E f \in Files, c \in Contents : ws' = [ws EXCEPT ![f] = c]
    /\ UNCHANGED <<disk, result, process, crashes, calls, orphan, contested>>

OrphanExits ==
    /\ orphan
    /\ orphan' = FALSE
    /\ UNCHANGED <<durable, process, crashes, calls, contested>>

Crash ==
    /\ pc # "down"
    /\ crashes < MaxCrashes
    /\ crashes' = crashes + 1
    /\ orphan' = (orphan \/ pc = "call")
    /\ Exit
    /\ UNCHANGED <<durable, calls, contested>>

-----------------------------------------------------------------------------
CallReturns ==
    \/ PlanAccepted
    \/ PlanRejected
    \/ \E ok \in BOOLEAN : ExecuteReturns(ok) \/ RepairReturns(ok)

Step ==
    \/ RefuseInflight \/ ReplayTerminal \/ CapabilityMismatch \/ Proceed
    \/ PlanAttempt \/ PlanExhausted
    \/ ExecuteAttempt
    \/ Validate \/ RepairAttempt \/ Conclude
    \/ FinalCheckpoint \/ WriteResult
    \/ Invoke

Next ==
    \/ \E r \in Requests : StartFresh(r) \/ Resume(r)
    \/ Step
    \/ CallReturns
    \/ RetryTransport
    \/ ExecutorWrites
    \/ OrphanExits
    \/ Crash

Spec == Init /\ [][Next]_vars

(* A running process takes its next step, a call returns (the executors    *)
(* enforce the request's timeout), and an interrupted run is resumed with  *)
(* its own request until it has a result.                                  *)
Fairness ==
    /\ WF_vars(Step)
    /\ WF_vars(CallReturns)
    /\ WF_vars(\E r \in Requests : Resume(r))

FairSpec == Spec /\ Fairness

-----------------------------------------------------------------------------
(* Properties.                                                             *)

Locations == {"down", "begin", "plan", "execute", "invoke", "call",
              "validate", "repair", "final", "report"}

(* The types of the state.                                                 *)
TypeOK ==
    /\ ws \in Workspaces
    /\ disk \in Checkpoints \cup {Absent}
    /\ result \in Outcomes \cup {Absent}
    /\ pc \in Locations
    /\ run \in IF pc = "down" THEN {NoRun} ELSE Runs
    /\ inflight \in Phases \cup {"none"}
    /\ tries \in Nat
    /\ fresh \in BOOLEAN
    /\ crashes \in Nat
    /\ calls \in [Phases -> Nat]
    /\ orphan \in BOOLEAN
    /\ contested \in BOOLEAN

(* However often a run is interrupted and resumed, the processes working   *)
(* on it make no more planning and repair calls together than its request  *)
(* budgets, and one execution call.                                        *)
CallsWithinBudget ==
    disk # Absent =>
        /\ calls["plan"] <= PlanBudget[disk.run.request]
        /\ calls["execute"] <= 1
        /\ calls["repair"] <= ArtifactBudget[disk.run.request]

(* The attempts of a finished run account for every call made for it; only *)
(* the call that was in flight when a process died may be missing, and the *)
(* run then says that its fate is unknown.                                 *)
CallsAccounted ==
    disk # Absent /\ Terminal(disk.run) =>
        \E lost \in Phases \cup {"none"} :
            /\ lost # "none" => disk.run.reason = "resume_inflight_unknown"
            /\ \A p \in Phases :
                   calls[p] = disk.run.count[p] + IF p = lost THEN 1 ELSE 0

(* How the calls made so far relate to the attempts of a run: all counted, *)
(* or all but one call.                                                    *)
Counted(r) == \A p \in Phases : calls[p] = r.count[p]
CountedBut(r, lost) ==
    \A p \in Phases : calls[p] = r.count[p] + IF p = lost THEN 1 ELSE 0

WithinBudget(r) ==
    /\ r.count["plan"] <= PlanBudget[r.request]
    /\ r.count["repair"] <= ArtifactBudget[r.request]
    /\ r.count["execute"] <= 1
    /\ r.count["execute"] = 1 /\ ~r.executed => Terminal(r)

(* A call of phase p can still be afforded.                                *)
Affordable(r, p) ==
    /\ p = "plan" => r.count["plan"] < PlanBudget[r.request]
    /\ p = "repair" => r.count["repair"] < ArtifactBudget[r.request]
    /\ p = "execute" => r.count["execute"] = 0

DiskLedger ==
    disk # Absent =>
        /\ WithinBudget(disk.run)
        /\ disk.inflight = "none" =>
              \/ Counted(disk.run)
              \/ /\ Terminal(disk.run)
                 /\ disk.run.reason = "resume_inflight_unknown"
                 /\ \E lost \in Phases :
                        CountedBut(disk.run, lost) /\ Affordable(disk.run, lost)
        /\ disk.inflight # "none" =>
              /\ ~Terminal(disk.run)
              /\ Affordable(disk.run, disk.inflight)
              /\ Counted(disk.run) \/ CountedBut(disk.run, disk.inflight)

ProcessLedger ==
    /\ pc # "down" => WithinBudget(run)
    /\ pc # "down" /\ fresh =>
        /\ run = NewRun(run.request)
        /\ inflight = "none"
        /\ pc \in {"begin", "plan", "execute"}
    /\ pc # "down" /\ ~fresh => disk # Absent /\ run.request = disk.run.request
    /\ pc = "begin" /\ ~fresh => run = disk.run /\ inflight = disk.inflight
    /\ pc \in {"plan", "execute", "validate", "repair"} =>
        /\ ~Terminal(run)
        /\ ~fresh => Counted(run) /\ ~Terminal(disk.run)
    /\ pc = "execute" => run.count["execute"] = 0
    /\ pc \in {"invoke", "call"} =>
        run = disk.run /\ inflight = disk.inflight /\ inflight \in Phases
    /\ pc = "invoke" => Counted(run)
    /\ pc = "call" => CountedBut(run, inflight)
    /\ pc \in {"final", "report"} => run = disk.run /\ disk.inflight = "none"

(* The inductive form of the two above: what is on disk and what the       *)
(* process holds in memory keep the same account of the calls.             *)
Ledger == DiskLedger /\ ProcessLedger

(* A checkpoint that says success holds a report without failures, and the *)
(* report is that of the workspace as it is, with the scope measured from  *)
(* before the execution, whichever processes executed, repaired and        *)
(* validated.  The exception is a run begun without resume while a call of *)
(* the run before it was still at work: that call may change the workspace *)
(* after the last validation, and nothing in execute looks for it.         *)
SuccessIsValidated ==
    disk # Absent /\ disk.run.stage = "complete" =>
        /\ disk.run.baseline # Absent
        /\ ~contested => disk.run.report = Contract(disk.run.baseline, ws)
        /\ Failures(disk.run.report) = {}
        /\ RequiredUnsupported(disk.run.report) = {}

(* A process that resumes, or that began the run it is working on when no  *)
(* call was left over, neither validates the workspace nor calls a model   *)
(* on it while a call of a process that crashed may still be writing       *)
(* there.  A process that starts over (fresh) may well find such a call,   *)
(* and its run is contested from its first checkpoint on.                  *)
NoOrphanedReads ==
    pc \in {"plan", "execute", "validate", "repair", "call"} /\ ~fresh /\ ~contested
        => ~orphan

(* Once the execution call is made, no process of that run moves the       *)
(* baseline that path_scope is measured from.                              *)
BaselineFrozen ==
    [][calls["execute"] > 0 /\ calls'["execute"] > 0
        => disk'.run.baseline = disk.run.baseline]_vars

(* A finished checkpoint is only ever replaced by a run begun from scratch.*)
TerminalIsFinal ==
    [][disk # Absent /\ Terminal(disk.run) /\ ~fresh => disk' = disk]_vars

(* The result file is written from a checkpoint that is finished on disk.  *)
ResultFollowsCheckpoint ==
    [][result' # result =>
        /\ Terminal(disk.run)
        /\ disk.inflight = "none"
        /\ result' = Outcome(disk.run)]_vars

(* Once there is a checkpoint, the result file comes to be that of the run *)
(* the checkpoint is of.  A run whose checkpoint another run, begun from   *)
(* scratch, has replaced is not owed one.                                  *)
EveryRunSettles == (disk # Absent) ~> (disk # Absent /\ result = Outcome(disk.run))

(* The validations of a finished run are those of the workspace it leaves  *)
(* (validation-contracts.md: "After a repair, re-run path scope and every  *)
(* applicable contract"), also when no other run's call is at work there.  *)
(* A repair call that wrote files and then failed leaves the validations   *)
(* of the workspace before it.                                             *)
ReportIsCurrent ==
    /\ pc = "report" /\ ~contested
    /\ run.reason \in {"artifact_validation_exhausted", "success"}
    => run.report = Contract(run.baseline, ws)

=============================================================================
