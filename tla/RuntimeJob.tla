----------------------------- MODULE RuntimeJob -----------------------------
(***************************************************************************)
(* One job of the runtime experiment: run_runtime_job of                   *)
(* evals/run_runtime.py.  The model has no access to the workspace: it     *)
(* answers with a bundle of files, which the runner checks, stages and     *)
(* puts in place one file after the other (apply_artifact_bundle) before   *)
(* the contract is evaluated.  Full jobs plan first (PlanLoop, of which    *)
(* only the outcome matters here) and repair afterwards.                   *)
(***************************************************************************)
EXTENDS Naturals, SequencesExt

CONSTANTS
    Paths,           \* the paths an answer may name
    Files,           \* the allowed paths of the case
    Fold,            \* [Paths -> names]: str.casefold
    Contents,        \* what a path can hold
    Size,            \* [Contents -> Nat]: its bytes
    MaxFile,         \* MAX_ARTIFACT_FILE_BYTES
    MaxBundle,       \* MAX_ARTIFACT_BUNDLE_BYTES
    MaxItems,        \* bound on the files of an answer
    Missing,         \* no file
    HasErrors,       \* [Workspaces -> BOOLEAN] some validation fails
    HasUnsupported,  \* [Workspaces -> BOOLEAN] some validation is unsupported
    RepairAttempts   \* --repair-attempts

Workspaces == [Paths -> Contents \cup {Missing}]

(* An answer is a list of files; an answer that is none is the empty list. *)
Items == [path : Paths, content : Contents]
Answers == UNION {TupleOf(Items, n) : n \in 0 .. MaxItems}
Bundles == UNION {[S -> Contents] : S \in SUBSET Files}

(* apply_artifact_bundle, the checks: one fault refuses the whole answer.  *)
Refused(answer) ==
    \/ answer = <<>>
    \/ \E i \in DOMAIN answer :
        \/ answer[i].path \notin Files
        \/ Size[answer[i].content] > MaxFile
        \/ \E j \in 1 .. i - 1 : Fold[answer[j].path] = Fold[answer[i].path]
    \/ FoldLeft(LAMBDA total, item : total + Size[item.content], 0, answer) > MaxBundle

BundleOf(answer) ==
    [p \in {answer[i].path : i \in DOMAIN answer} |->
        answer[CHOOSE i \in DOMAIN answer : answer[i].path = p].content]

ASSUME RuntimeAssumption ==
    /\ Files \subseteq Paths
    /\ Missing \notin Contents
    /\ Size \in [Contents -> Nat] /\ MaxFile \in Nat /\ MaxBundle \in Nat /\ MaxItems \in Nat
    /\ HasErrors \in [Workspaces -> BOOLEAN]
    /\ HasUnsupported \in [Workspaces -> BOOLEAN]
    /\ RepairAttempts \in Nat

VARIABLES
    full,        \* mode = "full-v2": plans and repairs
    ws,          \* the workspace
    stage,       \* "plan", "call", "apply", "validate", "decide", "ended" or "done"
    called,      \* did the execute call succeed?
    bundle,      \* the bundle being put in place
    pending,     \* its files not replaced yet
    errors,      \* the errors of the run: "none", "bundle" or "contract"
    unsupported, \* did the last validation report something unsupported?
    applied,     \* the execute bundle was applied
    repairs,     \* repair calls made
    mended,      \* repair_success
    snapshot,    \* the artifact snapshot file
    row,         \* what the job returns
    validated    \* history: the workspace last validated
vars == <<full, ws, stage, called, bundle, pending, errors, unsupported, applied,
          repairs, mended, snapshot, row, validated>>

NoFiles == [f \in {} |-> Missing]
NoWorkspace == NoFiles
NoRow == [reason |-> "none", pass |-> FALSE]
Reasons == {"none", "success", "validation_unsupported", "artifact_bundle_exhausted",
            "validation_exhausted", "execution_failed", "plan_validation_exhausted",
            "executor_capability_mismatch"}

Init ==
    /\ full \in BOOLEAN
    /\ ws = [p \in Paths |-> Missing]
    /\ stage = "plan"
    /\ called = FALSE
    /\ bundle = NoFiles
    /\ pending = {}
    /\ errors = "none"
    /\ unsupported = FALSE
    /\ applied = FALSE
    /\ repairs = 0
    /\ mended = FALSE
    /\ snapshot = NoWorkspace
    /\ row = NoRow
    /\ validated = NoWorkspace

Returns(reason, pass) ==
    /\ stage' = "done"
    /\ row' = [reason |-> reason, pass |-> pass]

(* The executor has no structured output, or no plan was accepted.         *)
GiveUp(reason) ==
    /\ stage = "plan"
    /\ reason = "plan_validation_exhausted" => full
    /\ Returns(reason, FALSE)
    /\ UNCHANGED <<full, ws, called, bundle, pending, errors, unsupported, applied,
                   repairs, mended, snapshot, validated>>

Planned ==
    /\ stage = "plan"
    /\ stage' = "call"
    /\ UNCHANGED <<full, ws, called, bundle, pending, errors, unsupported, applied,
                   repairs, mended, snapshot, row, validated>>

Executing == stage = "call" /\ repairs = 0

(* A call that fails leaves the errors of the run as they are.             *)
CallFails ==
    /\ stage = "call"
    /\ stage' = "decide"
    /\ UNCHANGED <<full, ws, called, bundle, pending, errors, unsupported, applied,
                   repairs, mended, snapshot, row, validated>>

(* Nothing is written.                                                     *)
BundleRefused(answer) ==
    /\ stage = "call"
    /\ Refused(answer)
    /\ stage' = "decide"
    /\ called' = (called \/ Executing)
    /\ errors' = "bundle"
    /\ UNCHANGED <<full, ws, bundle, pending, unsupported, applied,
                   repairs, mended, snapshot, row, validated>>

(* Every file of the bundle is written beside its target.                  *)
BundleStaged(answer) ==
    /\ stage = "call"
    /\ ~Refused(answer)
    /\ stage' = "apply"
    /\ called' = (called \/ Executing)
    /\ bundle' = BundleOf(answer)
    /\ pending' = DOMAIN bundle'
    /\ UNCHANGED <<full, ws, errors, unsupported, applied, repairs, mended,
                   snapshot, row, validated>>

ReplaceFile(f) ==
    /\ stage = "apply"
    /\ f \in pending
    /\ ws' = [ws EXCEPT ![f] = bundle[f]]
    /\ pending' = pending \ {f}
    /\ stage' = IF pending' = {} THEN "validate" ELSE "apply"
    /\ UNCHANGED <<full, called, bundle, errors, unsupported, applied,
                   repairs, mended, snapshot, row, validated>>

(* os.replace, or the second check of the target, fails: what is staged is *)
(* removed, what has been replaced stays.                                  *)
ReplaceFails ==
    /\ stage = "apply"
    /\ pending # {}
    /\ pending' = {}
    /\ stage' = "decide"
    /\ errors' = "bundle"
    /\ UNCHANGED <<full, ws, called, bundle, unsupported, applied,
                   repairs, mended, snapshot, row, validated>>

Validate ==
    /\ stage = "validate"
    /\ stage' = "decide"
    /\ validated' = ws
    /\ errors' = IF HasErrors[ws] THEN "contract" ELSE "none"
    /\ unsupported' = HasUnsupported[ws]
    /\ applied' = (applied \/ repairs = 0)
    /\ mended' = (mended \/ (repairs > 0 /\ ~HasErrors[ws] /\ ~HasUnsupported[ws]))
    /\ UNCHANGED <<full, ws, called, bundle, pending, repairs, snapshot, row>>

(* Wrong: off by one.                                                      *)
MayRepairOnceMore == full /\ errors # "none" /\ repairs <= RepairAttempts

MayRepair == full /\ errors # "none" /\ repairs < RepairAttempts

Repair ==
    /\ stage = "decide"
    /\ MayRepair
    /\ repairs' = repairs + 1
    /\ stage' = "call"
    /\ UNCHANGED <<full, ws, called, bundle, pending, errors, unsupported, applied,
                   mended, snapshot, row, validated>>

TakeSnapshot ==
    /\ stage = "decide"
    /\ ~MayRepair
    /\ snapshot' = ws
    /\ stage' = "ended"
    /\ UNCHANGED <<full, ws, called, bundle, pending, errors, unsupported, applied,
                   repairs, mended, row, validated>>

(* Wrong: a job that has no errors passes.                                 *)
PassesWithoutErrors == errors = "none"

ContractPass == (applied \/ mended) /\ errors = "none" /\ ~unsupported

Reason ==
    IF ContractPass THEN "success"
    ELSE IF unsupported THEN "validation_unsupported"
    ELSE IF errors = "bundle" THEN "artifact_bundle_exhausted"
    ELSE IF called THEN "validation_exhausted"
    ELSE "execution_failed"

Return ==
    /\ stage = "ended"
    /\ Returns(Reason, ContractPass)
    /\ UNCHANGED <<full, ws, called, bundle, pending, errors, unsupported, applied,
                   repairs, mended, snapshot, validated>>

Next ==
    \/ \E reason \in {"executor_capability_mismatch", "plan_validation_exhausted"} :
        GiveUp(reason)
    \/ Planned
    \/ CallFails
    \/ stage = "call" /\ \E answer \in Answers : BundleRefused(answer) \/ BundleStaged(answer)
    \/ \E f \in Files : ReplaceFile(f)
    \/ ReplaceFails
    \/ Validate
    \/ Repair
    \/ TakeSnapshot
    \/ Return

Spec == Init /\ [][Next]_vars

-----------------------------------------------------------------------------
(* The types of the state.                                                 *)
TypeOK ==
    /\ full \in BOOLEAN
    /\ ws \in Workspaces
    /\ stage \in {"plan", "call", "apply", "validate", "decide", "ended", "done"}
    /\ called \in BOOLEAN
    /\ bundle \in Bundles
    /\ pending \subseteq DOMAIN bundle
    /\ errors \in {"none", "bundle", "contract"}
    /\ unsupported \in BOOLEAN
    /\ applied \in BOOLEAN
    /\ repairs \in 0 .. RepairAttempts
    /\ mended \in BOOLEAN
    /\ snapshot \in Workspaces \cup {NoWorkspace}
    /\ row.pass \in BOOLEAN /\ row.reason \in Reasons
    /\ validated \in Workspaces \cup {NoWorkspace}

(* A job passes for the artifacts it leaves in its snapshot: they are the  *)
(* ones that were validated last, the validation found nothing, and no     *)
(* path is there that the case does not allow.  Repairs mend what an       *)
(* execute call delivered, and never stand in for one that failed.         *)
PassIsOfTheSnapshot ==
    row.pass =>
        /\ called
        /\ snapshot \in Workspaces
        /\ validated = snapshot
        /\ ~HasErrors[snapshot]
        /\ ~HasUnsupported[snapshot]
        /\ \A p \in Paths \ Files : snapshot[p] = Missing

=============================================================================
