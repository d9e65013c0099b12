# A verification project for constraint-aware task execution

TLA+ modules, TLC configurations and TLAPS proofs about the programs of this
repository: the protocol that runs a task through a model (`scripts/execute_protocol.py`),
the executors it calls, and the experiment runners of `evals/`.

## 1. Inventory

Paths are relative to the repository. State is what outlives an operation.

| Component | State | Operations | What makes it correct |
|---|---|---|---|
| Execution protocol, `scripts/execute_protocol.py` | `checkpoint.json` (state, plan, baseline fingerprints, validations, call in flight), the result file, the workspace | `execute`: start, resume, plan loop, execution, validation, repair loop, closing; `main` | calls within budgets whatever is interrupted; success only of a validated workspace; one baseline; a finished run stays finished; every run gets its result |
| Execution state, `evals/execution_state.py` | stage, attempts, budgets | `can_attempt`, `add_attempt`, `finish`, `to_dict`, `from_dict`, `write_checkpoint` | counters survive a resume; budgets are exact |
| Workspace validators, `evals/validators/` | none | `validate_workspace_contract`, the registry, twelve built-in validators | path scope and every contract are evaluated on the workspace as it is; unknown means unsupported, not passed |
| Transport retries, `evals/executors/retry.py` | files of each attempt, files under the requested names | `generate_with_transport_retries` | only retryable failures are retried; output and trace are one attempt's |
| Codex executor, `evals/executors/codex_cli.py` | semaphore, time of the last finished call | `_codex_call_slot`, `generate` | bounded concurrency, recovery time, no permit lost |
| Ollama executor, executor base, agent runtime, runtime environment, redaction | none | one call each | failures are classified |
| Plan protocol, `evals/protocol.py` | none | parse, validate, normalise, synthesise a fallback, choose a retry | normalising never weakens a constraint; a fallback plan validates |
| Constraint policy, `evals/constraint_policy.py` | none | normalise, evaluate | hard constraints win over soft ones |
| Matrix runner, `evals/run_matrix.py` | `results.json`, raw answers and plans, per-job workspaces | `run_job`, worker pool, checkpoint after each job, resume by signature | completed rows survive; a row that is kept describes the evidence beside it |
| Runtime runner, `evals/run_runtime.py` | `runtime-results.json`, workspaces, artifact snapshots | `apply_artifact_bundle`, `run_runtime_job`, worker pool, resume | a pass is of the artifacts in the snapshot, also when a bundle was applied in part; rows survive a resume |
| A/B runner, `evals/run_ab.py` | `scores.json`, answers in `raw/` | `run_case`, `run_responses_case`, worker pool, checkpoint after each job, resume by signature and answer, `--force` | the answer beside a saved success is the one it was scored from; a success is lost only for a reason of the command line |
| Pairwise review, `evals/pairwise_review.py` | review packets, mapping keys, reviewed results | prepare, apply, adjudicate | reviews are credited to the answers they are of; disagreements are never averaged away; filled packets are not overwritten |
| Release experiment, `evals/release_experiment.py` | `state.json`, seeds of the reviewers | build steps, run a step, skip by record and evidence, `--resume`, `--force`, `--continue-on-error` | recorded complete means reported complete, of what is there |
| Reports and metrics: `capability_metrics.py`, `build_experiment_report.py`, `build_report.py`, `verify_release_contract.py` | none (`summary.json` is the report) | pair rows, compare, accept, summarise | a missing, doubled or unmatched pair is a gap and blocks acceptance; no loss hides in a mean |
| Scorer, ablation, language rules, fixtures, installation check | none | text rules, scripts | out of scope: regular expressions over prose |

**Interaction.** A run of `execute` calls an executor through `invoke`, which
retries through `generate_with_transport_retries`; the Codex executor's calls go
through one call slot per process. The agent writes the workspace directly.
`checkpoint()` saves the run before each call (with the call as `inflight`) and
after most. The runners of `evals/` call executors from a thread pool, collect
rows in the main thread and replace one results file after each row. There is
no lock between processes: one process per output directory is assumed by the
code and by the models. `release_experiment.py` runs these programs as child
processes, one after the other, and they speak through files: the matrix leaves
results and answers, `prepare` makes packets and keys of them, reviewers fill the
packets in, `apply` writes reviewed results, and the report accepts or does not.
Nothing but the existence of those files, and the record in `state.json`, ties
one step to the next.

**What is hard.** Processes die between the announcement of a call and its
record; agents survive them (nothing kills a child when its parent dies); calls
fail after changing files; the plan that validates is not saved until the next
announcement; finished runs are resumed; threads sleep on a value read earlier;
rows outlive the configuration they were made under; a step is run again and the
steps after it are not; packets that people have worked on meet programs that
make them anew. `PROJECT.json` lists each
of these at its line, with the properties that are about it.

## 2. Plan

Modules, in the order they were written.

| # | Modules | Models | State |
|---|---|---|---|
| 1 | `ExecuteProtocol` | `execute`, with execution state, contract and crashes | done |
| 2 | `RunContract`, `ExecuteRefinement` | what a run promises its operator, and that `ExecuteProtocol` keeps it | done |
| 3 | `CodexSlot`, `TransportRetry` (extends `CodexSlot`) | the call slot, and the retry loop around it | done |
| 4 | `ExecuteProtocolProofs`, `TransportRetryProofs` | proofs | done |
| 5 | `PlanPolicy`, `PlanLoop` (extends `PlanPolicy`) | plan rules, repair, fallback; the planning phase of both runners | done |
| 6 | `MatrixRunner` | worker pool, results file, resume | done |
| 7 | `MatrixJob` (extends `PlanLoop`), `MatrixJobRefinement` | one job; it implements what `MatrixRunner` takes a job for | done |
| 8 | `MatrixRunnerProofs` | proofs | done |
| 9 | `RuntimeJob` | bundles and jobs of the runtime experiment | done |
| 10 | `ResumeRunner` | `main` of `run_ab.py` and of `run_runtime.py`, side by side: what each loads, keeps and gives up | done |
| 11 | `CapabilityMetrics` | pairing, comparison and acceptance of rows | done |
| 12 | `ReviewScale`, `PairwiseReview` (extends `CapabilityMetrics`, `ReviewScale`) | packets, keys, reviewers, disputes, adjudication, rows written back; the scores as doubles | done |
| 13 | `ExperimentReport` (extends `PairwiseReview`) | completeness of the results and the status of a report | done |
| 14 | `ReleaseExperiment` (extends `ExperimentReport`) | steps, record, resume, timeouts, continuation after failures, composed with the children, reviewers and adjudicator | done |
| 15 | `ExecuteRefinementProofs`, `ResumeRunnerProofs`, `RuntimeJobProofs`, `MatrixJobProofs` | proofs | done |
| 16 | `ReleaseExperimentProofs` | proofs | done |

A run is added only for a question of its own: components that share an
instance are checked in one run, so that the runs stay few.

Abstract specifications: `RunContract` is the promise of a run;
`MatrixRunner`'s `JobStep` is the promise of a job to its runner; `PairsHold`, in
`ExperimentReport`, says what an accepted experiment is, against which the
computations of metrics, review and report are checked.

## 3. Modules and code

### ExecuteProtocol

| Model | Code |
|---|---|
| `disk` | `checkpoint.json`: the saved run and `inflight` |
| `run`, `inflight`, `pc` | the local variables of `execute` and where it is |
| `tries`, `RetryTransport` | attempts inside `generate_with_transport_retries` |
| `result` | the file `--output` names |
| `ws`, `ExecutorWrites` | the workspace, and the agent writing it during a call |
| `orphan`, `OrphanExits` | an agent whose parent process died, still writing; only the agent knows when it is done |
| `StartFresh`, `Resume` | `execute` without and with `"resume": true` |
| `RefuseInflight` | a resumed checkpoint with a call in flight fails as `resume_inflight_unknown` |
| `ReplayTerminal` | a finished checkpoint is only reported again |
| `PlanAttempt`, `PlanAccepted`, `PlanRejected`, `PlanExhausted` | the plan loop |
| `ExecuteAttempt`, `ExecuteReturns`, `Validate`, `RepairAttempt`, `RepairReturns`, `Conclude` | the rest of `execute`, in its order |
| `Save` | `checkpoint()` |
| `FinalCheckpoint`, `WriteResult`, `Exit` | the end of `execute` and `main` |
| `Crash` | the process is killed, between any two of the above |

What the data is reduced to: the list of attempts is a count per stage and
whether an execution passed, which is all that is read of it. A plan is a flag.
A request is a model value, as `_request_digest` compares; a checkpoint of
another request makes `execute` raise before it writes anything, so that
`Resume` is simply not enabled. The contract is `Contract`, path scope first,
then a constant `Verdict` of each validator on the workspace; validators are
taken not to change the workspace. A result with status `fail` carries an error.
Prompts, `previous` and `issues` are left out.

History variables: `calls` counts the calls made for the run that owns the
checkpoint. `fresh` says that a process has saved nothing yet. `contested` says
that the run was started over while such an agent was still at work. Without
`"resume": true`, `execute` does not open the checkpoint (line 360), so that
neither the call it announces nor the agent keeps the new run from starting, and
`StartFresh` has no guard about them. What is said of a workspace (`SuccessIsValidated`,
`NoOrphanedReads`, `ReportIsCurrent`) excepts contested runs; the rest holds of them too.

### RunContract and ExecuteRefinement

`RunContract` sees a run through its files only: calls are reserved before they
are made, within budgets and in the order of the stages; a run ends once and is
published after that. The refinement reads `disk` and `result` and nothing of
the process.

### CodexSlot and TransportRetry

A thread goes `Acquire` (semaphore), `ReadCooldown` (under the lock), `Enter`
(after the sleep), `Leave` (`finally`, time noted), `Release`. Time is what has
elapsed since the last noted end, up to the cool-down. `quiet` is history: the
time since any call ended. `TransportRetry` adds the loop around it:
outcomes `success`, `retryable`, `fatal`, back-off that doubles to a maximum,
and the two files published after the last attempt. Every return of both
executors' `generate` writes output and trace, also on failure, so that the early
return of `_publish_attempt` for a file that is not there is never taken. Processes
do not end in this model: what one that is killed between the two publications
leaves is not examined.

### PlanPolicy and PlanLoop

Texts are known by what the rules look for: the user's terms in a statement,
whether strategy and failure action read as a gate, target and scope, polarity.
Lists are sets, because no rule depends on order. `rest` stands for all fields
no repair touches. A case has its terms, whether a gate is allowed, whether the
fallback would add one, and whether it is a soft preference. `FailureIsTheAnswers`
speaks of cases that can be met at all (`Coherent`): with `required_gate` and no
enforcement patterns, the fallback has a gate that `run_matrix.py` does not allow, and
such a case gets no plan when no answer can be read. `PlanLoop` makes one
action of one plan call and all that is done with its answer. Both executors
write the output file on success and on failure; `--plan-attempts` is at least
one, which `run_runtime.py` checks.

### MatrixRunner, MatrixJob and MatrixJobRefinement

`results` is `results.json`; `rows` the rows in memory; `job` and `future` the
pool; `files` the evidence, each file known by the process that wrote it;
`commands` the command lines of the processes so far, each with its keys,
signature and number of workers. `Start` is `main` up to its
first `write_checkpoint`, `Collect` one turn of the `as_completed` loop. A job is
seen as: it writes evidence files, and returns a row that is signed only if the
answer was scored. `MatrixJob` is `run_job` in full, and `ImplementsRunnerJob`
checks that this view of a job is right. `Discard` is an operator who deletes
evidence between two processes. `launched`, `collected` and a row's `made` are
history.

### RuntimeJob

`Answers` is what a model may return as a bundle: a list of paths with contents,
which `Refused` judges as `apply_artifact_bundle` does before its first write: an
answer that is no bundle, a path that is not allowed or, case folded, named twice,
a file or a bundle too large. `ReplaceFile` is one
`os.replace`, in any order; `ReplaceFails` leaves what has been replaced. The
model calls are read-only, so that nothing else writes the workspace. The plan
phase is only its outcome here: it is the code of `PlanLoop`. Validation results
are constant functions of the workspace.

### ResumeRunner

`saved` is `scores.json` or `runtime-results.json`; `program` says which of the
two runners a behaviour is of. Their pools are alike, and what differs is where
`program` is asked: what is loaded (`Loads`: `run_runtime.py` gives up the rows of
another executor), which rows are kept (`Keeps`: `run_ab.py` wants the answer to
be there, `run_runtime.py` looks at the row only), which are in the first
checkpoint (`HeldRows`: `run_ab.py` drops the rows it will make again at once),
what an attempt deletes (`Try`), and which rows the exit status is about
(`AllGood`). `by` is the executor the file names; the protocol version it also
names is one constant of the program. `made`, `cleaned` and, in `files`, the
number of the process that wrote the evidence are history.

### CapabilityMetrics

Operators over a list of rows. A row's key is its slot (model, repeat and case in
one) and its variant; `sampling` stands for the sampling identity rows also pair
by. Measured values are fractions and compared exactly; what was not observed is
`Nothing`. Tolerances are zero, their default. Only the metrics a decision is
taken from are here: `Paired`, `Duplicated` and `Ambiguous` for the pairs,
`Regresses` for one pair, `MeanQuality`, `CostRatio` and `SemanticRetention` for
all, `CandidatesAccepted` for the verdict with its thresholds in `Policy`.

### ReviewScale and PairwiseReview

A packet maps review ids to the two sides' texts and scores, a key maps the same
ids to the candidate's side. `Prepared` and `Applied` are `prepare_reviews` and
`apply_reviews`, `Refused` their `ValueError`. A seed is the function it amounts
to, from review ids to sides. Whether two reviewers dispute a dimension depends
on differences of doubles, which `ReviewScale` computes to the bit: `<<n, e>>` is
n fifths and e units of 2^-55 fifths, rounded to the nearest double, ties to
even. `scored`, the texts a review was made of, is history.

### ExperimentReport

A payload declares its slots and variants. One that names no models is that of an
older runner: it names one model for all its rows, and one repeat, so that a slot
is its case alone, and what is expected is what there are rows of (`Normalized`).
`MatrixHolds` is `summarize_matrix` with `_capability_acceptance`; `ReportStatus`
is `build_summary` over all files. `PairsHold`, below them, is the reference they
are checked against and models no code: it speaks of single pairs, with no means.

### ReleaseExperiment

| Model | Code |
|---|---|
| `saved`, `held` | `state.json`, and `state` in memory |
| `disk` | the files of the children, by what is in them |
| `seeds`, `EnsuredSeeds` | the seed files, `ensure_review_seeds` |
| `BuildSteps`, `SelectedSteps`, `EvidenceExists` | `build_steps` and what follows it in `main` |
| `Start`, `Skips`, `Record`, `Finish` | `main` |
| `Outcomes` | `run_step`: what the child may leave, whether it returned 0, was killed by the time limit, or both it and the release were killed (`Crash`) |
| `MatrixOutcomes` | `run_matrix.py`, all its jobs at once: each job that runs ends as `Endings` allows for its key: its answer passes, has no contract to be checked against or fails it, or a call fails and the answer file is overwritten or not; jobs of a process that is killed may also leave an answer without a row, or nothing |
| `RuntimeOutcomes` | `run_runtime.py`, of one row, which a resume keeps if it passed under this configuration, in whichever process |
| `PrepareOutcomes`, `ApplyOutcomes`, `ReportOutcomes` | the children, by `PairwiseReview` and `ExperimentReport`; the report is two files, `page` (`REPORT.md`) and then `summary` (`summary.json`) |
| `Fill`, `Adjudicate` | reviewers and adjudicator, between processes |

A reviewer may leave single reviews of a packet blank, and fills it in once. The
adjudications are passed to `apply` if they were there when the process began.
One matrix and one runtime experiment stand for any number: the steps of more are
copies with files of their own. Verification is a step that leaves no file and may
fail like any other. An error that a child's own code does not expect ends it before
it has done anything, and counts as a fault, as does a kill. When the release
process is killed, nothing kills its child (`run_step` does so on its time limit
only): `Crash` lets the child end where it likes, and assumes that it has ended
before the next process starts.

## 4. Runs

| Run | Bounds | Shows |
|---|---|---|
| `execute` | 3 requests (structured, direct, without the capability), plan budget 2 or 1, artifact budget 2 or 0, 2 or 1 transport attempts, 2 files × 2 contents, 2 validators, 1 crash | all safety properties, the refinement, and that every run on disk gets its result |
| `execute_report` | the same, the structured request only | *violated*: the final report need not describe the final workspace |
| `retry_serial` | 3 threads, 1 permit, 3 attempts | publication, the permit, recovery between calls; all threads finish |
| `recovery_parallel` | 2 threads, 2 permits | *violated*: no recovery time between parallel calls |
| `matrix_job` | 2 terms, 10 kinds of constraint, at most 2 in a plan, 18 cases, all variants, 3 answers, 2 plan calls, 2 repairs | what is executed is valid and is the file named; planning fails only over the answers; repair keeps the user's terms; the row agrees with the answer file; the runner's view of a job is right |
| `matrix_safety` | 2 keys (one with a plan), 1 or 2 workers, 3 processes, 3 command lines with 2 signatures | rows, evidence, account, exit status |
| `matrix_budgets` | 1 key, 2 processes | *violated*: budgets are not in the signature |
| `matrix_evidence` | 1 key, 3 processes, 2 signatures | *violated*: evidence of another signature beside a row |
| `runtime_safety` | 4 paths (2 the same but for case, 1 not allowed), bundles of up to 2 items, 3 contents of 3 sizes, 2 repairs, both modes | a pass is of the snapshot |
| `runners` | both programs, 2 keys, 4 command lines, 1 or 2 workers and attempts, 4 processes | answers beside successes, exit status, which successes may be lost |
| `release` | 1 matrix of 2 variants, 1 candidate, 2 reviewers, 3 processes of 7 command lines, 1 process or child killed, each of the 5 endings of a job at one of the variants; 1 or 2 slots, declared or not, and up to 4 rows for acceptance | what complete means, pairs, credit of reviews, filled packets |
| `release_stale` | the same, 3 command lines, none killed | *violated*: a release recorded complete over reviews of other answers |

Why the bounds are enough to meet the interesting cases. One crash lets a resumed
process meet every intermediate state on disk; the proofs cover any number.
Two plan and two repair attempts have a first, a last and none left; an artifact
budget of zero has none at all; and a run can be started over beside the call its
predecessor left at work. Two files,
one allowed and one not, tell path scope from the other validators; two
validators give every mixture of pass, fail and unsupported. Three threads at
one permit have one inside, one sleeping and one waiting. Three processes on a
matrix are the one that made a row, the one that disturbed it and the one that
trusts it; with one worker the second job waits for the first. Four processes on
the smaller runners add one that selects other keys in between. Two items in a
bundle are the least that can be applied in part or name a path twice. A release
needs a process that makes packets, one after they have been filled in, and one
more to meet what either left; a single pair is enough for its files to disagree,
and the lists of rows, which have two slots and doubled rows, are enough for a
mean to hide a loss.

Fairness. `execute`: the process takes its next step; a call returns because the
executors enforce the request's timeout; the operator resumes an interrupted run
until it has a result, an assumption on the operator. Retries: every thread is
scheduled and time passes; the semaphore is *not* fair. The other runs check
safety and assume no fairness.

Deadlock is checked for the execute and retry runs. It is switched off where the
modelled program ends or the bound on processes is used up: one job, and the
runners and the release after their last process.

Assumed throughout: one process per output directory (nothing locks it);
the workspace of a run is changed by executor calls only, its own or those an earlier
process has left at work; both executors write output and trace whether the call
succeeds or not, as their code does on every return; a child killed by the
release's time limit is dead when the next step begins, and one whose release was
killed has ended when the next process starts; reviewers and adjudicator work while
no process of the release runs.

The processes of the release runs select all phases, as they do unless they are told
otherwise. What a process of fewer phases records is left to reading: complete, of
those alone. Each variant has some of the five endings of a job in the runs, all five
between them: which row a release meets matters to it by what the row holds, and the
theorems hold for any endings of any key.

## 5. Proofs

`ExecuteProtocolProofs`, for every set of requests, files and validators, every
budget and contract, and any number of crashes:

- `TypeCorrect`, the type invariant.
- `LedgerCorrect`. That budgets hold (`CallsWithinBudget`) is not inductive: the
  counter that is tested is in memory, the call is announced on disk before it is
  made and counted after it. `Ledger` relates the three: what is on disk and what
  the process holds are both equal to the calls made, or behind by exactly the
  one in flight, and the call in flight was still affordable when announced.
- `BudgetsHold` and `AccountHolds` follow from `Ledger` state by state.
- `TerminalStaysFinal`, `NoReadOfOrphan` and `ResultIsDurable` rest on a second
  invariant, `Contained`: an orphan of an uncontested run exists only while the
  checkpoint still announces its call, and every way past that checkpoint ends the
  run, or starts it over, contested. `NoReadOfOrphan` therefore speaks of resumed and
  of uncontested runs; the other two hold of all.

`ExecuteRefinementProofs`, in the same generality:

- `ContractKept`: every step of `ExecuteProtocol` is a step of `RunContract`, or one
  it does not see. It needs `Order`, which relates where the process is to what its
  run has done: no execution of a structured request without a plan, no repair
  without an execution that passed, and the attempts it remembers are those the
  checkpoint records or announces. What appears on disk next is then what the
  contract allows next.
- `BaselineStays` needs `SameBaseline`: a process that did not begin its run has
  the baseline that is on disk.
- `SuccessStands` needs `Validated`: a report without failures is of the workspace
  as it is, because only a repair leaves a report behind and a repair has failures
  to repair; and where an orphan may still write, the checkpoint is not one of
  success. Both are said of uncontested runs. Of contested ones the theorem says
  that the report of a success is free of failures, and not that it stays true.

`TransportRetryProofs`, for every finite set of threads, number of permits and
cool-down: `PermitsConserved` by counting the threads inside, with the library's
facts on cardinality; `RecoveryWhenSerial` assumes `MaxConcurrency = 1`, the
default. Without that assumption it is false, as `recovery_parallel` shows. Both
are proved of the slot alone. `RetriesUseSlot` shows that the retry loop is, step by
step, the slot with a back-off around it, and `RetriesConservePermits` and
`RetriesRecover` carry the two over. `OneAttemptPublished` and `RetriesTyped` need
`Attempting`: between a call and the publication of its files, the attempts that are
remembered are the ones whose files are there.

`MatrixRunnerProofs`, for every set of keys and command lines, every signature
function, any number of workers and processes: `TypeCorrect`; then `BooksKept`,
an inductive invariant that joins `Account` with what `CompletedResultsKept` and
`EvidenceOfTheRow` say of each key. `Account` is what makes them inductive: a
process runs a key at most once, so that evidence being overwritten always
belongs to a row of an earlier process; and a key with nothing left to do either
has no success or a row that would be kept. `ResultsKept`, `EvidenceKept` and
`ZeroIsComplete` follow.

`MatrixJobProofs`, for every set of terms and constraints, every order of the terms,
every case and any number of attempts: `JobInv` and, within it, `PlanInv` are
inductive. `PlanInv` adds to the properties of planning in which order the attempts
fill their files, and what planning ended with; `JobInv` adds what stage a job is at
when it has a plan and a row, and that the score it holds is that of the answer in
its file, which only a repair improves.
`FailureExplained` needs that the fallback put together for a coherent case is valid,
and so what `Completed` computes, by recursion over the list of terms. That is
induction over data: the library's theorems on it take an operator as a parameter,
which the provers here cannot instantiate, but `NatSetInduction`, which speaks of
membership in a set, follows from the well-foundedness of the naturals and does.
`JobImplementsRunner` closes the gap between one job and `MatrixRunner`, whose
theorems then hold of rows made by `run_job` as it is.

`ResumeRunnerProofs`, for every set of keys and command lines, any number of
processes, and either program: `Collecting` says, of a process at work, that every
key it selected has a job or a row it may keep, which of its jobs had a success
before (of `run_runtime.py`, and of another signature), and that what a job has
returned is of this process, as is the answer beside it. The theorems are then about
one step: which rows a start, an attempt or a checkpoint may give up.

`RuntimeJobProofs`, for every set of paths, contents, answers and verdicts: `IInv`
says, at every point of the job, that whatever counts as applied or mended comes
after a call that answered (`Answered`), that a repair is under way only for errors,
which stay until it is judged (`UnderWay`), that without errors the workspace is
the one that was validated (`Judged`), and that paths the case does not allow stay
empty (`Kept`). `PassIsOfTheSnapshot` alone says nothing of a bundle that is half
applied.

`ReleaseExperimentProofs`, for every matrix, list of reviewers, candidates, thresholds,
command lines and seeds, any ways to fill a packet in and any number of processes and
faults:

- `AcceptedAreNoWorse` is about the computations of metrics and report alone: a list
  of rows of any length that acceptance accepts consists of pairs that hold one by
  one. The arguments are that complete coverage leaves one row for each key, that a
  paired row has one baseline, and that a ratio of at least one is an order.
- `ScoresCredited` needs `ReleaseInv`, which says of each file what is in it: texts are
  known by the key that wrote them (`Answered`), sides of packets and keys are those of
  the reviewer's one seed, whichever process wrote them (`Packed`), adjudications are
  of pairs there are (`Adjudicated`), and rows of reviewed results and summaries are
  what review and report make of these (`ReviewFiled`, `Summarised`). That a killed or
  forced `prepare` cannot swap sides rests on the seed being drawn once.
  `ReleaseTyped` follows.
- `PacketsSurvive` is about one step: only `prepare` touches packets, and not those
  that exist, unless forced.
- `CompleteIsReported` needs `CompletionInv`: the report is the last step of every
  process and is recorded only when it said complete; a process that has not failed
  has it recorded or still to do; and a process that begins anew replaces the record
  before it comes to the report. Its hypothesis is that processes run all phases, as
  they do unless they are told to run some (`phases or PHASES`,
  `evals/release_experiment.py:494`): a process of some phases without the report
  records complete for those alone, as it is meant to.
- `RecordIsOfTheReviews`, the theorem of `RecordedAsReviewed`, needs `RecordInv`. Of a
  release that has not strayed it says three things of the files. Steps are recorded
  after those they rest on, and with their files (`Ordered`, `Evident`). Unless a
  packet is there without its record, from which there is no way on (`Alive`), packets
  show the answers there are (`Current`); reviewed results that are complete are what
  `apply` would write now (`ReviewStands`), so that a second `apply` of a process that
  was killed before it recorded the first changes nothing, no packet is left to fill in
  and no dispute to adjudicate; and a recorded report is of them (`ReportStands`). And
  rows are of the one configuration and of the answers there are (`ScoredUnder`). Of a
  process it says that what it has still to do contains each of these steps once, after
  those it rests on, and none that is recorded unless it resumes (`Scheduled`): a step
  that runs is then not recorded, and its files are not yet used (`StepReady`).
  TLC has checked `RecordInv` on the instance of `release`, with two faults.
  Its hypotheses, `WholeReviews`: processes run all phases; reviews are required, as
  without them no review step is built (`evals/release_experiment.py:409`); and as many
  reviewers are needed for a pair as there are. The release the repository ships is
  one of these, with two of two reviewers (`evals/release-experiment.json:115`). Of
  releases with more reviewers than they need it is false: finding 5, the third way.

The lists of steps and rows are put together by `FlattenSeq` and the points of a
review by sums over sets, recursive functions both. What they give is proved by
`NatSetInduction`, as above.

The proofs use the named assumptions on the constants in the modules, which TLC
evaluates in the runs. Two of them, both called `NoRowAssumption`, say that the
value for a row that is not there (`None`) is not a row.

`ReleaseAssumption` says what `load_config` and the programs make sure of: reviewers
differ, at least two and at most all of them are needed for a pair, a candidate is not
the baseline, scores are 0 to 5 (`evals/pairwise_review.py:109`). `NothingAssumption`
says that the value for what is not there is none of the values that may be.

Only model-checked: liveness (`EveryRunSettles`, `AllDone`), which is out of the
prover's reach.

## 6. Findings

1. A repair call that fails after changing files ends with a report on the
   workspace before it (`execute_report`; `scripts/execute_protocol.py:529`
   against `skills/constraint-exec/references/validation-contracts.md:23`). A
   verdict of success is not affected: `SuccessIsValidated` holds. The run is not
   contested: no other call is at work there.
2. With two permits, calls can start without recovery time
   (`recovery_parallel`; `evals/executors/codex_cli.py:141` against its line 135).
3. The matrix signature leaves budgets out (`matrix_budgets`;
   `evals/run_matrix.py:389` against `README.md:163`).
4. Evidence of an interrupted run under another signature can stand beside a row
   that a resume keeps (`matrix_evidence`; `evals/run_matrix.py:693` against
   `skills/constraint-exec/references/execution-protocol.md:31`).
5. A resumed release skips the steps recorded as done although a step they rest
   on is run again, and can be recorded complete over reviews of answers that are
   not the ones compared (`release_stale`; `evals/release_experiment.py:563`
   against `README.md:60`). It takes a process that went on after errors and a
   forced resume; `RecordedAsReviewed` shows that releases whose processes stop at
   their first error, and are neither forced nor reconfigured, are safe from it.
   Another way takes five processes, more than the run has, and no error to go on
   after: a forced process replaces the packets of a release that had been
   adjudicated; `apply` refuses the adjudications that are left, which does not stop
   the process, and the report is made again from the reviewed results there were,
   and recorded as done; once the new packets are filled in and `apply` succeeds, a
   resume skips the report, and the summary recorded as complete is of the earlier
   results.
   A third way needs neither force nor continuation, but more reviewers than the
   minimum a pair needs, which `load_config` allows (`evals/release_experiment.py:84`),
   and two faults, one more than the run has: a process is killed when `apply` has
   written complete results and before it is recorded; the next one's `apply` runs into
   its time limit, which does not stop the process, and the report is made of the
   results there were, and recorded; then another reviewer's packet is filled in, and
   `apply`, run again, replaces the results, while the report is skipped.

Remarks on behaviour no document contradicts. A run that is started over, without
`resume`, after a process was killed in a call (`scripts/execute_protocol.py:353`)
does not look whether that call is still at work, although the checkpoint it replaces
announces it. The old agent may then write while the new run takes its baseline and
validates, and change the workspace after the last validation, so that the checkpoint
says success of a workspace that is gone; without the condition on `contested`,
`SuccessIsValidated` and `NoOrphanedReads` are violated. A resume of such a checkpoint
is refused (`resume_inflight_unknown`), so that starting over is what its operator is
left with, and only the operator can wait for the agent. A bundle of several files can
be applied in part when a later `os.replace` fails (`evals/run_runtime.py:305`),
and the row then lists no applied path; `PassIsOfTheSnapshot` shows that a job
does not pass on it. And whatever a plan call writes belongs to the baseline,
which is taken after planning (`scripts/execute_protocol.py:460`).
`run_runtime.py` keeps a passing row without looking at its artifacts (line 748):
a job of another command line that was killed leaves its own artifacts beside the
row, so that `AnswersStand` is true of `run_ab.py` only. A release killed between
a packet and its key (`evals/pairwise_review.py:495`) refuses to prepare that
reviewer again until it is forced, which replaces what reviewers have filled in;
`UnblindedRight` shows that no score is credited to the wrong side all the same.
Reviewers who differ by one point in the same direction are in dispute for some
pairs of scores and not for others, because the spread of two differences of
doubles is compared with 0.2 (`evals/pairwise_review.py:182`).

## 7. Not modelled

The operating system's side of a call (process groups, pipes, time limits); the
text of prompts, traces, logs and usage totals; regular expressions over prose
(scorer, language rules, gate detection), which appear as constants; parsing and
shape checks that fail before anything is written, `load_config` and the checks a
release makes before its first step among them; metrics that no decision is taken
from, Markdown, and `build_report.py`; `verify_release_contract.py`, which compares
two files that nothing in the repository changes at run time and appears as a step
that passes or fails; scripts without state (ablation, fixtures, rescoring,
validator evaluation, installation check). Two processes on one output directory,
and names that map to one path, are outside the models; `PROJECT.json` lists the
hazards of these parts with a note each.
