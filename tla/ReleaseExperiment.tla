-------------------------- MODULE ReleaseExperiment --------------------------
(***************************************************************************)
(* The release of evals/release_experiment.py (main): the steps of the     *)
(* selected phases run as child processes one after the other, each is     *)
(* recorded in state.json, and a process that resumes skips those recorded *)
(* as successful.  The children are run_matrix.py, pairwise_review.py,     *)
(* run_runtime.py, the fixtures and build_experiment_report.py, seen       *)
(* through the files they leave.  Between processes reviewers fill their   *)
(* packets in and disputes are adjudicated.                                *)
(*                                                                         *)
(* There is one matrix and one runtime experiment: of more, the steps are  *)
(* copies with files of their own.                                         *)
(***************************************************************************)
EXTENDS ExperimentReport

CONSTANTS
    Payloads,      \* results that acceptance is examined on
    Candidates,    \* candidate_variants
    KeyOrder,      \* the keys <<slot, variant>> of the matrix, in order
    Reviewers,     \* reviewers, in order
    CheckSteps,    \* the steps of the deterministic phase, in order
    Judgements,    \* [Sides -> scores]: how a review may be filled in
    Endings,       \* [Keys -> SUBSET JobEndings]: how a job of the matrix may end
    Sample,        \* the fields of a row that no step here looks at
    Configs,       \* release configurations
    Commands,      \* command lines
    Draws,         \* seeds that reviewers may be given
    MaxStarts,     \* bound on the processes of a behaviour
    MaxFaults      \* bound on the processes and children killed in it

Phases == {"verification", "deterministic", "matrix", "review-prepare",
           "review-apply", "runtime", "report"}

Keys == Range(KeyOrder)
ReviewerSet == Range(Reviewers)
ReviewIds == {<<<<k[1], Sample.sampling>>, k[2]>> : k \in {j \in Keys : j[2] \in Candidates}}
Seeds == [ReviewIds -> Sides]

(* What the rows of a payload hold: the fields of their key, and scores in *)
(* reviews that are settled.                                               *)
Readable(payload) ==
    /\ payload = [slots |-> payload.slots, variants |-> payload.variants,
                  rows |-> payload.rows, review |-> payload.review]
    /\ payload.rows \in Seq(Range(payload.rows))
    /\ \A i \in DOMAIN payload.rows :
        LET row == payload.rows[i]
        IN /\ row.key = <<row.key[1], row.key[2]>>
           /\ \A v \in DOMAIN row.reviews :
                row.reviews[v].status \in Settled => row.reviews[v].overall \in Nat \X Nat

Scores == [Dimensions -> 0 .. 5]

(* How a job of the matrix may end.  Its answer passes, has no contract to *)
(* be checked against, or fails it; or a call of it fails, the answer file *)
(* being what it was or overwritten by the call that failed.               *)
Succeeding == {"passed", "unsupported"}
Scoring == Succeeding \cup {"rejected"}
JobEndings == Scoring \cup {"failed", "overwritten"}

ASSUME ReleaseAssumption ==
    /\ \A payload \in Payloads : Readable(payload)
    /\ KeyOrder \in Seq(Keys) /\ \A k \in Keys : k = <<k[1], k[2]>>
    /\ "baseline" \notin Candidates
    /\ CheckSteps \in Seq(Range(CheckSteps))
    /\ Range(CheckSteps) \cap {"unit-tests", "matrix", "review-prepare", "review-apply",
                               "runtime", "release-report"} = {}
    /\ Reviewers \in Seq(ReviewerSet) /\ Cardinality(ReviewerSet) = Len(Reviewers)
    /\ Policy.reviewers \in 2 .. Len(Reviewers)
    /\ IsFiniteSet(Dimensions) /\ Dimensions # {} /\ Judgements \subseteq [Sides -> Scores]
    /\ Endings \in [Keys -> SUBSET JobEndings]
    /\ {"key", "sampling", "success", "scored", "contract", "reviews", "retention", "config",
        "answer"} \subseteq DOMAIN Sample
    /\ DOMAIN Sample.reviews = {}
    /\ Commands \subseteq [phases : SUBSET Phases, resume : BOOLEAN, force : BOOLEAN,
                           continue : BOOLEAN, config : Configs]
    /\ Draws \subseteq [ReviewerSet -> Seeds]
    /\ MaxStarts \in Nat /\ MaxFaults \in Nat

VARIABLES
    disk,     \* the files of the children, of reviewers and of the adjudicator
    seeds,    \* the seed of each reviewer
    saved,    \* state.json
    pc,       \* "down" or "running"
    opts,     \* the command line of the process
    todo,     \* the steps it has still to look at
    held,     \* its state in memory
    failed,   \* has a step failed?
    starts,   \* processes started so far
    faults,   \* processes and children killed so far
    strayed   \* history: has a process been told to go on after errors, or forced,
              \* or been given another configuration?
vars == <<disk, seeds, saved, pc, opts, todo, held, failed, starts, faults, strayed>>

NoReviews == [id \in {} |-> Nothing]

Init ==
    /\ disk = [checks |-> [c \in Range(CheckSteps) |-> Nothing], results |-> Nothing,
               answers |-> [k \in Keys |-> Nothing],
               packets |-> [r \in ReviewerSet |-> Nothing],
               mappings |-> [r \in ReviewerSet |-> Nothing],
               adjudications |-> Nothing, reviewed |-> Nothing, runtime |-> Nothing,
               page |-> Nothing, summary |-> Nothing]
    /\ seeds = [r \in ReviewerSet |-> Nothing]
    /\ saved = Nothing
    /\ pc = "down"
    /\ opts = Nothing
    /\ todo = <<>>
    /\ held = Nothing
    /\ failed = FALSE
    /\ starts = 0
    /\ faults = 0
    /\ strayed = FALSE

-----------------------------------------------------------------------------
(* build_steps, in its order.                                              *)
Prepare(r) == <<"review-prepare", r>>
PhaseOf(step) ==
    CASE step[1] = "unit-tests" -> "verification"
      [] step[1] \in Range(CheckSteps) -> "deterministic"
      [] step[1] = "release-report" -> "report"
      [] OTHER -> step[1]

BuildSteps ==
    <<<<"unit-tests">>>>
    \o [i \in DOMAIN CheckSteps |-> <<CheckSteps[i]>>]
    \o <<<<"matrix">>>>
    \o [i \in DOMAIN Reviewers |-> Prepare(Reviewers[i])]
    \o <<<<"review-apply">>, <<"runtime">>, <<"release-report">>>>

SelectedSteps(phases) ==
    FlattenSeq([i \in DOMAIN BuildSteps |->
        IF PhaseOf(BuildSteps[i]) \in phases THEN <<BuildSteps[i]>> ELSE <<>>])

(* The files a step is to leave behind.                                    *)
EvidenceExists(d, step) ==
    CASE PhaseOf(step) = "verification" -> TRUE
      [] PhaseOf(step) = "deterministic" -> d.checks[step[1]] # Nothing
      [] PhaseOf(step) = "matrix" -> d.results # Nothing
      [] PhaseOf(step) = "review-prepare" ->
            d.packets[step[2]] # Nothing /\ d.mappings[step[2]] # Nothing
      [] PhaseOf(step) = "review-apply" -> d.reviewed # Nothing
      [] PhaseOf(step) = "runtime" -> d.runtime # Nothing
      [] PhaseOf(step) = "report" -> d.page # Nothing /\ d.summary # Nothing

-----------------------------------------------------------------------------
(* What a child may do to the files: a set of outcomes, each with what the *)
(* files are then and whether it returned 0, or was killed at some point   *)
(* by the step's timeout.                                                  *)
Outcome(d, ok) == [disk |-> d, ok |-> ok, killed |-> FALSE]
KilledWith(d) == [disk |-> d, ok |-> FALSE, killed |-> TRUE]
Failed == Outcome(disk, FALSE)

CheckOutcomes(c) ==
    {Outcome([disk EXCEPT !.checks[c] = v], v = "pass") : v \in {"pass", "fail"}}

(* run_job, of which a row remembers, for the properties, what it was      *)
(* scored from.                                                            *)
Text(k) == <<k, starts>>
RowOf(k, end) ==
    [Sample EXCEPT !.key = k, !.config = opts.config,
                   !.success = end \in Succeeding, !.scored = end \in Scoring,
                   !.contract = CASE end = "passed" -> "pass"
                                  [] end = "rejected" -> "fail"
                                  [] OTHER -> "absent",
                   !.answer = IF end \in Scoring THEN Text(k) ELSE Nothing]

(* run_matrix.py as in MatrixRunner.  A job that has ended has left its    *)
(* row; one cut short by the end of the process may have left an answer    *)
(* ("unsaved") or nothing ("waiting").                                     *)
MatrixOutcomes ==
    LET old == IF opts.resume /\ disk.results # Nothing THEN disk.results.rows ELSE <<>>
        Old(k) == {i \in DOMAIN old : old[i].key = k}
        kept == {k \in Keys : \E i \in Old(k) : old[i].success /\ old[i].config = opts.config}
        Row(ran, k) ==
            IF k \in DOMAIN ran /\ ran[k] \in JobEndings THEN <<RowOf(k, ran[k])>>
            ELSE [i \in 1 .. Cardinality(Old(k)) |-> old[CHOOSE j \in Old(k) : TRUE]]
        Rows(ran) == FlattenSeq([i \in DOMAIN KeyOrder |-> Row(ran, KeyOrder[i])])
        Answers(ran) == [k \in Keys |->
            IF k \in DOMAIN ran /\ ran[k] \in Scoring \cup {"overwritten", "unsaved"}
            THEN Text(k) ELSE disk.answers[k]]
        Written(ran) == [disk EXCEPT
            !.results = [slots |-> {k[1] : k \in Keys}, variants |-> {k[2] : k \in Keys},
                         rows |-> Rows(ran), review |-> Nothing],
            !.answers = Answers(ran)]
        Ran(also) == {ran \in [Keys \ kept -> JobEndings \cup also] :
                        \A k \in DOMAIN ran : ran[k] \in Endings[k] \cup also}
        ended == Ran({})
        cut == Ran({"unsaved", "waiting"}) \ ended
    IN {Outcome(Written(ran), \A k \in DOMAIN ran : ran[k] \in Succeeding) : ran \in ended}
       \cup {KilledWith(Written(ran)) : ran \in cut}

(* Wrong: packets that exist are left as they are, without an error.       *)
PrepareOutcomesKeeping(r) ==
    LET made == Prepared(disk.results.rows, disk.answers, Candidates, seeds[r])
        packed == [disk EXCEPT !.packets[r] = made.packet]
    IN IF ~opts.force /\ (disk.packets[r] # Nothing \/ disk.mappings[r] # Nothing)
       THEN {Outcome(disk, TRUE)}
       ELSE IF disk.results = Nothing THEN {Failed}
       ELSE {Outcome([packed EXCEPT !.mappings[r] = made.mapping], TRUE), KilledWith(packed)}

(* Wrong: packets that exist are replaced.                                 *)
PrepareOutcomesReplacing(r) ==
    LET made == Prepared(disk.results.rows, disk.answers, Candidates, seeds[r])
        packed == [disk EXCEPT !.packets[r] = made.packet]
    IN IF disk.results = Nothing THEN {Failed}
       ELSE {Outcome([packed EXCEPT !.mappings[r] = made.mapping], TRUE), KilledWith(packed)}

(* pairwise_review.py prepare: the packet, then the key.                   *)
PrepareOutcomes(r) ==
    LET made == Prepared(disk.results.rows, disk.answers, Candidates, seeds[r])
        packed == [disk EXCEPT !.packets[r] = made.packet]
    IN IF \/ disk.results = Nothing
          \/ ~opts.force /\ (disk.packets[r] # Nothing \/ disk.mappings[r] # Nothing)
          \/ made = Refused
       THEN {Failed}
       ELSE {Outcome([packed EXCEPT !.mappings[r] = made.mapping], TRUE), KilledWith(packed)}

(* pairwise_review.py apply, with the adjudications if the process has     *)
(* found any: 0 when every pair is settled, 2 when not.                    *)
ApplyOutcomes ==
    LET made == Applied(disk.results.rows, disk.packets, disk.mappings,
                        IF opts.adjudicated THEN disk.adjudications ELSE NoReviews)
    IN IF \/ disk.results = Nothing
          \/ \E r \in ReviewerSet : disk.packets[r] = Nothing \/ disk.mappings[r] = Nothing
          \/ made = Refused
       THEN {Failed}
       ELSE {Outcome([disk EXCEPT !.reviewed =
                        [disk.results EXCEPT !.rows = made.rows, !.review = made.review]],
                     made.review.complete)}

(* run_runtime.py, of one row: on a resume a row that passed under the     *)
(* same configuration is kept, whichever process it is of.                 *)
RuntimeOutcomes ==
    LET old == IF opts.resume /\ disk.runtime # Nothing THEN disk.runtime.rows ELSE <<>>
        With(rows) == [disk EXCEPT !.runtime =
                        [slots |-> {"task"}, variants |-> {"full-v2"}, rows |-> rows]]
        Row(contract) == [Sample EXCEPT !.key = <<"task", "full-v2">>, !.contract = contract,
                                        !.config = opts.config]
        kept == \E i \in DOMAIN old : old[i].contract = "pass" /\ old[i].config = opts.config
    IN {KilledWith(With(old))} \cup
       IF kept THEN {Outcome(With(old), TRUE)}
       ELSE {Outcome(With(<<Row(contract)>>), contract = "pass") : contract \in {"pass", "fail"}}

(* build_experiment_report.py, on the reviewed results: first REPORT.md    *)
(* (page), then summary.json.                                              *)
ReportOutcomes ==
    IF \/ disk.reviewed = Nothing \/ disk.runtime = Nothing
       \/ \E c \in Range(CheckSteps) : disk.checks[c] = Nothing
    THEN {Failed}
    ELSE LET status == ReportStatus({disk.reviewed}, Candidates, {disk.runtime},
                                    Range(disk.checks))
             file == [status |-> status, matrix |-> disk.reviewed]
             paged == [disk EXCEPT !.page = file]
         IN {Outcome([paged EXCEPT !.summary = file], status = "complete"), KilledWith(paged)}

(* Any child may be killed, or end with an error that its own code does    *)
(* not expect, before it has done anything: a fault in either case.        *)
Outcomes(step) ==
    {KilledWith(disk)} \cup
    CASE PhaseOf(step) = "verification" -> {Outcome(disk, ok) : ok \in BOOLEAN}
      [] PhaseOf(step) = "deterministic" -> CheckOutcomes(step[1])
      [] PhaseOf(step) = "matrix" -> MatrixOutcomes
      [] PhaseOf(step) = "review-prepare" -> PrepareOutcomes(step[2])
      [] PhaseOf(step) = "review-apply" -> ApplyOutcomes
      [] PhaseOf(step) = "runtime" -> RuntimeOutcomes
      [] PhaseOf(step) = "report" -> ReportOutcomes

-----------------------------------------------------------------------------
(* Wrong: every process draws its seeds.                                   *)
RedrawnSeeds(drawn) == drawn

(* ensure_review_seeds: a seed is drawn once.                              *)
EnsuredSeeds(drawn) ==
    [r \in ReviewerSet |-> IF seeds[r] = Nothing THEN drawn[r] ELSE seeds[r]]

(* Start-up.  A resumed process goes on with the state it finds, unless    *)
(* that is of another configuration and nobody forces it.                  *)
Start(command, drawn) ==
    LET found == command.resume /\ saved # Nothing
    IN /\ pc = "down"
       /\ starts < MaxStarts
       /\ starts' = starts + 1
       /\ strayed' = \/ strayed
                     \/ command.continue
                     \/ command.force
                     \/ saved # Nothing /\ saved.config # command.config
       /\ seeds' = IF command.phases \cap {"review-prepare", "review-apply"} = {}
                   THEN seeds ELSE EnsuredSeeds(drawn)
       /\ IF found /\ saved.config # command.config /\ ~command.force
          THEN UNCHANGED <<pc, opts, todo, held>>
          ELSE /\ pc' = "running"
               /\ opts' = [resume |-> command.resume, force |-> command.force,
                           continue |-> command.continue, config |-> command.config,
                           adjudicated |-> disk.adjudications # Nothing]
               /\ todo' = SelectedSteps(command.phases)
               /\ held' = IF found THEN saved
                          ELSE [config |-> command.config, done |-> {}, status |-> "none"]
       /\ UNCHANGED <<disk, saved, failed, faults>>

Skips(step) == opts.resume /\ step \in held.done /\ EvidenceExists(disk, step)

(* The steps left, from the first that is not skipped.                     *)
Left == LET first == {i \in DOMAIN todo : ~Skips(todo[i])}
        IN IF first = {} THEN <<>> ELSE SubSeq(todo, Min(first), Len(todo))

Stop ==
    /\ pc' = "down"
    /\ opts' = Nothing
    /\ todo' = <<>>
    /\ held' = Nothing
    /\ failed' = FALSE

(* Wrong: a step is recorded as it ends, whatever it returned.             *)
RecordAnyway(step, outcome) ==
    LET ok == EvidenceExists(outcome.disk, step)
    IN /\ held' = [held EXCEPT !.done = IF ok THEN @ \cup {step} ELSE @ \ {step}]
       /\ saved' = held'
       /\ failed' = (failed \/ ~ok)
       /\ todo' = IF ok \/ opts.continue \/ PhaseOf(step) = "review-apply" THEN Tail(Left) ELSE <<>>

(* A step that fails ends the process, unless it goes on after errors or   *)
(* the step is an apply.                                                   *)
Record(step, outcome) ==
    LET ok == outcome.ok /\ EvidenceExists(outcome.disk, step)
    IN /\ held' = [held EXCEPT !.done = IF ok THEN @ \cup {step} ELSE @ \ {step}]
       /\ saved' = held'
       /\ failed' = (failed \/ ~ok)
       /\ todo' = IF ok \/ opts.continue \/ PhaseOf(step) = "review-apply" THEN Tail(Left) ELSE <<>>

RunStep(outcome) ==
    /\ pc = "running"
    /\ Left # <<>>
    /\ disk' = outcome.disk
    /\ faults' = IF outcome.killed THEN faults + 1 ELSE faults
    /\ faults' <= MaxFaults
    /\ Record(Head(Left), outcome)
    /\ UNCHANGED <<seeds, pc, opts, starts, strayed>>

(* Wrong: the state is given the word of the report.                       *)
FinishAsReported ==
    /\ pc = "running"
    /\ Left = <<>>
    /\ saved' = [held EXCEPT !.status = IF failed THEN "incomplete" ELSE "complete"]
    /\ Stop
    /\ UNCHANGED <<disk, seeds, starts, faults, strayed>>

Finish ==
    /\ pc = "running"
    /\ Left = <<>>
    /\ saved' = [held EXCEPT !.status = IF failed THEN "failed" ELSE "complete"]
    /\ Stop
    /\ UNCHANGED <<disk, seeds, starts, faults, strayed>>

(* The process is killed while its child runs, or between two children.    *)
(* Nothing kills the child with it: it ends where it likes, at the latest  *)
(* before the next process starts.                                         *)
Crash(outcome) ==
    /\ pc = "running"
    /\ faults < MaxFaults
    /\ faults' = faults + 1
    /\ disk' = outcome.disk
    /\ Stop
    /\ UNCHANGED <<seeds, saved, starts, strayed>>

(* A reviewer fills a whole packet in; a review may be left blank.         *)
Fill(r, judged) ==
    /\ pc = "down"
    /\ disk.packets[r] # Nothing
    /\ \A id \in DOMAIN disk.packets[r] : \A s \in Sides : disk.packets[r][id][s].scores = Blank
    /\ disk' = [disk EXCEPT !.packets[r] = [id \in DOMAIN disk.packets[r] |-> [s \in Sides |->
                    [disk.packets[r][id][s] EXCEPT !.scores = judged[id][s]]]]]
    /\ UNCHANGED <<seeds, saved, pc, opts, todo, held, failed, starts, faults, strayed>>

(* The adjudicator scores the disputed pairs, knowing the sides: a is the  *)
(* candidate's.                                                            *)
Adjudicate(judged) ==
    /\ pc = "down"
    /\ disk.reviewed # Nothing
    /\ disk.reviewed.review.disputed # {}
    /\ disk' = [disk EXCEPT !.adjudications = [id \in disk.reviewed.review.disputed |->
                    [candidate |-> [scores |-> judged[id]["a"]],
                     baseline |-> [scores |-> judged[id]["b"]]]]]
    /\ disk' # disk
    /\ UNCHANGED <<seeds, saved, pc, opts, todo, held, failed, starts, faults, strayed>>

Next ==
    \/ pc = "down" /\ starts < MaxStarts /\ \E command \in Commands :
        \E drawn \in Draws : Start(command, drawn)
    \/ pc = "running" /\ Left # <<>> /\ \E outcome \in Outcomes(Head(Left)) : RunStep(outcome)
    \/ Finish
    \/ /\ pc = "running" /\ Left # <<>> /\ faults < MaxFaults
       /\ \E outcome \in Outcomes(Head(Left)) : Crash(outcome)
    \/ pc = "running" /\ Left = <<>> /\ Crash(Failed)
    \/ pc = "down" /\ \E r \in ReviewerSet, judged \in [ReviewIds -> Judgements] : Fill(r, judged)
    \/ pc = "down" /\ \E judged \in [ReviewIds -> Judgements] : Adjudicate(judged)

Spec == Init /\ [][Next]_vars

-----------------------------------------------------------------------------
(* The types of the state, and that Nothing is none of these values.       *)
States == [config : Configs, done : SUBSET Range(BuildSteps),
           status : {"none", "failed", "complete"}]
Options == [resume : BOOLEAN, force : BOOLEAN, continue : BOOLEAN, config : Configs,
            adjudicated : BOOLEAN]
Texts == Keys \X (1 .. MaxStarts)
PacketsOf(ids) == [ids -> [Sides -> [text : Texts, scores : Scores]]]

ASSUME NothingAssumption ==
    /\ Nothing \notin Nat \X Nat
    /\ Nothing \notin Texts
    /\ Nothing \notin Seeds
    /\ Nothing \notin States
    /\ Nothing \notin Options
    /\ \A ids \in SUBSET ReviewIds : Nothing \notin PacketsOf(ids)

TypeOK ==
    /\ disk.checks \in [Range(CheckSteps) -> {Nothing, "pass", "fail"}]
    /\ disk.answers \in [Keys -> Texts \cup {Nothing}]
    /\ \A r \in ReviewerSet :
        /\ disk.packets[r] # Nothing => \A id \in DOMAIN disk.packets[r] : \A s \in Sides :
            disk.packets[r][id][s].text \in Texts
        /\ disk.mappings[r] # Nothing => \A id \in DOMAIN disk.mappings[r] :
            disk.mappings[r][id] \in Sides
    /\ disk.summary # Nothing => disk.summary.status \in {"complete", "incomplete"}
    /\ seeds \in [ReviewerSet -> Seeds \cup {Nothing}]
    /\ saved \in States \cup {Nothing}
    /\ pc \in {"down", "running"}
    /\ pc = "running" <=> held # Nothing
    /\ held \in States \cup {Nothing}
    /\ opts \in Options \cup {Nothing}
    /\ todo \in Seq(Range(BuildSteps))
    /\ failed \in BOOLEAN
    /\ starts \in 0 .. MaxStarts
    /\ faults \in 0 .. MaxFaults
    /\ strayed \in BOOLEAN

ReportedComplete ==
    disk.summary # Nothing /\ disk.summary.status = "complete" /\ disk.page = disk.summary
RecordedComplete == saved # Nothing /\ saved.status = "complete"

(* state.json says that the release is complete only when summary.json     *)
(* does, and REPORT.md was written with it, whatever was forced, gone on   *)
(* with after errors or killed: of releases whose processes run all        *)
(* phases.                                                                 *)
CompleteMeansReported == RecordedComplete => ReportedComplete

(* "Missing, failed, or unmatched pairs are coverage gaps and must not be  *)
(* converted to zero-valued observations" and "require two independent     *)
(* reviewers for final release evidence"                                   *)
(* (references/capability-preservation.md:18): in a summary that says      *)
(* complete every candidate row has one baseline row that it is no worse   *)
(* than, by the reviews of either.  The results any release may be handed  *)
(* are looked at once, at the start: rows missing, doubled, of another     *)
(* slot or sampling, and a loss that a mean would hide.                    *)
CompletePairsHold ==
    /\ starts = 0 => \A payload \in Payloads :
        MatrixHolds(payload, Candidates) => PairsHold(payload, Candidates)
    /\ disk.summary # Nothing /\ disk.summary.status = "complete"
        => PairsHold(disk.summary.matrix, Candidates)

(* Whatever packets and keys are left by processes that were killed or     *)
(* forced, what a reviewer scored as one side is credited to the variant   *)
(* that wrote it.                                                          *)
UnblindedRight ==
    disk.reviewed # Nothing =>
        \A i \in DOMAIN disk.reviewed.rows :
            LET row == disk.reviewed.rows[i]
            IN \A v \in DOMAIN row.reviews : \A text \in row.reviews[v].scored :
                text[1] = row.key

(* The reviews of a row are of the answer that the row was scored from.    *)
ReviewedAsScored ==
    \A i \in DOMAIN disk.summary.matrix.rows :
        LET row == disk.summary.matrix.rows[i]
        IN \A v \in DOMAIN row.reviews : row.reviews[v].scored = {row.answer}

(* When state.json says that the release is complete, every process        *)
(* stopped at its first error, and nothing was forced or reconfigured, the *)
(* summary is of the reviewed results that are there, and each row has     *)
(* been scored and reviewed from the answer that is on disk now: of        *)
(* releases of all phases in which every reviewer counts.                  *)
RecordedAsReviewed ==
    RecordedComplete /\ ~strayed =>
        /\ disk.summary.matrix = disk.reviewed
        /\ ReviewedAsScored
        /\ \A i \in DOMAIN disk.summary.matrix.rows :
            LET row == disk.summary.matrix.rows[i] IN row.answer = disk.answers[row.key]

(* "Final release evidence requires two independent reviewers per pair"    *)
(* (README.md:60): the answers compared by a release that is recorded as   *)
(* complete are answers that somebody has reviewed.                        *)
CompleteAsReviewed == RecordedComplete => ReviewedAsScored

(* What reviewers have filled in is overwritten by --force only.           *)
FilledPacketsSurvive ==
    [][\A r \in ReviewerSet :
        \/ disk.packets[r] = Nothing
        \/ disk'.packets[r] = disk.packets[r]
        \/ \A id \in DOMAIN disk.packets[r] : \A s \in Sides :
            disk.packets[r][id][s].scores = Blank
        \/ opts # Nothing /\ opts.force]_vars

=============================================================================
