----------------------------- MODULE ResumeRunner -----------------------------
(***************************************************************************)
(* The two smaller runners: evals/run_ab.py, which asks a model for one    *)
(* answer of each key (case, variant), and evals/run_runtime.py, which     *)
(* runs a job of each key (model, repeat, mode, case).  Both keep a pool   *)
(* of workers, replace their results file after each job, and are started  *)
(* again with --resume; they differ in which rows they load, which they    *)
(* keep, and what becomes of the others until their job is done.           *)
(*                                                                         *)
(* The evidence of a key is one file here: the answer of run_ab.py, what   *)
(* the job of run_runtime.py publishes (see RuntimeJob).                   *)
(***************************************************************************)
EXTENDS Naturals, FiniteSets

CONSTANTS
    Programs,    \* "ab", "runtime"
    Keys,
    Configs,     \* command lines: what is run and how
    Planned,     \* [Configs -> SUBSET Keys] the keys a command line selects
    Signature,   \* [Configs -> [Keys -> signatures]]
    Executor,    \* [Configs -> executors]
    Workers,     \* [Configs -> Nat \ {0}] --jobs
    Attempts,    \* [Configs -> Nat \ {0}] --attempts of run_ab.py
    MaxStarts,   \* bound on the processes of a behaviour
    NoRow        \* no row; nothing known

ASSUME RunnerAssumption ==
    /\ Programs \subseteq {"ab", "runtime"}
    /\ Planned \in [Configs -> SUBSET Keys]
    /\ Workers \in [Configs -> Nat \ {0}] /\ Attempts \in [Configs -> Nat \ {0}]
    /\ MaxStarts \in Nat

VARIABLES
    program,   \* which of the two
    saved,     \* scores.json or runtime-results.json: [Keys -> row or NoRow]
    by,        \* the executor saved names
    files,     \* evidence: [Keys -> the process that wrote the file, 0 if absent]
    cleaned,   \* history: the keys whose evidence the operator took away
    pc,        \* "down" or "collecting"
    command,   \* the command line of the last process
    starts,    \* processes started so far
    rows,      \* the rows the process holds in memory
    job,       \* where the job of each key is in this process
    tries,     \* attempts the job has made
    future,    \* what the jobs that have returned returned
    exit       \* exit status of the last process: "none", "zero" or "one"
vars == <<program, saved, by, files, cleaned, pc, command, starts, rows, job, tries, future, exit>>

Signatures == UNION {{Signature[c][k] : k \in Keys} : c \in Configs}
Rows == [success : BOOLEAN, signature : Signatures, made : 1 .. MaxStarts]

ASSUME NoRowAssumption == NoRow \notin Rows

(* made is history: the process that made the row.                         *)
Row(k, success) == [success |-> success, signature |-> Signature[command.config][k],
                    made |-> starts]
Good(row) == row # NoRow /\ row.success
NoRows == [k \in Keys |-> NoRow]
NoJobs == [k \in Keys |-> "none"]

Init ==
    /\ program \in Programs
    /\ saved = NoRows
    /\ by = NoRow
    /\ files = [k \in Keys |-> 0]
    /\ cleaned = {}
    /\ pc = "down"
    /\ command = NoRow
    /\ starts = 0
    /\ rows = NoRows
    /\ job = NoJobs
    /\ tries = [k \in Keys |-> 0]
    /\ future = NoRows
    /\ exit = "none"

-----------------------------------------------------------------------------
(* run_runtime.py loads the rows of its own executor only.                 *)
Loads(c, resume) == resume /\ (program = "runtime" => by = Executor[c])

(* Wrong: the signature is not compared.                                   *)
KeepsAnySignature(c, row, k, force) ==
    Good(row) /\ (program = "ab" => ~force /\ files[k] # 0)

(* A row kept instead of running its job again: run_ab.py wants the answer *)
(* to be there, and scores it again; run_runtime.py looks at the row only, *)
(* and has no --force.                                                     *)
Keeps(c, row, k, force) ==
    /\ Good(row)
    /\ row.signature = Signature[c][k]
    /\ program = "ab" => ~force /\ files[k] # 0

(* Wrong: a row stays until its job has been done.                         *)
HeldUntilDone(c, loaded, pending) == loaded

(* Wrong: only the rows of this command line are written back.             *)
HeldOfSelected(c, loaded, pending) ==
    [k \in Keys |-> IF k \in Planned[c] \ pending THEN loaded[k] ELSE NoRow]

(* The rows of the first checkpoint: run_ab.py has given up those it will  *)
(* run again, run_runtime.py has not.                                      *)
HeldRows(c, loaded, pending) ==
    [k \in Keys |-> IF program = "ab" /\ k \in pending THEN NoRow ELSE loaded[k]]

(* Start-up, to the first checkpoint.                                      *)
Start(c, resume, force) ==
    LET loaded == IF Loads(c, resume) THEN saved ELSE NoRows
        pending == {k \in Planned[c] : ~Keeps(c, loaded[k], k, force)}
    IN /\ pc = "down"
       /\ starts < MaxStarts
       /\ starts' = starts + 1
       /\ command' = [config |-> c, resume |-> resume, force |-> force]
       /\ pc' = "collecting"
       /\ rows' = HeldRows(c, loaded, pending)
       /\ saved' = rows'
       /\ by' = Executor[c]
       /\ job' = [k \in Keys |-> IF k \in pending THEN "queued" ELSE "none"]
       /\ exit' = "none"
       /\ UNCHANGED <<program, files, cleaned, tries, future>>

Running == {k \in Keys : job[k] = "running"}

Launch(k) ==
    /\ job[k] = "queued"
    /\ Cardinality(Running) < Workers[command.config]
    /\ job' = [job EXCEPT ![k] = "running"]
    /\ UNCHANGED <<program, saved, by, files, cleaned, pc, command, starts, rows, tries, future,
                   exit>>

MayTry(k) ==
    /\ job[k] = "running"
    /\ tries[k] < (IF program = "ab" THEN Attempts[command.config] ELSE 1)

(* An attempt begins; run_case and run_responses_case unlink the files of  *)
(* the one before, a runtime job writes over them when it has others.      *)
Try(k) ==
    /\ MayTry(k)
    /\ tries' = [tries EXCEPT ![k] = @ + 1]
    /\ files' = IF program = "ab" THEN [files EXCEPT ![k] = 0] ELSE files
    /\ UNCHANGED <<program, saved, by, cleaned, pc, command, starts, rows, job, future, exit>>

Publish(k) ==
    /\ job[k] = "running" /\ tries[k] > 0
    /\ files' = [files EXCEPT ![k] = starts]
    /\ cleaned' = cleaned \ {k}
    /\ UNCHANGED <<program, saved, by, pc, command, starts, rows, job, tries, future, exit>>

Returns(k, row) ==
    /\ job' = [job EXCEPT ![k] = "returned"]
    /\ future' = [future EXCEPT ![k] = row]
    /\ UNCHANGED <<program, saved, by, files, cleaned, pc, command, starts, rows, tries, exit>>

(* The answer is there, and with it usage and timing; a runtime job passes *)
(* its contract.                                                           *)
Succeed(k) ==
    /\ job[k] = "running" /\ tries[k] > 0
    /\ files[k] = starts
    /\ Returns(k, Row(k, TRUE))

(* The last attempt fails, or a runtime job does: with a row or with an    *)
(* exception, for which main makes up the row.                             *)
Fail(k) ==
    /\ job[k] = "running" /\ tries[k] > 0
    /\ ~MayTry(k)
    /\ Returns(k, Row(k, FALSE))

(* Wrong: the file is written when the pool is drained.                    *)
CollectWithoutSaving(k) ==
    /\ pc = "collecting"
    /\ job[k] = "returned"
    /\ rows' = [rows EXCEPT ![k] = future[k]]
    /\ saved' = IF \A j \in Keys \ {k} : job[j] = "none" THEN rows' ELSE saved
    /\ job' = [job EXCEPT ![k] = "none"]
    /\ future' = [future EXCEPT ![k] = NoRow]
    /\ UNCHANGED <<program, by, files, cleaned, pc, command, starts, tries, exit>>

(* The main thread takes one finished job and replaces the results file.   *)
Collect(k) ==
    /\ pc = "collecting"
    /\ job[k] = "returned"
    /\ rows' = [rows EXCEPT ![k] = future[k]]
    /\ saved' = [rows EXCEPT ![k] = future[k]]
    /\ job' = [job EXCEPT ![k] = "none"]
    /\ future' = [future EXCEPT ![k] = NoRow]
    /\ UNCHANGED <<program, by, files, cleaned, pc, command, starts, tries, exit>>

Down ==
    /\ pc' = "down"
    /\ rows' = NoRows
    /\ job' = NoJobs
    /\ tries' = [k \in Keys |-> 0]
    /\ future' = NoRows

(* run_ab.py asks for the selected rows, run_runtime.py for all it holds.  *)
AllGood ==
    IF program = "ab" THEN \A k \in Planned[command.config] : Good(rows[k])
    ELSE \A k \in Keys : rows[k] # NoRow => rows[k].success

Exit ==
    /\ pc = "collecting"
    /\ job = NoJobs
    /\ exit' = IF AllGood THEN "zero" ELSE "one"
    /\ Down
    /\ UNCHANGED <<program, saved, by, files, cleaned, command, starts>>

Crash ==
    /\ pc = "collecting"
    /\ Down
    /\ UNCHANGED <<program, saved, by, files, cleaned, command, starts, exit>>

(* Between processes the operator may clean an answer away.                *)
Discard(k) ==
    /\ pc = "down"
    /\ files[k] # 0
    /\ files' = [files EXCEPT ![k] = 0]
    /\ cleaned' = cleaned \cup {k}
    /\ UNCHANGED <<program, saved, by, pc, command, starts, rows, job, tries, future, exit>>

JobStep(k) == Launch(k) \/ Try(k) \/ Publish(k) \/ Succeed(k) \/ Fail(k)

Next ==
    \/ \E c \in Configs, resume, force \in BOOLEAN : Start(c, resume, force)
    \/ \E k \in Keys : JobStep(k) \/ Collect(k)
    \/ Exit
    \/ Crash
    \/ \E k \in Keys : Discard(k)

Spec == Init /\ [][Next]_vars

-----------------------------------------------------------------------------
(* The types of the state; jobs and rows only while a process runs, and a  *)
(* returned row for every returned job.                                    *)
TypeOK ==
    /\ program \in Programs
    /\ saved \in [Keys -> Rows \cup {NoRow}] /\ rows \in [Keys -> Rows \cup {NoRow}]
    /\ by \in {Executor[c] : c \in Configs} \cup {NoRow}
    /\ files \in [Keys -> 0 .. MaxStarts]
    /\ cleaned \subseteq {k \in Keys : files[k] = 0}
    /\ pc \in {"down", "collecting"}
    /\ command \in [config : Configs, resume : BOOLEAN, force : BOOLEAN] \cup {NoRow}
    /\ starts \in 0 .. MaxStarts
    /\ job \in [Keys -> {"none", "queued", "running", "returned"}]
    /\ future \in [Keys -> Rows \cup {NoRow}]
    /\ \A k \in Keys : future[k] # NoRow <=> job[k] = "returned"
    /\ pc = "down" => rows = NoRows /\ job = NoJobs
    /\ pc = "collecting" => saved = rows
    /\ exit \in {"none", "zero", "one"}

(* run_ab.py: an answer that scores.json calls a success is the one the    *)
(* row was made of, whatever processes were killed over it.  (Of           *)
(* run_runtime.py this is not so: see README.)                             *)
AnswersStand ==
    program = "ab" =>
        \A k \in Keys : Good(saved[k]) => files[k] = saved[k].made \/ k \in cleaned

(* Exit status 0: the selected keys are done, as this command line asks    *)
(* for, and the file on disk says so; run_runtime.py does not return 0     *)
(* over a failure of any other key either.                                 *)
ExitZeroMeansDone ==
    exit = "zero" =>
        /\ \A k \in Planned[command.config] :
            Good(saved[k]) /\ saved[k].signature = Signature[command.config][k]
        /\ program = "runtime" => \A k \in Keys : saved[k] # NoRow => Good(saved[k])

(* A success that has been saved is given up only for a reason the command *)
(* line gives: a fresh start, another executor, --force, or, of a selected *)
(* key, another signature or an answer that is gone.                       *)
NothingGoodLost ==
    [][\A k \in Keys : Good(saved[k]) /\ saved'[k] # saved[k] =>
        \/ ~command'.resume
        \/ program = "runtime" /\ by # Executor[command'.config]
        \/ /\ k \in Planned[command'.config]
           /\ \/ saved[k].signature # Signature[command'.config][k]
              \/ program = "ab" /\ (command'.force \/ files[k] = 0)]_vars

=============================================================================
