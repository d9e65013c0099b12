---------------------------- MODULE MatrixRunner ----------------------------
(***************************************************************************)
(* The experiment matrix of evals/run_matrix.py (main): a pool of workers  *)
(* runs one job per key (model, repeat, variant, case); the main thread    *)
(* collects what they return and replaces results.json after each one.     *)
(* Processes are killed at any time; the next one starts over or resumes   *)
(* the rows whose signature, success and evidence files it accepts.        *)
(*                                                                         *)
(* A job (run_job) is seen through its effects here: the evidence files it *)
(* writes and the row it returns.  What happens inside is in MatrixJob.    *)
(***************************************************************************)
EXTENDS Naturals, FiniteSets, Sequences

CONSTANTS
    Keys,        \* (model, repeat, variant, case)
    NeedsPlan,   \* the keys whose variant has a structured plan
    Configs,     \* command lines: what is run and how
    Planned,     \* [Configs -> SUBSET Keys] the keys a command line selects
    Signature,   \* [Configs -> [Keys -> signatures]] signature()
    Workers,     \* [Configs -> Nat \ {0}] --jobs
    MaxStarts,   \* bound on the processes of a behaviour
    NoRow        \* no row, no signature

ASSUME MatrixAssumption ==
    /\ IsFiniteSet(Keys)
    /\ NeedsPlan \subseteq Keys
    /\ Planned \in [Configs -> SUBSET Keys]
    /\ Workers \in [Configs -> Nat \ {0}]
    /\ MaxStarts \in Nat

VARIABLES
    results,    \* results.json: [Keys -> row or NoRow]
    files,      \* evidence: [Keys -> [Kinds -> the process that wrote the file, 0 if absent]]
    pc,         \* "down" or "collecting"
    commands,   \* the command lines of the processes so far, the current one last
    rows,       \* the rows the process holds in memory
    job,        \* where the job of each key is in this process
    future,     \* what the jobs that have returned returned
    exit,       \* exit status of the last process: "none", "zero" or "one"
    launched,   \* history: the last process that launched a job for each key
    collected   \* history: the last row collected for each key
vars == <<results, files, pc, commands, rows, job, future, exit, launched, collected>>

Kinds == {"plan", "answer"}
Processes == 0 .. MaxStarts
Signatures == UNION {{Signature[c][k] : k \in Keys} : c \in Configs}

(* The number of the current process, and its command line.                *)
Current == Len(commands)
Config == commands[Current]

(* A row.  A job that fails before its artifact exists returns no          *)
(* signature and no evidence.  made is history: the process that made it.  *)
Rows == [success : BOOLEAN, signature : Signatures \cup {NoRow}, made : Processes]

(* NoRow is told apart from every row.                                     *)
ASSUME NoRowAssumption == NoRow \notin Rows

NoRows == [k \in Keys |-> NoRow]
NoJobs == [k \in Keys |-> "none"]

Init ==
    /\ results = NoRows
    /\ files = [k \in Keys |-> [f \in Kinds |-> 0]]
    /\ pc = "down"
    /\ commands = <<>>
    /\ rows = NoRows
    /\ job = NoJobs
    /\ future = NoRows
    /\ exit = "none"
    /\ launched = [k \in Keys |-> 0]
    /\ collected = NoRows

Evidence(k) == IF k \in NeedsPlan THEN Kinds ELSE {"answer"}

(* evidence_exists: the row names its files and they are there.            *)
EvidenceExists(row, k) ==
    /\ row.signature # NoRow
    /\ \A f \in Evidence(k) : files[k][f] # 0

(* Wrong: the signature is not compared.                                   *)
KeepsAnySignature(c, existing, k) ==
    /\ existing[k] # NoRow
    /\ existing[k].success
    /\ EvidenceExists(existing[k], k)

(* Wrong: the evidence of the row is not looked for.                       *)
KeepsUnevidenced(c, existing, k) ==
    /\ existing[k] # NoRow
    /\ existing[k].success
    /\ existing[k].signature = Signature[c][k]

(* A resumed process keeps a row instead of running its job again.         *)
Keeps(c, existing, k) ==
    /\ existing[k] # NoRow
    /\ existing[k].success
    /\ existing[k].signature = Signature[c][k]
    /\ EvidenceExists(existing[k], k)

(* Start-up, to the first write_checkpoint.  Without --resume the rows of  *)
(* earlier processes are given up.                                         *)
Start(c, resume, force) ==
    LET existing == IF resume THEN results ELSE NoRows
    IN /\ pc = "down"
       /\ Current < MaxStarts
       /\ commands' = Append(commands, c)
       /\ pc' = "collecting"
       /\ rows' = existing
       /\ results' = existing
       /\ job' = [k \in Keys |->
                    IF k \in Planned[c] /\ (~resume \/ force \/ ~Keeps(c, existing, k))
                    THEN "queued" ELSE "none"]
       /\ future' = NoRows
       /\ exit' = "none"
       /\ collected' = IF resume THEN collected ELSE NoRows
       /\ UNCHANGED <<files, launched>>

Running == {k \in Keys : job[k] = "running"}

Launch(k) ==
    /\ job[k] = "queued"
    /\ Cardinality(Running) < Workers[Config]
    /\ job' = [job EXCEPT ![k] = "running"]
    /\ launched' = [launched EXCEPT ![k] = Current]
    /\ UNCHANGED <<results, files, pc, commands, rows, future, exit, collected>>

(* The job writes one of its evidence files, over an earlier one if any.   *)
WriteEvidence(k, f) ==
    /\ job[k] = "running"
    /\ f \in Evidence(k)
    /\ files' = [files EXCEPT ![k] = [@ EXCEPT ![f] = Current]]
    /\ UNCHANGED <<results, pc, commands, rows, job, future, exit, launched, collected>>

Returns(k, row) ==
    /\ job[k] = "running"
    /\ job' = [job EXCEPT ![k] = "returned"]
    /\ future' = [future EXCEPT ![k] = row]
    /\ UNCHANGED <<results, files, pc, commands, rows, exit, launched, collected>>

(* Wrong: a job whose plan was not accepted is scored all the same.        *)
ReturnUnevidenced(k, success) ==
    /\ files[k]["answer"] = Current
    /\ Returns(k, [success |-> success, signature |-> Signature[Config][k], made |-> Current])

(* The answer was scored: a signed row, whether its contract held or not.  *)
ReturnScored(k, success) ==
    /\ \A f \in Evidence(k) : files[k][f] = Current
    /\ Returns(k, [success |-> success, signature |-> Signature[Config][k], made |-> Current])

(* Wrong: a job that fails ends without its row, the return left out.      *)
ReturnNothing(k) ==
    Returns(k, NoRow)

(* No plan, no answer, or an exception.                                    *)
ReturnFailed(k) ==
    Returns(k, [success |-> FALSE, signature |-> NoRow, made |-> Current])

(* Wrong: the rows are written when the pool is drained.                   *)
CollectWithoutSaving(k) ==
    /\ pc = "collecting"
    /\ job[k] = "returned"
    /\ rows' = [rows EXCEPT ![k] = future[k]]
    /\ results' = IF \A j \in Keys \ {k} : job[j] = "none" THEN rows' ELSE results
    /\ collected' = [collected EXCEPT ![k] = future[k]]
    /\ job' = [job EXCEPT ![k] = "none"]
    /\ future' = [future EXCEPT ![k] = NoRow]
    /\ UNCHANGED <<files, pc, commands, exit, launched>>

(* The main thread takes one finished job and replaces the results file.   *)
Collect(k) ==
    /\ pc = "collecting"
    /\ job[k] = "returned"
    /\ rows' = [rows EXCEPT ![k] = future[k]]
    /\ results' = [rows EXCEPT ![k] = future[k]]
    /\ collected' = [collected EXCEPT ![k] = future[k]]
    /\ job' = [job EXCEPT ![k] = "none"]
    /\ future' = [future EXCEPT ![k] = NoRow]
    /\ UNCHANGED <<files, pc, commands, exit, launched>>

Down ==
    /\ pc' = "down"
    /\ rows' = NoRows
    /\ job' = NoJobs
    /\ future' = NoRows

(* main returns 0 when every row it holds is a success, 1 otherwise.       *)
Exit ==
    /\ pc = "collecting"
    /\ job = NoJobs
    /\ exit' = IF \A k \in Keys : rows[k] # NoRow => rows[k].success THEN "zero" ELSE "one"
    /\ Down
    /\ UNCHANGED <<results, files, commands, launched, collected>>

Crash ==
    /\ pc = "collecting"
    /\ Down
    /\ UNCHANGED <<results, files, commands, exit, launched, collected>>

(* Between processes the operator may clean evidence away.                 *)
Discard(k, f) ==
    /\ pc = "down"
    /\ files[k][f] # 0
    /\ files' = [files EXCEPT ![k] = [@ EXCEPT ![f] = 0]]
    /\ UNCHANGED <<results, pc, commands, rows, job, future, exit, launched, collected>>

JobStep(k) ==
    \/ Launch(k)
    \/ \E f \in Kinds : WriteEvidence(k, f)
    \/ \E success \in BOOLEAN : ReturnScored(k, success)
    \/ ReturnFailed(k)

Next ==
    \/ \E c \in Configs, resume, force \in BOOLEAN : Start(c, resume, force)
    \/ \E k \in Keys : JobStep(k) \/ Collect(k)
    \/ Exit
    \/ Crash
    \/ \E k \in Keys, f \in Kinds : Discard(k, f)

Spec == Init /\ [][Next]_vars

-----------------------------------------------------------------------------
(* The types of the state; there are jobs only while a process runs, and a *)
(* row is held only for a job of this process that has returned.           *)
TypeOK ==
    /\ results \in [Keys -> Rows \cup {NoRow}]
    /\ files \in [Keys -> [Kinds -> Processes]]
    /\ pc \in {"down", "collecting"}
    /\ commands \in Seq(Configs)
    /\ Current <= MaxStarts
    /\ pc = "collecting" => Current > 0
    /\ pc = "down" => job = NoJobs
    /\ rows \in [Keys -> Rows \cup {NoRow}]
    /\ job \in [Keys -> {"none", "queued", "running", "returned"}]
    /\ future \in [Keys -> Rows \cup {NoRow}]
    /\ exit \in {"none", "zero", "one"}
    /\ launched \in [Keys -> Processes]
    /\ collected \in [Keys -> Rows \cup {NoRow}]
    /\ \A k \in Keys : future[k] # NoRow <=> job[k] = "returned"

(* "one failed case does not discard completed results" (README.md:161):   *)
(* whatever is interrupted, the file has every row collected since the     *)
(* matrix was last started over.                                           *)
CompletedResultsKept == \A k \in Keys : results[k] = collected[k]

(* The evidence beside a signed row is the one the row was made with, or   *)
(* gone, until another job is launched for its key.                        *)
EvidenceOfTheRow ==
    \A k \in Keys :
        results[k] # NoRow /\ results[k].signature # NoRow
            /\ launched[k] = results[k].made
        => \A f \in Evidence(k) : files[k][f] \in {0, results[k].made}

(* A key is run at most once by a process; what a job returned is backed   *)
(* by files of this process; and a key with nothing left to do has a row   *)
(* that is either no success or fit to be kept.                            *)
Accounted(k) ==
    /\ results[k] # NoRow => results[k].made <= Current
    /\ job[k] # "none" /\ results[k] # NoRow => results[k].made < Current
    /\ job[k] \in {"running", "returned"} => launched[k] = Current
    /\ job[k] = "returned" =>
        /\ future[k].made = Current
        /\ future[k].signature # NoRow =>
            \A f \in Evidence(k) : files[k][f] = Current
        /\ future[k].success =>
            /\ future[k].signature = Signature[Config][k]
            /\ \A f \in Evidence(k) : files[k][f] = Current
    /\ pc = "collecting" /\ k \in Planned[Config] /\ job[k] = "none" =>
        /\ results[k] # NoRow
        /\ results[k].success =>
            /\ results[k].signature = Signature[Config][k]
            /\ \A f \in Evidence(k) : files[k][f] # 0

(* The account a process keeps of its matrix: what it holds in memory is   *)
(* what it has saved, and every key is accounted for.                      *)
Account ==
    /\ pc = "collecting" => rows = results
    /\ \A k \in Keys : Accounted(k)

(* Exit status 0: every key the command line selects has a successful row  *)
(* with the signature of this command line, and its evidence exists.       *)
ExitZeroIsComplete ==
    [][exit # "zero" /\ exit' = "zero" =>
        \A k \in Planned[Config] :
            /\ results[k] # NoRow
            /\ results[k].success
            /\ results[k].signature = Signature[Config][k]
            /\ \A f \in Evidence(k) : files[k][f] # 0]_vars

(* "Resume is valid only when the case, executor, model, sampling          *)
(* configuration, variant, validator profile, and budgets match the saved  *)
(* signature" (README.md:163): the rows behind exit status 0 were made     *)
(* under the command line that reports them.                               *)
RowsOfThisConfiguration ==
    [][exit # "zero" /\ exit' = "zero" =>
        \A k \in Planned[Config] : commands[results[k].made] = Config]_vars

(* "start a new run instead of mixing attempts from different conditions"  *)
(* (skills/constraint-exec/references/execution-protocol.md:31): behind    *)
(* exit status 0 the answer beside a row was written under the signature   *)
(* the row has.                                                            *)
EvidenceNotMixed ==
    [][exit # "zero" /\ exit' = "zero" =>
        \A k \in Planned[Config] :
            Signature[commands[files[k]["answer"]]][k] = results[k].signature]_vars

=============================================================================
