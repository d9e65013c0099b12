-------------------------- MODULE ResumeRunnerProofs --------------------------
(***************************************************************************)
(* Proofs about ResumeRunner, for either program, every set of keys and    *)
(* command lines, every pool of workers and any number of processes.       *)
(***************************************************************************)
EXTENDS ResumeRunner, TLAPS

CommandLines == [config : Configs, resume : BOOLEAN, force : BOOLEAN]
Asked(k) == Signature[command.config][k]

(* While a process collects, what its command line selects is either still *)
(* to be done, and then its old row is gone or is one that could not be    *)
(* kept, or has a row made for this command line.                          *)
Collecting ==
    pc = "collecting" =>
        /\ command \in CommandLines
        /\ starts \in 1 .. MaxStarts
        /\ by = Executor[command.config]
        /\ exit = "none"
        /\ \A k \in Keys :
            /\ job[k] # "none" => k \in Planned[command.config]
            /\ job[k] # "none" /\ Good(rows[k]) =>
                program = "runtime" /\ rows[k].signature # Asked(k)
            /\ job[k] = "none" /\ k \in Planned[command.config] =>
                rows[k] # NoRow /\ rows[k].signature = Asked(k)
            /\ job[k] = "returned" =>
                /\ future[k].signature = Asked(k)
                /\ future[k].made = starts
                /\ program = "ab" /\ future[k].success => files[k] = starts

(* The row a process makes.                                                *)
LEMMA RowType ==
    ASSUME TypeOK, Collecting, pc = "collecting", NEW k \in Keys, NEW ok \in BOOLEAN
    PROVE  /\ Row(k, ok) \in Rows
           /\ Row(k, ok) # NoRow
           /\ Row(k, ok).success = ok
           /\ Row(k, ok).signature = Asked(k)
           /\ Row(k, ok).made = starts
<1>1. command.config \in Configs /\ starts \in 1 .. MaxStarts
  BY DEF Collecting, CommandLines
<1>2. Signature[command.config][k] \in Signatures
  BY <1>1 DEF Signatures
<1>3. Row(k, ok) \in Rows
  BY <1>1, <1>2 DEF Row, Rows
<1>4. QED
  BY <1>3, NoRowAssumption DEF Row, Asked

(* The rows of the first checkpoint are rows that were loaded; those given *)
(* up are to be made again by run_ab.py.                                   *)
LEMMA HeldFacts ==
    ASSUME NEW c \in Configs, NEW loaded \in [Keys -> Rows \cup {NoRow}],
           NEW pending \in SUBSET Keys
    PROVE  /\ HeldRows(c, loaded, pending) \in [Keys -> Rows \cup {NoRow}]
           /\ \A k \in Keys :
                /\ program = "ab" /\ k \in pending => HeldRows(c, loaded, pending)[k] = NoRow
                /\ ~(program = "ab" /\ k \in pending) =>
                        HeldRows(c, loaded, pending)[k] = loaded[k]
BY DEF HeldRows

(* Start-up, step by step.                                                 *)
LEMMA StartFacts ==
    ASSUME TypeOK, NEW c \in Configs, NEW resume \in BOOLEAN, NEW force \in BOOLEAN,
           Start(c, resume, force)
    PROVE  /\ pc = "down" /\ pc' = "collecting"
           /\ starts' \in 1 .. MaxStarts
           /\ command' = [config |-> c, resume |-> resume, force |-> force]
           /\ by' = Executor[c]
           /\ exit' = "none"
           /\ rows' \in [Keys -> Rows \cup {NoRow}] /\ saved' = rows'
           /\ job' \in [Keys -> {"none", "queued"}]
           /\ UNCHANGED <<program, files, cleaned, tries, future>>
           /\ \A k \in Keys :
                /\ job'[k] # "none" => k \in Planned[c]
                /\ k \in Planned[c] /\ job'[k] = "none" =>
                        Keeps(c, rows'[k], k, force)
                /\ job'[k] # "none" /\ Good(rows'[k]) =>
                        program = "runtime" /\ ~Keeps(c, rows'[k], k, force)
                /\ rows'[k] # saved[k] =>
                        \/ ~Loads(c, resume)
                        \/ k \in Planned[c] /\ program = "ab" /\ ~Keeps(c, saved[k], k, force)
                /\ rows'[k] = saved[k] \/ rows'[k] = NoRow
<1> DEFINE loaded == IF Loads(c, resume) THEN saved ELSE NoRows
           pending == {k \in Planned[c] : ~Keeps(c, loaded[k], k, force)}
           held == HeldRows(c, loaded, pending)
<1>1. Planned[c] \subseteq Keys
  BY RunnerAssumption
<1>2. /\ pc = "down" /\ pc' = "collecting"
      /\ starts < MaxStarts /\ starts' = starts + 1
      /\ command' = [config |-> c, resume |-> resume, force |-> force]
      /\ by' = Executor[c]
      /\ exit' = "none"
      /\ rows' = held /\ saved' = rows'
      /\ job' = [k \in Keys |-> IF k \in pending THEN "queued" ELSE "none"]
      /\ UNCHANGED <<program, files, cleaned, tries, future>>
  BY DEF Start
<1>3. loaded \in [Keys -> Rows \cup {NoRow}] /\ pending \in SUBSET Keys
  BY <1>1 DEF TypeOK, NoRows
<1>4. \A k \in Keys : k \in pending <=> k \in Planned[c] /\ ~Keeps(c, loaded[k], k, force)
  OBVIOUS
<1>5. \A k \in Keys : loaded[k] = NoRow \/ (Loads(c, resume) /\ loaded[k] = saved[k])
  BY DEF NoRows
<1>6. \A k \in Keys : Loads(c, resume) => loaded[k] = saved[k]
  OBVIOUS
<1> HIDE DEF loaded, pending
<1>7. /\ held \in [Keys -> Rows \cup {NoRow}]
      /\ \A k \in Keys :
            /\ program = "ab" /\ k \in pending => held[k] = NoRow
            /\ ~(program = "ab" /\ k \in pending) => held[k] = loaded[k]
  BY <1>3, HeldFacts
<1> HIDE DEF held
<1>8. starts' \in 1 .. MaxStarts
  BY <1>2, RunnerAssumption DEF TypeOK
<1>9. \A k \in Keys : job'[k] # "none" <=> k \in pending
  BY <1>2
<1>10. program \in {"ab", "runtime"}
  BY RunnerAssumption DEF TypeOK
<1>11. ASSUME NEW k \in Keys
       PROVE  /\ job'[k] # "none" => k \in Planned[c]
              /\ k \in Planned[c] /\ job'[k] = "none" =>
                        Keeps(c, rows'[k], k, force)
              /\ job'[k] # "none" /\ Good(rows'[k]) =>
                        program = "runtime" /\ ~Keeps(c, rows'[k], k, force)
              /\ rows'[k] # saved[k] =>
                        \/ ~Loads(c, resume)
                        \/ k \in Planned[c] /\ program = "ab" /\ ~Keeps(c, saved[k], k, force)
              /\ rows'[k] = saved[k] \/ rows'[k] = NoRow
  <2>1. CASE program = "ab" /\ k \in pending
    <3>1. rows'[k] = NoRow /\ job'[k] # "none" /\ k \in Planned[c]
          /\ ~Keeps(c, loaded[k], k, force)
      BY <1>2, <1>4, <1>7, <1>9, <2>1
    <3>2. ~Good(rows'[k])
      BY <3>1 DEF Good
    <3>3. QED
      BY <1>6, <2>1, <3>1, <3>2
  <2>2. CASE program # "ab" /\ k \in pending
    <3>1. rows'[k] = loaded[k] /\ job'[k] # "none" /\ k \in Planned[c]
          /\ ~Keeps(c, loaded[k], k, force)
      BY <1>2, <1>4, <1>7, <1>9, <2>2
    <3>2. QED
      BY <1>5, <1>6, <1>10, <2>2, <3>1
  <2>3. CASE k \notin pending
    <3>1. rows'[k] = loaded[k] /\ job'[k] = "none"
          /\ (k \in Planned[c] => Keeps(c, loaded[k], k, force))
      BY <1>2, <1>4, <1>7, <1>9, <2>3
    <3>2. QED
      BY <1>5, <1>6, <3>1
  <2>4. QED
    BY <2>1, <2>2, <2>3
<1>12. job' \in [Keys -> {"none", "queued"}]
  BY <1>2
<1>13. QED
  BY <1>2, <1>7, <1>8, <1>11, <1>12

-----------------------------------------------------------------------------
LEMMA InitTyped == Init => TypeOK /\ Collecting
BY RunnerAssumption DEF Init, TypeOK, Collecting, NoRows, NoJobs

LEMMA StartTyped ==
    ASSUME TypeOK, NEW c \in Configs, NEW resume \in BOOLEAN, NEW force \in BOOLEAN,
           Start(c, resume, force)
    PROVE  TypeOK' /\ Collecting'
<1>1. /\ pc = "down" /\ pc' = "collecting"
      /\ starts' \in 1 .. MaxStarts
      /\ command' = [config |-> c, resume |-> resume, force |-> force]
      /\ by' = Executor[c]
      /\ exit' = "none"
      /\ rows' \in [Keys -> Rows \cup {NoRow}] /\ saved' = rows'
      /\ job' \in [Keys -> {"none", "queued"}]
      /\ UNCHANGED <<program, files, cleaned, tries, future>>
      /\ \A k \in Keys :
           /\ job'[k] # "none" => k \in Planned[c]
           /\ k \in Planned[c] /\ job'[k] = "none" => Keeps(c, rows'[k], k, force)
           /\ job'[k] # "none" /\ Good(rows'[k]) =>
                   program = "runtime" /\ ~Keeps(c, rows'[k], k, force)
  BY StartFacts
<1>2. \A k \in Keys : job[k] = "none" /\ future[k] = NoRow
  BY <1>1 DEF TypeOK, NoJobs
<1>3. TypeOK'
  <2>1. \A k \in Keys : future'[k] # NoRow <=> job'[k] = "returned"
    BY <1>1, <1>2
  <2>2. command' \in CommandLines /\ by' \in {Executor[d] : d \in Configs}
    BY <1>1 DEF CommandLines
  <2>3. starts' \in 0 .. MaxStarts
    BY <1>1, RunnerAssumption
  <2>4. job' \in [Keys -> {"none", "queued", "running", "returned"}]
    BY <1>1
  <2>5. QED
    BY <1>1, <2>1, <2>2, <2>3, <2>4 DEF TypeOK, CommandLines
<1>4. Collecting'
  <2>1. command' \in CommandLines /\ command'.config = c
    BY <1>1 DEF CommandLines
  <2>2. \A k \in Keys : Asked(k)' = Signature[c][k]
    BY <2>1 DEF Asked
  <2>3. ASSUME NEW k \in Keys
        PROVE  /\ job'[k] # "none" => k \in Planned[c]
               /\ job'[k] # "none" /\ Good(rows'[k]) =>
                    program = "runtime" /\ rows'[k].signature # Signature[c][k]
               /\ job'[k] = "none" /\ k \in Planned[c] =>
                    rows'[k] # NoRow /\ rows'[k].signature = Signature[c][k]
               /\ job'[k] # "returned"
    BY <1>1 DEF Keeps, Good
  <2>4. QED
    BY <1>1, <2>1, <2>2, <2>3 DEF Collecting, Good
<1>5. QED
  BY <1>3, <1>4

(* The steps of a job before it returns.                                   *)
LEMMA JobTyped ==
    ASSUME TypeOK, Collecting, NEW k \in Keys, Launch(k) \/ Try(k) \/ Publish(k)
    PROVE  TypeOK' /\ Collecting'
<1>1. job[k] \in {"queued", "running"} /\ pc = "collecting"
  BY DEF Launch, Try, MayTry, Publish, TypeOK, NoJobs
<1>2. CASE Launch(k)
  <2>1. TypeOK'
    BY <1>1, <1>2 DEF Launch, TypeOK, NoJobs
  <2>2. Collecting'
    BY <1>1, <1>2 DEF Launch, TypeOK, Collecting, Asked, Good
  <2>3. QED
    BY <2>1, <2>2
<1>3. CASE Try(k)
  <2>1. /\ UNCHANGED <<program, saved, by, cleaned, pc, command, starts, rows, job, future, exit>>
        /\ files' \in [Keys -> 0 .. MaxStarts]
        /\ \A j \in Keys : files'[j] = files[j] \/ (j = k /\ files'[j] = 0)
    BY <1>3, RunnerAssumption DEF Try, TypeOK
  <2>2. TypeOK'
    BY <2>1 DEF TypeOK
  <2>3. job[k] = "running"
    BY <1>3 DEF Try, MayTry
  <2>4. Collecting'
    BY <1>1, <2>1, <2>3 DEF Collecting, Asked, Good
  <2>5. QED
    BY <2>2, <2>4
<1>4. CASE Publish(k)
  <2>1. /\ UNCHANGED <<program, saved, by, pc, command, starts, rows, job, future, exit>>
        /\ files' = [files EXCEPT ![k] = starts] /\ cleaned' = cleaned \ {k}
        /\ job[k] = "running"
    BY <1>4 DEF Publish
  <2>2. files' \in [Keys -> 0 .. MaxStarts]
    BY <2>1 DEF TypeOK
  <2>3. cleaned' \subseteq {j \in Keys : files'[j] = 0}
    BY <2>1 DEF TypeOK
  <2>4. TypeOK'
    BY <2>1, <2>2, <2>3 DEF TypeOK
  <2>5. Collecting'
    BY <1>1, <2>1 DEF TypeOK, Collecting, Asked, Good
  <2>6. QED
    BY <2>4, <2>5
<1>5. QED
  BY <1>2, <1>3, <1>4

(* A job returns a row made for this command line, of a file that is there *)
(* if it says so.                                                          *)
LEMMA ReturnTyped ==
    ASSUME TypeOK, Collecting, NEW k \in Keys, Succeed(k) \/ Fail(k)
    PROVE  TypeOK' /\ Collecting'
<1>1. job[k] = "running" /\ pc = "collecting"
  BY DEF Succeed, Fail, TypeOK, NoJobs
<1>2. PICK ok \in BOOLEAN : /\ Returns(k, Row(k, ok))
                            /\ ok => files[k] = starts
  BY DEF Succeed, Fail
<1> DEFINE r == Row(k, ok)
<1>3. /\ r \in Rows /\ r # NoRow /\ r.success = ok
      /\ r.signature = Asked(k) /\ r.made = starts
  BY <1>1, RowType
<1>4. /\ job' = [job EXCEPT ![k] = "returned"] /\ future' = [future EXCEPT ![k] = r]
      /\ UNCHANGED <<program, saved, by, files, cleaned, pc, command, starts, rows, exit>>
  BY <1>2 DEF Returns
<1> HIDE DEF r
<1>5. TypeOK'
  <2>1. /\ job' \in [Keys -> {"none", "queued", "running", "returned"}]
        /\ future' \in [Keys -> Rows \cup {NoRow}]
        /\ \A j \in Keys : future'[j] # NoRow <=> job'[j] = "returned"
    BY <1>3, <1>4 DEF TypeOK
  <2>2. QED
    BY <1>1, <1>4, <2>1 DEF TypeOK
<1>6. Collecting'
  BY <1>1, <1>2, <1>3, <1>4 DEF TypeOK, Collecting, Asked, Good
<1>7. QED
  BY <1>5, <1>6

LEMMA CollectTyped ==
    ASSUME TypeOK, Collecting, NEW k \in Keys, Collect(k)
    PROVE  TypeOK' /\ Collecting'
<1>1. /\ pc = "collecting" /\ job[k] = "returned"
      /\ rows' = [rows EXCEPT ![k] = future[k]] /\ saved' = rows'
      /\ job' = [job EXCEPT ![k] = "none"] /\ future' = [future EXCEPT ![k] = NoRow]
      /\ UNCHANGED <<program, by, files, cleaned, pc, command, starts, exit>>
  BY DEF Collect
<1>2. future[k] \in Rows /\ future[k] # NoRow /\ future[k].signature = Asked(k)
  BY <1>1 DEF TypeOK, Collecting
<1>3. TypeOK'
  BY <1>1, <1>2 DEF TypeOK, NoJobs
<1>4. Collecting'
  BY <1>1, <1>2 DEF TypeOK, Collecting, Asked, Good
<1>5. QED
  BY <1>3, <1>4

(* A process ends, or the operator takes evidence away between processes.  *)
LEMMA DownTyped ==
    ASSUME TypeOK, Collecting, Exit \/ Crash \/ \E k \in Keys : Discard(k)
    PROVE  TypeOK' /\ Collecting'
<1>1. CASE Exit \/ Crash
  <2>1. /\ Down /\ UNCHANGED <<program, saved, by, files, cleaned, command, starts>>
        /\ exit' \in {"none", "zero", "one"}
    BY <1>1 DEF Exit, Crash, TypeOK
  <2>2. QED
    BY <2>1 DEF Down, NoRows, NoJobs, TypeOK, Collecting
<1>2. ASSUME NEW k \in Keys, Discard(k) PROVE TypeOK' /\ Collecting'
  BY <1>2, RunnerAssumption DEF Discard, TypeOK, Collecting
<1>3. QED
  BY <1>1, <1>2

LEMMA StepTyped ==
    ASSUME TypeOK, Collecting, [Next]_vars
    PROVE  TypeOK' /\ Collecting'
<1>1. CASE UNCHANGED vars
  BY <1>1 DEF vars, TypeOK, Collecting, Asked, Good
<1>2. QED
  BY <1>1, StartTyped, JobTyped, ReturnTyped, CollectTyped, DownTyped DEF Next, JobStep

LEMMA CollectingAlways == Spec => [](TypeOK /\ Collecting)
BY InitTyped, StepTyped, PTL DEF Spec

(* Every state of the two runners is well typed.                           *)
THEOREM RunnerTyped == Spec => []TypeOK
BY CollectingAlways, PTL

-----------------------------------------------------------------------------
(* A job of run_ab.py touches the evidence only of a key whose row has     *)
(* been given up.                                                          *)
LEMMA FilesOfOpenKeys ==
    ASSUME TypeOK, Collecting, Next, program = "ab", NEW k \in Keys, Good(saved[k])
    PROVE  \/ files'[k] = files[k] /\ (k \in cleaned => k \in cleaned')
           \/ k \in cleaned'
<1>1. ASSUME NEW j \in Keys, Try(j) \/ Publish(j)
      PROVE  files'[k] = files[k] /\ (k \in cleaned => k \in cleaned')
  <2>1. job[j] = "running" /\ pc = "collecting"
    BY <1>1 DEF Try, MayTry, Publish, TypeOK, NoJobs
  <2>2. ~Good(saved[j])
    BY <2>1 DEF TypeOK, Collecting
  <2>3. QED
    BY <1>1, <2>2 DEF Try, Publish, TypeOK
<1>2. ASSUME NEW j \in Keys, Discard(j)
      PROVE  \/ files'[k] = files[k] /\ (k \in cleaned => k \in cleaned')
             \/ k \in cleaned'
  BY <1>2 DEF Discard, TypeOK
<1>3. ASSUME NEW j \in Keys, Launch(j) \/ Succeed(j) \/ Fail(j) \/ Collect(j)
      PROVE  UNCHANGED <<files, cleaned>>
  BY <1>3 DEF Launch, Succeed, Fail, Returns, Collect
<1>4. ASSUME NEW c \in Configs, NEW resume \in BOOLEAN, NEW force \in BOOLEAN,
             Start(c, resume, force)
      PROVE  UNCHANGED <<files, cleaned>>
  BY <1>4 DEF Start
<1>5. CASE Exit \/ Crash
  BY <1>5 DEF Exit, Crash
<1>6. QED
  BY <1>1, <1>2, <1>3, <1>4, <1>5 DEF Next, JobStep

(* The file is written at start-up and as jobs are collected.              *)
LEMMA SavedBy ==
    ASSUME Next, saved' # saved
    PROVE  \/ \E c \in Configs, resume, force \in BOOLEAN : Start(c, resume, force)
           \/ \E k \in Keys : Collect(k)
BY DEF Next, JobStep, Launch, Try, Publish, Succeed, Fail, Returns, Exit, Crash, Discard

(* run_ab.py: an answer that scores.json calls a success is the one the    *)
(* row was made of, whatever processes were killed over it, unless the     *)
(* operator took it away.                                                  *)
THEOREM AnswersKept == Spec => []AnswersStand
<1>1. Init => AnswersStand
  BY DEF Init, AnswersStand, NoRows, Good
<1>2. TypeOK /\ Collecting /\ AnswersStand /\ [Next]_vars => AnswersStand'
  <2> SUFFICES ASSUME TypeOK, Collecting, AnswersStand, Next, program' = "ab",
                      NEW k \in Keys, Good(saved'[k])
               PROVE  files'[k] = saved'[k].made \/ k \in cleaned'
    BY DEF AnswersStand, vars, Good
  <2>1. program = "ab"
    BY DEF Next, JobStep, Start, Launch, Try, Publish, Succeed, Fail, Returns, Collect,
       Exit, Crash, Discard
  <2>2. CASE saved'[k] = saved[k]
    <3>1. Good(saved[k])
      BY <2>2
    <3>2. files[k] = saved[k].made \/ k \in cleaned
      BY <2>1, <3>1 DEF AnswersStand
    <3>3. QED
      BY <2>1, <2>2, <3>1, <3>2, FilesOfOpenKeys
  <2>3. ASSUME NEW c \in Configs, NEW resume \in BOOLEAN, NEW force \in BOOLEAN,
               Start(c, resume, force), saved'[k] # saved[k]
        PROVE  FALSE
    <3>1. saved'[k] = NoRow
      BY <2>3, StartFacts
    <3>2. QED
      BY <3>1 DEF Good
  <2>4. ASSUME NEW j \in Keys, Collect(j), saved'[k] # saved[k]
        PROVE  files'[k] = saved'[k].made
    <3>1. /\ pc = "collecting" /\ job[j] = "returned" /\ saved = rows
          /\ saved' = [rows EXCEPT ![j] = future[j]] /\ UNCHANGED files
      BY <2>4 DEF Collect, TypeOK
    <3>2. k = j /\ saved'[k] = future[k]
      BY <2>4, <3>1 DEF TypeOK
    <3>3. future[k].made = starts /\ files[k] = starts
      BY <2>1, <3>1, <3>2 DEF Collecting, Good
    <3>4. QED
      BY <3>1, <3>2, <3>3
  <2>5. QED
    BY <2>2, <2>3, <2>4, SavedBy
<1>3. QED
  BY <1>1, <1>2, CollectingAlways, PTL DEF Spec

(* Exit status 0: the selected keys are done, as this command line asks    *)
(* for, and the file on disk says so; run_runtime.py does not return 0     *)
(* over a failure of any other key either.                                 *)
THEOREM ZeroMeansDone == Spec => []ExitZeroMeansDone
<1>1. Init => ExitZeroMeansDone
  BY DEF Init, ExitZeroMeansDone
<1>2. TypeOK /\ Collecting /\ ExitZeroMeansDone /\ [Next]_vars => ExitZeroMeansDone'
  <2> SUFFICES ASSUME TypeOK, Collecting, ExitZeroMeansDone, [Next]_vars, exit' = "zero"
               PROVE  /\ \A k \in Planned[command.config]' :
                           /\ Good(saved'[k])
                           /\ saved'[k].signature = Signature[command.config]'[k]
                      /\ program' = "runtime" =>
                           \A k \in Keys : saved'[k] # NoRow => Good(saved'[k])
    BY DEF ExitZeroMeansDone, Good
  <2>1. CASE Exit
    <3>1. /\ pc = "collecting" /\ job = NoJobs /\ AllGood /\ saved = rows
          /\ UNCHANGED <<program, saved, command>>
      BY <2>1 DEF Exit, TypeOK
    <3>2. program \in {"ab", "runtime"} /\ command.config \in Configs
      BY <3>1, RunnerAssumption DEF TypeOK, Collecting, CommandLines
    <3>3. Planned[command.config] \subseteq Keys
      BY <3>2, RunnerAssumption
    <3>4. \A k \in Planned[command.config] :
             rows[k] # NoRow /\ rows[k].signature = Asked(k)
      BY <3>1, <3>3 DEF Collecting, NoJobs
    <3>5. program = "runtime" => \A k \in Keys : rows[k] # NoRow => Good(rows[k])
      BY <3>1 DEF AllGood, Good
    <3>6. \A k \in Planned[command.config] : Good(rows[k])
      BY <3>1, <3>2, <3>3, <3>4, <3>5 DEF AllGood
    <3>7. QED
      BY <3>1, <3>4, <3>5, <3>6 DEF Asked
  <2>2. CASE UNCHANGED <<program, saved, command, exit>>
    BY <2>2 DEF ExitZeroMeansDone
  <2>3. ASSUME NEW k \in Keys, Collect(k) PROVE FALSE
    BY <2>3 DEF Collect, Collecting
  <2>4. ASSUME NEW c \in Configs, NEW resume \in BOOLEAN, NEW force \in BOOLEAN,
               Start(c, resume, force)
        PROVE  FALSE
    BY <2>4 DEF Start
  <2>5. QED
    BY <2>1, <2>2, <2>3, <2>4 DEF Next, JobStep, Launch, Try, Publish, Succeed, Fail,
       Returns, Crash, Discard, vars
<1>3. QED
  BY <1>1, <1>2, CollectingAlways, PTL DEF Spec

(* A success that has been saved is given up only for a reason the command *)
(* line gives: a fresh start, another executor, --force, or, of a selected *)
(* key, another signature or an answer that is gone.                       *)
THEOREM GoodRowsKept == Spec => NothingGoodLost
<1> DEFINE Given(k) ==
             \/ ~command'.resume
             \/ program = "runtime" /\ by # Executor[command'.config]
             \/ /\ k \in Planned[command'.config]
                /\ \/ saved[k].signature # Signature[command'.config][k]
                   \/ program = "ab" /\ (command'.force \/ files[k] = 0)
<1>1. ASSUME TypeOK, Collecting, Next, NEW k \in Keys, Good(saved[k]), saved'[k] # saved[k]
      PROVE  Given(k)
  <2>1. ASSUME NEW c \in Configs, NEW resume \in BOOLEAN, NEW force \in BOOLEAN,
               Start(c, resume, force)
        PROVE  Given(k)
    <3>1. /\ command' = [config |-> c, resume |-> resume, force |-> force]
          /\ \/ ~Loads(c, resume)
             \/ k \in Planned[c] /\ program = "ab" /\ ~Keeps(c, saved[k], k, force)
      BY <1>1, <2>1, StartFacts
    <3>2. command'.config = c /\ command'.resume = resume /\ command'.force = force
      BY <3>1
    <3>3. CASE ~Loads(c, resume)
      BY <3>2, <3>3 DEF Loads
    <3>4. CASE k \in Planned[c] /\ program = "ab" /\ ~Keeps(c, saved[k], k, force)
      BY <1>1, <3>2, <3>4 DEF Keeps
    <3>5. QED
      BY <3>1, <3>3, <3>4
  <2>2. ASSUME NEW j \in Keys, Collect(j) PROVE Given(k)
    <3>1. /\ pc = "collecting" /\ job[j] = "returned" /\ saved = rows
          /\ saved' = [rows EXCEPT ![j] = future[j]] /\ command' = command
      BY <1>1, <2>2 DEF Collect, TypeOK
    <3>2. k = j
      BY <1>1, <3>1 DEF TypeOK
    <3>3. k \in Planned[command.config] /\ saved[k].signature # Asked(k)
      BY <1>1, <3>1, <3>2 DEF Collecting
    <3>4. QED
      BY <3>1, <3>3 DEF Asked
  <2>3. QED
    BY <1>1, <2>1, <2>2, SavedBy
<1>2. TypeOK /\ Collecting /\ [Next]_vars
      => [\A k \in Keys : Good(saved[k]) /\ saved'[k] # saved[k] => Given(k)]_vars
  BY <1>1
<1>3. QED
  BY <1>2, CollectingAlways, PTL DEF Spec, NothingGoodLost

=============================================================================
