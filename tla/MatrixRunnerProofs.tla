------------------------- MODULE MatrixRunnerProofs -------------------------
(***************************************************************************)
(* Proofs about MatrixRunner, for every set of keys and command lines,     *)
(* every signature, any number of workers, processes and crashes.          *)
(***************************************************************************)
EXTENDS MatrixRunner, TLAPS

(* Appending a command line makes it the current one.                      *)
LEMMA NextCommand ==
    ASSUME NEW S, NEW s \in Seq(S), NEW c \in S
    PROVE  /\ Append(s, c) \in Seq(S)
           /\ Len(s) \in Nat
           /\ Len(Append(s, c)) = Len(s) + 1
           /\ Append(s, c)[Len(Append(s, c))] = c
  OBVIOUS

(* One evidence file is written, the others are as they were.              *)
LEMMA OneFile ==
    ASSUME NEW F \in [Keys -> [Kinds -> Processes]], NEW k \in Keys, NEW f \in Kinds,
           NEW p \in Processes
    PROVE  LET G == [F EXCEPT ![k] = [F[k] EXCEPT ![f] = p]]
           IN /\ G \in [Keys -> [Kinds -> Processes]]
              /\ \A j \in Keys : j # k => G[j] = F[j]
              /\ \A g \in Kinds : G[k][g] = IF g = f THEN p ELSE F[k][g]
<1>1. [F[k] EXCEPT ![f] = p] \in [Kinds -> Processes]
  OBVIOUS
<1> DEFINE r == [F[k] EXCEPT ![f] = p]
<1>2. \A g \in Kinds : r[g] = IF g = f THEN p ELSE F[k][g]
  OBVIOUS
<1> HIDE DEF r
<1>3. r \in [Kinds -> Processes]
  BY <1>1 DEF r
<1>4. LET G == [F EXCEPT ![k] = r]
      IN /\ G \in [Keys -> [Kinds -> Processes]]
         /\ \A j \in Keys : j # k => G[j] = F[j]
         /\ G[k] = r
  BY <1>3
<1>5. QED
  BY <1>2, <1>4 DEF r

(* The row a job returns is one, and is not NoRow.                         *)
LEMMA NewRow ==
    ASSUME NEW s \in BOOLEAN, NEW g \in Signatures \cup {NoRow}, NEW p \in Processes
    PROVE  LET r == [success |-> s, signature |-> g, made |-> p]
           IN r \in Rows /\ r # NoRow
<1>1. [success |-> s, signature |-> g, made |-> p] \in Rows
  BY DEF Rows
<1>2. QED
  BY <1>1, NoRowAssumption

(* Every reachable state is well typed.                                    *)
THEOREM TypeCorrect == Spec => []TypeOK
<1> USE MatrixAssumption
<1>1. Init => TypeOK
  <2> SUFFICES ASSUME Init PROVE TypeOK
    OBVIOUS
  <2>1. commands \in Seq(Configs) /\ Current = 0
    BY DEF Init, Current
  <2>2. files \in [Keys -> [Kinds -> Processes]] /\ launched \in [Keys -> Processes]
    BY DEF Init, Processes
  <2>3. QED
    BY <2>1, <2>2 DEF Init, TypeOK, NoRows, NoJobs
<1>2. TypeOK /\ [Next]_vars => TypeOK'
  <2> SUFFICES ASSUME TypeOK, [Next]_vars PROVE TypeOK'
    OBVIOUS
  <2>1. ASSUME NEW c \in Configs, NEW resume \in BOOLEAN, NEW force \in BOOLEAN,
               Start(c, resume, force)
        PROVE  TypeOK'
    <3>1. /\ commands' \in Seq(Configs)
          /\ Current' <= MaxStarts
          /\ Current' > 0
      BY <2>1, NextCommand DEF Start, TypeOK, Current
    <3>2. /\ rows' \in [Keys -> Rows \cup {NoRow}]
          /\ results' \in [Keys -> Rows \cup {NoRow}]
          /\ collected' \in [Keys -> Rows \cup {NoRow}]
      BY <2>1 DEF Start, TypeOK, NoRows
    <3>3. job' \in [Keys -> {"none", "queued"}]
      BY <2>1 DEF Start
    <3>4. future' = NoRows /\ exit' = "none" /\ pc' = "collecting"
      BY <2>1 DEF Start
    <3>5. files' = files /\ launched' = launched
      BY <2>1 DEF Start
    <3>6. QED
      BY <3>1, <3>2, <3>3, <3>4, <3>5 DEF TypeOK, NoRows
  <2>2. ASSUME NEW k \in Keys, Launch(k) PROVE TypeOK'
    <3>1. Current \in Processes
      BY DEF TypeOK, Processes, Current
    <3>2. /\ job' \in [Keys -> {"none", "queued", "running", "returned"}]
          /\ launched' \in [Keys -> Processes]
      BY <2>2, <3>1 DEF Launch, TypeOK
    <3>3. pc # "down"
      BY <2>2 DEF Launch, TypeOK, NoJobs
    <3>4. \A j \in Keys : future'[j] # NoRow <=> job'[j] = "returned"
      BY <2>2 DEF Launch, TypeOK
    <3>5. commands' = commands /\ UNCHANGED <<results, files, pc, rows, future, exit, collected>>
      BY <2>2 DEF Launch
    <3>6. QED
      BY <3>2, <3>3, <3>4, <3>5 DEF TypeOK, Current
  <2>3. ASSUME NEW k \in Keys, NEW f \in Kinds, WriteEvidence(k, f) PROVE TypeOK'
    <3>1. Current \in Processes
      BY DEF TypeOK, Processes, Current
    <3>2. files' \in [Keys -> [Kinds -> Processes]]
      BY <2>3, <3>1, OneFile DEF WriteEvidence, TypeOK
    <3>3. QED
      BY <2>3, <3>2 DEF WriteEvidence, TypeOK, Current
  <2>4. ASSUME NEW k \in Keys, NEW row \in Rows, Returns(k, row) PROVE TypeOK'
    <3>1. row # NoRow
      BY NoRowAssumption
    <3>2. /\ job' \in [Keys -> {"none", "queued", "running", "returned"}]
          /\ future' \in [Keys -> Rows \cup {NoRow}]
      BY <2>4 DEF Returns, TypeOK
    <3>3. pc # "down"
      BY <2>4 DEF Returns, TypeOK, NoJobs
    <3>4. \A j \in Keys : future'[j] # NoRow <=> job'[j] = "returned"
      BY <2>4, <3>1 DEF Returns, TypeOK
    <3>5. commands' = commands /\ UNCHANGED <<results, files, pc, rows, exit, launched, collected>>
      BY <2>4 DEF Returns
    <3>6. QED
      BY <3>2, <3>3, <3>4, <3>5 DEF TypeOK, Current
  <2>5. ASSUME NEW k \in Keys, NEW s \in BOOLEAN, ReturnScored(k, s) PROVE TypeOK'
    <3> DEFINE row == [success |-> s, signature |-> Signature[Config][k], made |-> Current]
    <3>1. Returns(k, row)
      BY <2>5 DEF ReturnScored
    <3>2. Current \in DOMAIN commands /\ Current \in Processes
      BY <3>1 DEF Returns, TypeOK, NoJobs, Current, Processes
    <3>3. Config \in Configs
      BY <3>2 DEF Config, TypeOK
    <3>4. Signature[Config][k] \in Signatures
      BY <3>3 DEF Signatures
    <3>5. row \in Rows
      BY <3>2, <3>4 DEF Rows
    <3>6. QED
      BY <2>4, <3>1, <3>5
  <2>6. ASSUME NEW k \in Keys, ReturnFailed(k) PROVE TypeOK'
    <3>1. Current \in Processes
      BY DEF TypeOK, Processes, Current
    <3>2. [success |-> FALSE, signature |-> NoRow, made |-> Current] \in Rows
      BY <3>1 DEF Rows
    <3>3. QED
      BY <2>4, <2>6, <3>2 DEF ReturnFailed
  <2>7. ASSUME NEW k \in Keys, Collect(k) PROVE TypeOK'
    BY <2>7 DEF Collect, TypeOK, Current
  <2>8. CASE Exit
    BY <2>8 DEF Exit, Down, TypeOK, NoRows, NoJobs, Current
  <2>9. CASE Crash
    BY <2>9 DEF Crash, Down, TypeOK, NoRows, NoJobs, Current
  <2>10. ASSUME NEW k \in Keys, NEW f \in Kinds, Discard(k, f) PROVE TypeOK'
    <3>1. files' \in [Keys -> [Kinds -> Processes]]
      BY <2>10, OneFile DEF Discard, TypeOK, Processes
    <3>2. QED
      BY <2>10, <3>1 DEF Discard, TypeOK, Current
  <2>11. CASE UNCHANGED vars
    BY <2>11 DEF vars, TypeOK, Current
  <2>12. QED
    BY <2>1, <2>2, <2>3, <2>5, <2>6, <2>7, <2>8, <2>9, <2>10, <2>11
    DEF Next, JobStep
<1>3. QED
  BY <1>1, <1>2, PTL DEF Spec

-----------------------------------------------------------------------------
(* The account is what the safety properties follow from; it is inductive  *)
(* together with the two of them that speak of every key.                  *)

(* What EvidenceOfTheRow says of one key.                                  *)
Backed(k) ==
    results[k] # NoRow /\ results[k].signature # NoRow /\ launched[k] = results[k].made
    => \A f \in Evidence(k) : files[k][f] \in {0, results[k].made}

Books ==
    /\ pc = "collecting" => rows = results
    /\ \A k \in Keys : Accounted(k) /\ Backed(k) /\ results[k] = collected[k]

(* A key that a step does not touch stays accounted for.                   *)
LEMMA Untouched ==
    ASSUME NEW j \in Keys, Accounted(j), Backed(j), pc' = pc, commands' = commands,
           results'[j] = results[j], job'[j] = job[j], future'[j] = future[j],
           launched'[j] = launched[j], files'[j] = files[j]
    PROVE  Accounted(j)' /\ Backed(j)'
<1>1. Current' = Current /\ Config' = Config
  BY DEF Current, Config
<1>2. Accounted(j)'
  BY <1>1 DEF Accounted
<1>3. Backed(j)'
  BY DEF Backed
<1>4. QED
  BY <1>2, <1>3

LEMMA EvidenceKinds == ASSUME NEW k \in Keys PROVE Evidence(k) \subseteq Kinds
  BY DEF Evidence, Kinds

LEMMA BooksStart ==
    ASSUME TypeOK, Books, NEW c \in Configs, NEW resume \in BOOLEAN,
           NEW force \in BOOLEAN, Start(c, resume, force)
    PROVE  Books'
<1>1. /\ Current \in Nat
      /\ Current' = Current + 1
      /\ Config' = c
  BY NextCommand DEF Start, TypeOK, Current, Config
<1>2. pc' = "collecting" /\ rows' = results' /\ files' = files /\ launched' = launched
  BY DEF Start
<1>3. ASSUME NEW k \in Keys PROVE Accounted(k)' /\ Backed(k)' /\ results'[k] = collected'[k]
  <2>1. results'[k] = IF resume THEN results[k] ELSE NoRow
    BY <1>3 DEF Start, NoRows
  <2>2. results'[k] = collected'[k]
    BY <1>3, <2>1 DEF Start, NoRows, Books
  <2>3. Backed(k)'
    BY <1>2, <1>3, <2>1 DEF Backed, Books
  <2>4. results'[k] # NoRow => results'[k].made \in Nat /\ results'[k].made <= Current
    BY <1>3, <2>1 DEF Books, Accounted, TypeOK, Rows, Processes
  <2>5. job'[k] \in {"queued", "none"}
    BY <1>3 DEF Start
  <2>6. ASSUME k \in Planned[c], job'[k] = "none" PROVE Keeps(c, results', k)
    <3>1. resume /\ Keeps(c, results, k)
      BY <1>3, <2>6 DEF Start
    <3>2. QED
      BY <3>1 DEF Start
  <2>7. ASSUME k \in Planned[c], job'[k] = "none"
        PROVE  /\ results'[k] # NoRow
               /\ results'[k].signature = Signature[c][k]
               /\ \A f \in Evidence(k) : files'[k][f] # 0
    BY <1>2, <2>6, <2>7 DEF Keeps, EvidenceExists
  <2>8. Accounted(k)'
    BY <1>1, <2>4, <2>5, <2>7 DEF Accounted
  <2>9. QED
    BY <2>2, <2>3, <2>8
<1>4. QED
  BY <1>2, <1>3 DEF Books

LEMMA BooksLaunch ==
    ASSUME TypeOK, Books, NEW k \in Keys, Launch(k)
    PROVE  Books'
<1>1. /\ pc' = pc /\ rows' = rows /\ results' = results /\ commands' = commands
      /\ files' = files /\ future' = future /\ collected' = collected
      /\ job'[k] = "running" /\ launched'[k] = Current
      /\ \A j \in Keys \ {k} : job'[j] = job[j] /\ launched'[j] = launched[j]
  BY DEF Launch, TypeOK
<1>2. Current' = Current /\ Current \in Nat
  BY <1>1 DEF Current, TypeOK
<1>3. job[k] = "queued"
  BY DEF Launch
<1>4. results[k] # NoRow => results[k].made \in Nat /\ results[k].made < Current
  BY <1>3 DEF Books, Accounted, TypeOK, Rows, Processes
<1>5. Accounted(k)' /\ Backed(k)'
  BY <1>1, <1>2, <1>4 DEF Accounted, Backed
<1>6. \A j \in Keys \ {k} : Accounted(j)' /\ Backed(j)'
  BY <1>1, Untouched DEF Books
<1>7. QED
  BY <1>1, <1>5, <1>6 DEF Books

LEMMA BooksWrite ==
    ASSUME TypeOK, Books, NEW k \in Keys, NEW f \in Kinds, WriteEvidence(k, f)
    PROVE  Books'
<1>1. /\ pc' = pc /\ rows' = rows /\ results' = results /\ commands' = commands
      /\ job' = job /\ launched' = launched /\ future' = future /\ collected' = collected
      /\ job[k] = "running"
  BY DEF WriteEvidence
<1>2. Current' = Current /\ Current \in Nat /\ Current \in Processes
  BY <1>1 DEF Current, TypeOK, Processes
<1>3. \A j \in Keys \ {k} : files'[j] = files[j]
  BY <1>2, OneFile DEF WriteEvidence, TypeOK
<1>4. launched[k] = Current /\ (results[k] # NoRow =>
        results[k].made \in Nat /\ results[k].made < Current /\ results[k].made <= Current)
  BY <1>1 DEF Books, Accounted, TypeOK, Rows, Processes
<1>5. Accounted(k)' /\ Backed(k)'
  BY <1>1, <1>2, <1>4 DEF Accounted, Backed
<1>6. \A j \in Keys \ {k} : Accounted(j)' /\ Backed(j)'
  BY <1>1, <1>3, Untouched DEF Books
<1>7. QED
  BY <1>1, <1>5, <1>6 DEF Books

(* A job returns a row of this process, signed or a success only with the  *)
(* evidence of this process beside it.                                     *)
LEMMA BooksReturn ==
    ASSUME TypeOK, Books, NEW k \in Keys, NEW row, Returns(k, row),
           row.made = Current,
           row.signature # NoRow => \A f \in Evidence(k) : files[k][f] = Current,
           row.success => /\ row.signature = Signature[Config][k]
                          /\ \A f \in Evidence(k) : files[k][f] = Current
    PROVE  Books'
<1>1. /\ pc' = pc /\ rows' = rows /\ results' = results /\ commands' = commands
      /\ files' = files /\ launched' = launched /\ collected' = collected
      /\ job[k] = "running" /\ job'[k] = "returned" /\ future'[k] = row
      /\ \A j \in Keys \ {k} : job'[j] = job[j] /\ future'[j] = future[j]
  BY DEF Returns, TypeOK
<1>2. Current' = Current /\ Config' = Config
  BY <1>1 DEF Current, Config
<1>3. launched[k] = Current /\ (results[k] # NoRow =>
        results[k].made < Current /\ results[k].made <= Current)
  BY <1>1 DEF Books, Accounted
<1>4. Accounted(k)'
  BY <1>1, <1>2, <1>3 DEF Accounted
<1>5. Backed(k)'
  BY <1>1 DEF Books, Backed
<1>6. \A j \in Keys \ {k} : Accounted(j)' /\ Backed(j)'
  BY <1>1, Untouched DEF Books
<1>7. QED
  BY <1>1, <1>4, <1>5, <1>6 DEF Books

LEMMA BooksCollect ==
    ASSUME TypeOK, Books, NEW k \in Keys, Collect(k)
    PROVE  Books'
<1>1. /\ pc = "collecting" /\ pc' = pc /\ rows = results
      /\ rows' = results' /\ commands' = commands /\ files' = files
      /\ launched' = launched /\ job[k] = "returned" /\ job'[k] = "none"
      /\ results'[k] = future[k] /\ collected'[k] = future[k]
      /\ \A j \in Keys \ {k} : /\ results'[j] = results[j] /\ collected'[j] = collected[j]
                               /\ job'[j] = job[j] /\ future'[j] = future[j]
  BY DEF Collect, TypeOK, Books
<1>2. Current' = Current /\ Config' = Config /\ Current \in Nat /\ Current > 0
  BY <1>1 DEF Current, Config, TypeOK
<1>3. /\ future[k] # NoRow
      /\ future[k].made = Current
      /\ future[k].signature # NoRow => \A f \in Evidence(k) : files[k][f] = Current
      /\ future[k].success =>
            /\ future[k].signature = Signature[Config][k]
            /\ \A f \in Evidence(k) : files[k][f] = Current
  BY <1>1 DEF Books, Accounted, TypeOK
<1>4. Accounted(k)'
  BY <1>1, <1>2, <1>3 DEF Accounted
<1>5. Backed(k)'
  BY <1>1, <1>3 DEF Backed
<1>6. \A j \in Keys \ {k} : Accounted(j)' /\ Backed(j)'
  BY <1>1, Untouched DEF Books
<1>7. QED
  BY <1>1, <1>4, <1>5, <1>6 DEF Books

(* A process that ends or is killed leaves the books as they are.          *)
LEMMA BooksDown ==
    ASSUME TypeOK, Books, Down,
           UNCHANGED <<results, files, commands, launched, collected>>
    PROVE  Books'
<1>1. pc' = "down" /\ job' = NoJobs /\ Current' = Current
  BY DEF Down, Current
<1>2. ASSUME NEW k \in Keys PROVE Accounted(k)' /\ Backed(k)' /\ results'[k] = collected'[k]
  <2>1. job'[k] = "none"
    BY <1>1, <1>2 DEF NoJobs
  <2>2. results[k] # NoRow => results[k].made <= Current
    BY <1>2 DEF Books, Accounted
  <2>3. Accounted(k)'
    BY <1>1, <2>1, <2>2 DEF Accounted
  <2>4. QED
    BY <1>2, <2>3 DEF Books, Backed
<1>3. QED
  BY <1>1, <1>2 DEF Books

LEMMA BooksDiscard ==
    ASSUME TypeOK, Books, NEW k \in Keys, NEW f \in Kinds, Discard(k, f)
    PROVE  Books'
<1>1. /\ pc = "down" /\ pc' = pc /\ results' = results /\ commands' = commands
      /\ job' = job /\ launched' = launched /\ future' = future /\ collected' = collected
  BY DEF Discard
<1>2. job[k] = "none" /\ Current' = Current
  BY <1>1 DEF TypeOK, NoJobs, Current
<1>3. /\ \A j \in Keys \ {k} : files'[j] = files[j]
      /\ \A g \in Kinds : files'[k][g] \in {0, files[k][g]}
  BY OneFile DEF Discard, TypeOK, Processes
<1>4. results[k] # NoRow => results[k].made <= Current
  BY DEF Books, Accounted
<1>5. Accounted(k)'
  BY <1>1, <1>2, <1>4 DEF Accounted
<1>6. Backed(k)'
  BY <1>1, <1>3, EvidenceKinds DEF Books, Backed
<1>7. \A j \in Keys \ {k} : Accounted(j)' /\ Backed(j)'
  BY <1>1, <1>3, Untouched DEF Books
<1>8. QED
  BY <1>1, <1>5, <1>6, <1>7 DEF Books

(* The books are kept in every reachable state.                            *)
THEOREM BooksKept == Spec => []Books
<1>1. Init => Books
  BY DEF Init, Books, Accounted, Backed, NoRows, NoJobs
<1>2. TypeOK /\ Books /\ [Next]_vars => Books'
  <2> SUFFICES ASSUME TypeOK, Books, [Next]_vars PROVE Books'
    OBVIOUS
  <2>1. ASSUME NEW k \in Keys, NEW s \in BOOLEAN, ReturnScored(k, s) PROVE Books'
    <3> DEFINE row == [success |-> s, signature |-> Signature[Config][k], made |-> Current]
    <3>1. /\ Returns(k, row)
          /\ \A f \in Evidence(k) : files[k][f] = Current
          /\ row.made = Current /\ row.signature = Signature[Config][k]
      BY <2>1 DEF ReturnScored
    <3> HIDE DEF row
    <3>2. QED
      BY <3>1, BooksReturn
  <2>2. ASSUME NEW k \in Keys, ReturnFailed(k) PROVE Books'
    <3> DEFINE row == [success |-> FALSE, signature |-> NoRow, made |-> Current]
    <3>1. /\ Returns(k, row)
          /\ row.made = Current /\ row.signature = NoRow /\ ~row.success
      BY <2>2 DEF ReturnFailed
    <3> HIDE DEF row
    <3>2. QED
      BY <3>1, BooksReturn
  <2>3. CASE Exit
    BY <2>3, BooksDown DEF Exit
  <2>4. CASE Crash
    BY <2>4, BooksDown DEF Crash
  <2>5. CASE UNCHANGED vars
    <3>1. Current' = Current /\ Config' = Config
      BY <2>5 DEF vars, Current, Config
    <3>2. QED
      BY <2>5, <3>1 DEF vars, Books, Accounted, Backed
  <2>6. QED
    BY <2>1, <2>2, <2>3, <2>4, <2>5, BooksStart, BooksLaunch, BooksWrite,
       BooksCollect, BooksDiscard
    DEF Next, JobStep
<1>3. QED
  BY <1>1, <1>2, TypeCorrect, PTL DEF Spec

(* The account of the run matrix_safety.                                   *)
THEOREM AccountKept == Spec => []Account
<1>1. Books => Account
  BY DEF Books, Account
<1>2. QED
  BY <1>1, BooksKept, PTL

(* Whatever is interrupted, the results file has every collected row.      *)
THEOREM ResultsKept == Spec => []CompletedResultsKept
<1>1. Books => CompletedResultsKept
  BY DEF Books, CompletedResultsKept
<1>2. QED
  BY <1>1, BooksKept, PTL

(* The evidence beside a row is the row's own, or gone.                    *)
THEOREM EvidenceKept == Spec => []EvidenceOfTheRow
<1>1. Books => EvidenceOfTheRow
  BY DEF Books, Backed, EvidenceOfTheRow
<1>2. QED
  BY <1>1, BooksKept, PTL

(* A process that returns 0 has a complete matrix of its own signature.    *)
THEOREM ZeroIsComplete == Spec => ExitZeroIsComplete
<1> DEFINE Complete ==
        \A k \in Planned[Config] :
            /\ results[k] # NoRow
            /\ results[k].success
            /\ results[k].signature = Signature[Config][k]
            /\ \A f \in Evidence(k) : files[k][f] # 0
<1>1. TypeOK /\ Books /\ [Next]_vars => [exit # "zero" /\ exit' = "zero" => Complete]_vars
  <2> SUFFICES ASSUME TypeOK, Books, Next, exit # "zero", exit' = "zero" PROVE Complete
    OBVIOUS
  <2>1. Exit
    BY DEF Next, JobStep, Start, Launch, WriteEvidence, ReturnScored, ReturnFailed,
           Returns, Collect, Crash, Discard
  <2>2. /\ pc = "collecting" /\ job = NoJobs /\ rows = results
        /\ \A k \in Keys : rows[k] # NoRow => rows[k].success
    BY <2>1 DEF Exit, Books
  <2>3. Planned[Config] \subseteq Keys
    <3>1. Config \in Configs
      BY <2>2 DEF Config, Current, TypeOK
    <3>2. QED
      BY <3>1, MatrixAssumption
  <2>4. ASSUME NEW k \in Planned[Config]
        PROVE  /\ results[k] # NoRow
               /\ results[k].success
               /\ results[k].signature = Signature[Config][k]
               /\ \A f \in Evidence(k) : files[k][f] # 0
    <3>1. k \in Keys /\ job[k] = "none"
      BY <2>2, <2>3, <2>4 DEF NoJobs
    <3>2. /\ results[k] # NoRow
          /\ results[k].success => /\ results[k].signature = Signature[Config][k]
                                  /\ \A f \in Evidence(k) : files[k][f] # 0
      BY <2>2, <2>4, <3>1 DEF Books, Accounted
    <3>3. QED
      BY <2>2, <3>1, <3>2
  <2>5. QED
    BY <2>4
<1>2. QED
  BY <1>1, TypeCorrect, BooksKept, PTL DEF Spec, ExitZeroIsComplete

=============================================================================
