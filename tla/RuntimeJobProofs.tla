-------------------------- MODULE RuntimeJobProofs --------------------------
(***************************************************************************)
(* Proofs about RuntimeJob, for every set of paths and contents, every     *)
(* limit on an answer, every verdict of the contract and any number of     *)
(* repairs.  The sum that FoldLeft computes is never needed.               *)
(***************************************************************************)
EXTENDS RuntimeJob, TLAPS

(* Whatever shows that the model answered comes after a call that did.     *)
Answered ==
    \/ stage \in {"apply", "validate"}
    \/ errors # "none"
    \/ repairs > 0
    \/ applied
    \/ mended
    => called

(* Until the execute call is judged nothing counts as applied; a repair is *)
(* under way only for errors, which stay until it has been judged.         *)
UnderWay ==
    /\ stage = "plan" => repairs = 0
    /\ stage \in {"plan", "call", "apply", "validate"} =>
        IF repairs = 0 THEN ~applied /\ ~mended ELSE errors # "none"

(* A run that has applied something and has no errors is at a workspace    *)
(* that was validated as it is.                                            *)
Judged ==
    stage \in {"decide", "ended"} /\ errors = "none" /\ (applied \/ mended) =>
        /\ validated = ws
        /\ ~HasErrors[ws]
        /\ unsupported = HasUnsupported[ws]

Kept ==
    /\ \A p \in Paths \ Files : ws[p] = Missing
    /\ stage = "ended" => snapshot = ws
    /\ row.pass => stage = "done"

IInv == TypeOK /\ Answered /\ UnderWay /\ Judged /\ Kept /\ PassIsOfTheSnapshot

(* What an answer that is not refused asks for.                            *)
LEMMA BundleType ==
    ASSUME NEW answer \in Answers, ~Refused(answer)
    PROVE  BundleOf(answer) \in Bundles
<1>1. PICK n \in 0 .. MaxItems : answer \in [1 .. n -> Items]
  BY DEF Answers, TupleOf
<1>2. \A i \in DOMAIN answer : answer[i].path \in Files /\ answer[i].content \in Contents
  BY <1>1 DEF Refused, Items
<1> DEFINE S == {answer[i].path : i \in DOMAIN answer}
<1>3. S \in SUBSET Files
  BY <1>2
<1>4. \A p \in S : answer[CHOOSE i \in DOMAIN answer : answer[i].path = p].content \in Contents
  BY <1>2
<1>5. BundleOf(answer) \in [S -> Contents]
  BY <1>4 DEF BundleOf
<1>6. QED
  BY <1>3, <1>5 DEF Bundles

LEMMA TypeInit == Init => TypeOK
<1> SUFFICES ASSUME Init PROVE TypeOK
  OBVIOUS
<1>1. NoFiles \in Bundles
  <2>1. NoFiles \in [{} -> Contents]
    BY DEF NoFiles
  <2>2. QED
    BY <2>1 DEF Bundles
<1>2. ws \in Workspaces
  BY DEF Init, Workspaces
<1>3. pending \subseteq DOMAIN bundle /\ repairs \in 0 .. RepairAttempts
  BY RuntimeAssumption DEF Init
<1>4. row.pass \in BOOLEAN /\ row.reason \in Reasons
  BY DEF Init, NoRow, Reasons
<1>5. QED
  BY <1>1, <1>2, <1>3, <1>4 DEF Init, TypeOK

LEMMA TypeNext == TypeOK /\ [Next]_vars => TypeOK'
<1> SUFFICES ASSUME TypeOK, [Next]_vars PROVE TypeOK'
  OBVIOUS
<1> USE RuntimeAssumption
<1>1. ASSUME NEW reason \in {"executor_capability_mismatch", "plan_validation_exhausted"},
             GiveUp(reason)
      PROVE  TypeOK'
  BY <1>1 DEF TypeOK, GiveUp, Returns, Reasons
<1>2. CASE Planned
  BY <1>2 DEF TypeOK, Planned
<1>3. CASE CallFails
  BY <1>3 DEF TypeOK, CallFails
<1>4. ASSUME NEW answer \in Answers, BundleRefused(answer) PROVE TypeOK'
  BY <1>4 DEF TypeOK, BundleRefused, Executing
<1>5. ASSUME NEW answer \in Answers, BundleStaged(answer) PROVE TypeOK'
  <2>1. bundle' \in Bundles
    BY <1>5, BundleType DEF BundleStaged
  <2>2. QED
    BY <1>5, <2>1 DEF TypeOK, BundleStaged, Executing
<1>6. ASSUME NEW f \in Files, ReplaceFile(f) PROVE TypeOK'
  <2>1. f \in DOMAIN bundle
    BY <1>6 DEF TypeOK, ReplaceFile
  <2>2. bundle[f] \in Contents
    BY <2>1 DEF TypeOK, Bundles
  <2>3. ws' \in Workspaces
    BY <1>6, <2>2 DEF TypeOK, ReplaceFile, Workspaces
  <2>4. QED
    BY <1>6, <2>3 DEF TypeOK, ReplaceFile
<1>7. CASE ReplaceFails
  BY <1>7 DEF TypeOK, ReplaceFails
<1>8. CASE Validate
  BY <1>8 DEF TypeOK, Validate
<1>9. CASE Repair
  BY <1>9 DEF TypeOK, Repair, MayRepair
<1>10. CASE TakeSnapshot
  BY <1>10 DEF TypeOK, TakeSnapshot
<1>11. CASE Return
  <2>1. ContractPass \in BOOLEAN /\ Reason \in Reasons
    BY DEF TypeOK, ContractPass, Reason, Reasons
  <2>2. QED
    BY <1>11, <2>1 DEF TypeOK, Return, Returns
<1>12. CASE UNCHANGED vars
  BY <1>12 DEF TypeOK, vars
<1>13. QED
  BY <1>1, <1>2, <1>3, <1>4, <1>5, <1>6, <1>7, <1>8, <1>9, <1>10, <1>11, <1>12 DEF Next

(* Every state of a job has its type.                                      *)
THEOREM JobTyped == Spec => []TypeOK
BY TypeInit, TypeNext, PTL DEF Spec

(* Only the last step writes the row.                                      *)
LEMMA IInvInit == Init => IInv
<1> SUFFICES ASSUME Init PROVE IInv
  OBVIOUS
<1>1. TypeOK
  BY TypeInit
<1>2. QED
  BY <1>1 DEF Init, NoRow, IInv, Answered, UnderWay, Judged, Kept, PassIsOfTheSnapshot

(* The paths an answer names are allowed ones.                             *)
LEMMA OutsideStays ==
    ASSUME IInv, NEW f \in Files, ReplaceFile(f)
    PROVE  \A p \in Paths \ Files : ws'[p] = Missing
BY DEF IInv, TypeOK, Kept, ReplaceFile, Workspaces

(* Before the job returns no row says that it passed.                      *)
LEMMA IInvNext == IInv /\ [Next]_vars => IInv'
<1> SUFFICES ASSUME IInv, [Next]_vars PROVE IInv'
  OBVIOUS
<1> USE RuntimeAssumption
<1>0. TypeOK'
  BY TypeNext DEF IInv
<1>1. ASSUME NEW reason \in {"executor_capability_mismatch", "plan_validation_exhausted"},
             GiveUp(reason)
      PROVE  IInv'
  BY <1>0, <1>1 DEF IInv, Answered, UnderWay, Judged, Kept, PassIsOfTheSnapshot, GiveUp, Returns
<1>2. CASE Planned
  BY <1>0, <1>2 DEF IInv, Answered, UnderWay, Judged, Kept, PassIsOfTheSnapshot, Planned
<1>3. CASE CallFails
  BY <1>0, <1>3 DEF IInv, Answered, UnderWay, Judged, Kept, PassIsOfTheSnapshot, CallFails
<1>4. ASSUME NEW answer \in Answers, BundleRefused(answer) PROVE IInv'
  BY <1>0, <1>4 DEF IInv, TypeOK, Answered, UnderWay, Judged, Kept, PassIsOfTheSnapshot,
                    BundleRefused, Executing
<1>5. ASSUME NEW answer \in Answers, BundleStaged(answer) PROVE IInv'
  BY <1>0, <1>5 DEF IInv, TypeOK, Answered, UnderWay, Judged, Kept, PassIsOfTheSnapshot,
                    BundleStaged, Executing
<1>6. ASSUME NEW f \in Files, ReplaceFile(f) PROVE IInv'
  <2>1. stage = "apply" /\ stage' \in {"apply", "validate"}
    BY <1>6 DEF ReplaceFile
  <2>2. UNCHANGED <<called, errors, unsupported, applied, repairs, mended, snapshot, row, validated>>
    BY <1>6 DEF ReplaceFile
  <2>3. QED
    BY <1>0, <1>6, <2>1, <2>2, OutsideStays
       DEF IInv, Answered, UnderWay, Judged, Kept, PassIsOfTheSnapshot
<1>7. CASE ReplaceFails
  BY <1>0, <1>7 DEF IInv, Answered, UnderWay, Judged, Kept, PassIsOfTheSnapshot, ReplaceFails
<1>8. CASE Validate
  BY <1>0, <1>8 DEF IInv, TypeOK, Answered, UnderWay, Judged, Kept, PassIsOfTheSnapshot, Validate
<1>9. CASE Repair
  BY <1>0, <1>9 DEF IInv, TypeOK, Answered, UnderWay, Judged, Kept, PassIsOfTheSnapshot, Repair,
                    MayRepair
<1>10. CASE TakeSnapshot
  BY <1>0, <1>10 DEF IInv, Answered, UnderWay, Judged, Kept, PassIsOfTheSnapshot, TakeSnapshot
<1>11. CASE Return
  <2>1. /\ stage = "ended" /\ stage' = "done"
        /\ row'.pass = ContractPass
        /\ UNCHANGED <<ws, called, errors, unsupported, applied, repairs, mended, snapshot,
                       validated>>
    BY <1>11 DEF Return, Returns
  <2>2. PassIsOfTheSnapshot'
    BY <2>1 DEF IInv, TypeOK, Answered, Judged, Kept, PassIsOfTheSnapshot, ContractPass
  <2>3. QED
    BY <1>0, <2>1, <2>2 DEF IInv, Answered, UnderWay, Judged, Kept
<1>12. CASE UNCHANGED vars
  BY <1>12 DEF vars, IInv, TypeOK, Answered, UnderWay, Judged, Kept, PassIsOfTheSnapshot
<1>13. QED
  BY <1>1, <1>2, <1>3, <1>4, <1>5, <1>6, <1>7, <1>8, <1>9, <1>10, <1>11, <1>12 DEF Next

(* A job passes only for the artifacts it leaves: those of its snapshot    *)
(* are the ones validated last, and no answer put a path beside them.      *)
THEOREM PassProved == Spec => []PassIsOfTheSnapshot
<1>1. IInv => PassIsOfTheSnapshot
  BY DEF IInv
<1>2. QED
  BY <1>1, IInvInit, IInvNext, PTL DEF Spec

=============================================================================
