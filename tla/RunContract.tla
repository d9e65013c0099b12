----------------------------- MODULE RunContract -----------------------------
(***************************************************************************)
(* What scripts/execute_protocol.py promises the operator of a run, seen   *)
(* through its durable files only: model calls are reserved on disk before *)
(* they are made, within the request's budgets and in the order of the     *)
(* stages; a run ends once; its result is published after that.  Nothing   *)
(* here knows of processes, crashes, workspaces or validators.             *)
(***************************************************************************)
EXTENDS Naturals

CONSTANTS Requests, Structured, PlanBudget, ArtifactBudget, Nobody

VARIABLES
    owner,      \* the request whose run holds the checkpoint
    life,       \* "none", "idle", the phase of a reserved call, or "ended"
    used,       \* calls reserved, per phase
    success,    \* how the run ended
    published   \* the result: whose, and whether it succeeded

vars == <<owner, life, used, success, published>>

CallPhases == {"plan", "execute", "repair"}
NothingUsed == [p \in CallPhases |-> 0]

Init ==
    /\ owner = Nobody
    /\ life = "none"
    /\ used = NothingUsed
    /\ success = FALSE
    /\ published = Nobody

(* May a run of request r that has used u reserve a call of phase p?       *)
MayReserve(r, u, p) ==
    CASE p = "plan"    -> u["execute"] = 0 /\ u["plan"] < PlanBudget[r]
      [] p = "execute" -> u["execute"] = 0 /\ (Structured[r] => u["plan"] > 0)
      [] p = "repair"  -> u["execute"] = 1 /\ u["repair"] < ArtifactBudget[r]

Alive == life \in CallPhases \cup {"idle"}

(* A run begun from scratch takes the checkpoint over: with its first call *)
(* or, if it cannot make one, ended.                                       *)
Begin(r, l) ==
    /\ owner' = r
    /\ life' = l
    /\ used' = [p \in CallPhases |-> IF p = l THEN 1 ELSE 0]
    /\ l = "ended" \/ MayReserve(r, NothingUsed, l)
    /\ success' = FALSE
    /\ UNCHANGED published

Reserve(p) ==
    /\ Alive
    /\ MayReserve(owner, used, p)
    /\ life' = p
    /\ used' = [used EXCEPT ![p] = @ + 1]
    /\ UNCHANGED <<owner, success, published>>

Settle ==
    /\ life \in CallPhases
    /\ life' = "idle"
    /\ UNCHANGED <<owner, used, success, published>>

End ==
    /\ Alive
    /\ life' = "ended"
    /\ success' \in BOOLEAN
    /\ success' => used["execute"] = 1
    /\ UNCHANGED <<owner, used, published>>

(* The reserved call may or may not have been made: the run fails and does *)
(* not count it.                                                           *)
EndUnknown ==
    /\ life \in CallPhases
    /\ life' = "ended"
    /\ success' = FALSE
    /\ used' = [used EXCEPT ![life] = @ - 1]
    /\ UNCHANGED <<owner, published>>

Publish ==
    /\ life = "ended"
    /\ published' = [owner |-> owner, success |-> success]
    /\ UNCHANGED <<owner, life, used, success>>

Next ==
    \/ \E r \in Requests, l \in {"plan", "execute", "ended"} : Begin(r, l)
    \/ \E p \in CallPhases : Reserve(p)
    \/ Settle
    \/ End
    \/ EndUnknown
    \/ Publish

Spec == Init /\ [][Next]_vars

=============================================================================
