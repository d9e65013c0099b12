-------------------------- MODULE ExecuteRefinement --------------------------
(* ExecuteProtocol implements RunContract: the refinement mapping reads    *)
(* the two durable files only, whatever the processes are doing.           *)
EXTENDS ExecuteProtocol

RunOwner == IF disk = Absent THEN Absent ELSE disk.run.request

RunLife ==
    CASE disk = Absent -> "none"
      [] disk # Absent /\ disk.inflight # "none" -> disk.inflight
      [] disk # Absent /\ disk.inflight = "none" ->
            IF Terminal(disk.run) THEN "ended" ELSE "idle"

(* Attempts that are recorded, and the call in flight.                     *)
RunUsed ==
    [p \in Phases |->
        IF disk = Absent THEN 0
        ELSE disk.run.count[p] + IF disk.inflight = p THEN 1 ELSE 0]

RunSuccess == disk # Absent /\ disk.run.stage = "complete"

RunPublished ==
    IF result = Absent THEN Absent
    ELSE [owner |-> result.request, success |-> result.stage = "complete"]

Promise == INSTANCE RunContract WITH
    Nobody <- Absent,
    owner <- RunOwner,
    life <- RunLife,
    used <- RunUsed,
    success <- RunSuccess,
    published <- RunPublished

(* Every step of the protocol, crashes and restarts included, is a step of *)
(* the contract on the durable files or leaves them as they are.           *)
ImplementsContract == Promise!Spec

=============================================================================
