---------------------------- MODULE GenerationReaders ----------------------------
(***************************************************************************)
(* Readers that pin a generation by its lease without any project lock     *)
(* (crates/graphforge-storage/src/project_generation.rs):                  *)
(* resolve_project_generation() pins what CURRENT names,                   *)
(* resolve_verified_generation() a generation known by UUID and digest.    *)
(***************************************************************************)
EXTENDS ProjectStore

Nothing == [gen |-> None, digest |-> None]

KeepProject == UNCHANGED <<disk, locks, procs, receipts, hasty, crashes>>

Go(r, place, c) ==
    /\ rpc' = [rpc EXCEPT ![r] = place]
    /\ seen' = [seen EXCEPT ![r] = c]
    /\ KeepProject

\* Read and parse CURRENT.
ReadCurrent(r) == rpc[r] = "idle" /\ Go(r, "read", Current)

\* Open lease.lock in the generation's directory and take it shared.
OpenLease(r) ==
    /\ rpc[r] = "read"
    /\ gens[seen[r].gen] # "absent"
    /\ Go(r, "leased", seen[r])

\* The directory or its lease is missing: GF_PROJECT_CORRUPT.
LeaseMissing(r) ==
    /\ rpc[r] = "read"
    /\ gens[seen[r].gen] = "absent"
    /\ Go(r, "corrupt", seen[r])

\* Mutant: does not read CURRENT again.
ConfirmBlind(r) ==
    /\ rpc[r] = "leased"
    /\ Resolves(seen[r])
    /\ Go(r, "pinned", seen[r])

\* CURRENT is byte-identical: the generation is pinned if its directory is still there,
\* otherwise GF_PROJECT_CORRUPT.
ConfirmCurrent(r) ==
    /\ rpc[r] = "leased"
    /\ Current = seen[r]
    /\ Go(r, IF Resolves(seen[r]) THEN "pinned" ELSE "corrupt", seen[r])

\* CURRENT changed: release the lease and start again.
ConfirmChanged(r) == rpc[r] = "leased" /\ Current # seen[r] /\ Go(r, "idle", Nothing)

\* resolve_verified_generation(): the lease of a generation that is not looked up in
\* CURRENT, then its directory and manifest are validated.
OpenByUuid(r, g) ==
    /\ rpc[r] = "idle"
    /\ gens[g] = "complete"
    /\ Go(r, "named", [gen |-> g, digest |-> parentOf[g]])

HoldByUuid(r) == rpc[r] = "named" /\ Resolves(seen[r]) /\ Go(r, "held", seen[r])

MissingByUuid(r) == rpc[r] = "named" /\ ~Resolves(seen[r]) /\ Go(r, "idle", Nothing)

\* The snapshot is dropped, or the error is reported.
EndSnapshot(r) == rpc[r] \in {"pinned", "held", "corrupt"} /\ Go(r, "idle", Nothing)

ReadProject(r) ==
    \/ ReadCurrent(r) \/ OpenLease(r) \/ LeaseMissing(r) \/ ConfirmCurrent(r)
    \/ ConfirmChanged(r) \/ HoldByUuid(r) \/ MissingByUuid(r)
    \/ EndSnapshot(r)
    \/ \E g \in Gens : OpenByUuid(r, g)
=============================================================================
