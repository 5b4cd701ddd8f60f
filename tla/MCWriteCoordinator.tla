--------------------------- MODULE MCWriteCoordinator ---------------------------
(* Callers that come back until the ticket space, scaled down from u64, is  *)
(* used up.                                                                 *)
EXTENDS WriteCoordinator

=============================================================================
