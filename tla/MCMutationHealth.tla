---------------------------- MODULE MCMutationHealth ----------------------------
(* Two owners that may abort at the same time, two streams, and enough      *)
(* recoveries to see a stream planned, wrapped and polled before, in and    *)
(* after one.                                                               *)
EXTENDS MutationHealth
=============================================================================
