----------------------------- MODULE MCFacadeWrites -----------------------------
(* Two facades, one in optimistic mode, and operations of every kind.       *)
EXTENDS FacadeWrites

CONSTANTS a, b, set1, set2, delete, both, script, query, x, y

Op(kind, f, sets, deletes) == [kind |-> kind, at |-> f, sets |-> sets, deletes |-> deletes]

Requests == [o \in {set1, set2, delete, both, script, query} |->
    CASE o = set1   -> Op("composite", a, {x}, FALSE)
      [] o = set2   -> Op("composite", b, {x}, FALSE)
      [] o = delete -> Op("composite", a, {}, TRUE)
      [] o = both   -> Op("mixed", a, {y}, FALSE)
      [] o = script -> Op("script", b, {}, FALSE)
      [] o = query  -> Op("query", b, {}, FALSE)]

MCRequest == [o \in Ops |-> Requests[o]]
=============================================================================
