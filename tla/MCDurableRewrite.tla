---------------------------- MODULE MCDurableRewrite ----------------------------
(* A root with a receipt beside generation.json and one data file elsewhere, *)
(* which may be moved to a third directory.                                  *)
EXTENDS DurableRewrite, TLC

CONSTANTS route, moved, receipt, generation, topology, properties, routes, root

MCData   == {route, moved, receipt}
MCParent == [x \in MCData \cup {generation} |->
                CASE x = route -> properties [] x = moved -> routes [] OTHER -> topology]

Rewrite(ds)    == [writes |-> ds, moves |-> <<>>, bump |-> 1]
MoveAndReceipt == [writes |-> {receipt}, moves |-> (moved :> route), bump |-> 1]

\* A rewrite without a receipt, and one with a receipt that also moves the file.
MCBatches == {Rewrite({route}), MoveAndReceipt}
=============================================================================
