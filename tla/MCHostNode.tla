------------------------------ MODULE MCHostNode ------------------------------
(***************************************************************************)
(* Two nodes, of either kind: the order pool is attached to one, attaching *)
(* it to the other fails.                                                  *)
(***************************************************************************)
EXTENDS HostNode

MCNodes == {"a", "b"}
\* Blocks are built on one of them.
MCMaxHeight == [n \in MCNodes |-> IF n = "a" THEN 2 ELSE 0]
MCTxs == {"t"}
MCTasks == {"task"}
\* Half a second, less than the minimum; one and a half, which is cut off.
MCBlockTimes == {1, 3}
MCClock == {0, 3}
=============================================================================
