----------------------------- MODULE MCOrderPool2 -----------------------------
(***************************************************************************)
(* The two structures of orderpool2.  They do not call each other: a       *)
(* behaviour is one of the simulation tree or one of the prioritized pool, *)
(* and the other stays as it is.                                           *)
(***************************************************************************)
EXTENDS SimTree, PrioritizedPool

MCAccounts == {1, 2}

required(a, n, f) == [account |-> a, nonce |-> n, optional |-> FALSE, fee |-> f, gas |-> 1]
optional(a, n) == [required(a, n, 9) EXCEPT !.optional = TRUE]

\* Two that compete, chains of nonces, and one that needs two accounts.
MCSimOrders ==
  [x |-> <<required(1, 0, 1)>>,
   v |-> <<required(1, 0, 1), optional(2, 0)>>,
   y |-> <<required(1, 1, 1)>>,
   u |-> <<required(1, 2, 1)>>,
   z |-> <<required(2, 0, 1)>>,
   w |-> <<required(1, 1, 1), required(2, 1, 1)>>]

MCScore == [o \in DOMAIN MCSimOrders |-> IF o = "v" THEN 2 ELSE 1]
MCOnchain == [a \in MCAccounts |-> 0]

MCPrioOrders ==
  [x |-> <<required(1, 0, 3)>>,
   v |-> <<required(2, 0, 5), optional(1, 0)>>,
   y |-> <<required(1, 1, 4), required(1, 2, 1)>>,
   w |-> <<required(2, 1, 2), required(1, 1, 2)>>,
   u |-> <<optional(2, 1), required(2, 1, 1), required(1, 1, 1)>>]

VARIABLE part

Init ==
  /\ part \in {"sim_tree", "prioritized_pool"}
  /\ SimInit
  /\ PrioInit

Next ==
  \/ part = "sim_tree" /\ SimNext /\ UNCHANGED <<prioVars, part>>
  \/ part = "prioritized_pool" /\ PrioNext /\ UNCHANGED <<simVars, part>>

Spec == Init /\ [][Next]_<<simVars, prioVars, part>>
=============================================================================
