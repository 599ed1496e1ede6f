---------------------------- MODULE MCStateCache ----------------------------
(***************************************************************************)
(* An account that blocks change, destroy and create, and two jobs.        *)
(***************************************************************************)
EXTENDS StateCache, TLC

MCKeys == {"k", "l"}

Account(info, k, l) == [info |-> info, slots |-> [x \in MCKeys |-> IF x = "k" THEN k ELSE l]]

MCGenesis == [a \in {"a"} |-> Account(1, 1, 0)]

Update(a, account, codes, destroyed) ==
  [accounts |-> [x \in {a} |-> account], codes |-> codes, destroyed |-> destroyed]

\* A slot is written; an account is destroyed and made again; it is just gone.
MCUpdates ==
  {Update("a", Account(2, 2, 0), {}, {}),
   Update("a", Account(1, 0, 3), {"code"}, {"a"}),
   Update("a", Account(NoAccount, 0, 0), {}, {})}

Symmetry == Permutations(Jobs)
=============================================================================
