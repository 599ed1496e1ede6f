----------------------------- MODULE StepsProofs -----------------------------
(***************************************************************************)
(* The safety of checkpoints and of the steps on them, for every set of    *)
(* transactions, bundles and combinators.                                  *)
(***************************************************************************)
EXTENDS Steps, WellFoundedInduction, FiniteSetTheorems, SequenceTheorems, TLAPS

(***************************************************************************)
(* Induction                                                               *)
(***************************************************************************)

\* Every non-empty set of naturals has a least element.
LEMMA LeastNat ==
  ASSUME NEW T \in SUBSET Nat, T # {}
  PROVE  \E x \in T : \A y \in T : x <= y
<1>1. IsWellFoundedOn(OpToRel(<, Nat), Nat)
  BY NatLessThanWellFounded
<1>2. PICK x \in T : \A y \in T : ~(<<y, x>> \in OpToRel(<, Nat))
  BY <1>1, WFMin
<1>3. \A y \in T : ~(y < x)
  BY <1>2 DEF OpToRel
<1> QED
  BY <1>3

\* Induction, for a set of naturals.
LEMMA NatSetInduction ==
  ASSUME NEW T \in SUBSET Nat, 0 \in T, \A n \in T : n + 1 \in T
  PROVE  T = Nat
<1> SUFFICES ASSUME T # Nat PROVE FALSE
  OBVIOUS
<1> DEFINE Rest == Nat \ T
<1>1. Rest \in SUBSET Nat /\ Rest # {}
  OBVIOUS
<1> HIDE DEF Rest
<1>2. PICK x \in Rest : \A y \in Rest : x <= y
  BY <1>1, LeastNat
<1>3. x \in Nat /\ x # 0 /\ x \notin T
  BY <1>2 DEF Rest
<1>4. x - 1 \in Nat /\ ~(x <= x - 1) /\ (x - 1) + 1 = x
  BY <1>3
<1>5. x - 1 \in T
  BY <1>2, <1>4 DEF Rest
<1> QED
  BY <1>3, <1>4, <1>5

\* Non-empty sets of naturals that are bounded have a greatest element.
LEMMA MaxOf ==
  ASSUME NEW m \in Nat, NEW s \in SUBSET (0..m), s # {}
  PROVE  Max(s) \in s /\ \A y \in s : y <= Max(s)
<1> DEFINE T == {m - x : x \in s}
<1>1. T \in SUBSET Nat /\ T # {}
  OBVIOUS
<1> HIDE DEF T
<1>2. PICK z \in T : \A y \in T : z <= y
  BY <1>1, LeastNat
<1>3. PICK x \in s : z = m - x
  BY <1>2 DEF T
<1>4. \A y \in s : x >= y
  <2> TAKE y \in s
  <2>1. m - y \in T
    BY DEF T
  <2> QED
    BY <1>2, <1>3, <2>1
<1>5. Max(s) \in s /\ \A y \in s : Max(s) >= y
  BY <1>4 DEF Max
<1> QED
  BY <1>5

\* The least element that Min chooses.
LEMMA MinOf ==
  ASSUME NEW s \in SUBSET Nat, s # {}
  PROVE  Min(s) \in s /\ \A y \in s : Min(s) <= y
<1>1. PICK x \in s : \A y \in s : x <= y
  BY LeastNat
<1> QED
  BY <1>1 DEF Min

(***************************************************************************)
(* Folds.  One induction for all of them: `fold` names the operator, and p *)
(* is what else it depends on.                                             *)
(***************************************************************************)

FoldStep(fold, p, s, x) ==
  CASE fold = "bundle"   -> bundle_step(p[1], s, p[1].txs[x], p[2][x])
    [] fold = "drop"     -> without_transaction(s, x)
    [] fold = "reduce"   -> IF x \in p[1] THEN without_transaction(s, p[2][x]) ELSE s
    [] fold = "replay"   -> committed(s, effects(s, x.tx, x.outcome))
    [] fold = "tip"      -> IF Tip(x) \in Nat THEN s + Tip(x) ELSE s
    [] fold = "pop"      -> pop_best(s)
    [] fold = "optimism" -> optimism_step(s, x)

\* The equation that the function inside a fold satisfies.
Folds(fold, p, base, seq, m, it) ==
  it = [s \in SUBSET (1..m) |->
          IF s = {} THEN base ELSE FoldStep(fold, p, it[s \ {Max(s)}], seq[Max(s)])]

\* A function that satisfies it exists ...
LEMMA FoldExists ==
  ASSUME NEW fold, NEW p, NEW base, NEW seq, NEW n \in Nat
  PROVE  \E it : Folds(fold, p, base, seq, n, it)
<1> DEFINE T == {m \in Nat : \E it : Folds(fold, p, base, seq, m, it)}
<1>1. 0 \in T
  <2> DEFINE it0 == [s \in SUBSET (1..0) |-> base]
  <2>1. \A s \in SUBSET (1..0) : s = {}
    OBVIOUS
  <2>2. Folds(fold, p, base, seq, 0, it0)
    BY <2>1 DEF Folds
  <2> QED
    BY <2>2
<1>2. ASSUME NEW m \in T PROVE m + 1 \in T
  <2>1. m \in Nat /\ m + 1 \in Nat
    OBVIOUS
  <2>2. PICK it : Folds(fold, p, base, seq, m, it)
    OBVIOUS
  <2> DEFINE new == [s \in SUBSET (1..(m + 1)) |->
                       IF s = {} THEN base ELSE FoldStep(fold, p, it[s \ {Max(s)}], seq[Max(s)])]
  <2>3. \A s \in SUBSET (1..m) : s \in SUBSET (1..(m + 1)) /\ new[s] = it[s]
    <3>1. \A x \in 1..m : x \in 1..(m + 1)
      BY <2>1
    <3>2. ASSUME NEW s \in SUBSET (1..m) PROVE s \in SUBSET (1..(m + 1)) /\ new[s] = it[s]
      <4>1. s \in SUBSET (1..(m + 1))
        BY <3>1
      <4>2. it[s] = IF s = {} THEN base ELSE FoldStep(fold, p, it[s \ {Max(s)}], seq[Max(s)])
        BY <2>2 DEF Folds
      <4> QED
        BY <4>1, <4>2
    <3> QED
      BY <3>2
  <2>4. ASSUME NEW s \in SUBSET (1..(m + 1)), s # {} PROVE s \ {Max(s)} \in SUBSET (1..m)
    <3>1. s \in SUBSET (0..(m + 1))
      BY <2>1
    <3>2. Max(s) \in s /\ \A y \in s : y <= Max(s)
      BY <2>1, <3>1, <2>4, MaxOf
    <3>3. \A y \in s : y \in 1..(m + 1) /\ y <= Max(s) /\ Max(s) \in 1..(m + 1)
      BY <3>2
    <3>4. \A y \in s : y # Max(s) => y \in 1..m
      BY <2>1, <3>3
    <3> QED
      BY <3>4
  <2>5. \A s \in SUBSET (1..(m + 1)) : s # {} => new[s \ {Max(s)}] = it[s \ {Max(s)}]
    BY <2>3, <2>4
  <2>6. \A s \in SUBSET (1..(m + 1)) :
          new[s] = IF s = {} THEN base ELSE FoldStep(fold, p, it[s \ {Max(s)}], seq[Max(s)])
    OBVIOUS
  <2>7. \A s \in SUBSET (1..(m + 1)) :
          new[s] = IF s = {} THEN base ELSE FoldStep(fold, p, new[s \ {Max(s)}], seq[Max(s)])
    BY <2>5, <2>6
  <2>8. new = [s \in SUBSET (1..(m + 1)) |-> new[s]]
    OBVIOUS
  <2> HIDE DEF new
  <2>9. Folds(fold, p, base, seq, m + 1, new)
    BY <2>7, <2>8 DEF Folds
  <2> QED
    BY <2>1, <2>9
<1>3. T \in SUBSET Nat
  OBVIOUS
<1> HIDE DEF T
<1>4. T = Nat
  BY <1>1, <1>2, <1>3, NatSetInduction
<1> QED
  BY <1>4 DEF T

\* The values from one element of the sequence to the next.
Trace(fold, p, base, seq, n, g) ==
  /\ g[0] = base
  /\ \A k \in 1..n : g[k] = FoldStep(fold, p, g[k - 1], seq[k])

\* ... and gives the values between one element of the sequence and the next.
LEMMA FoldTrace ==
  ASSUME NEW fold, NEW p, NEW base, NEW seq, NEW n \in Nat, NEW it,
         Folds(fold, p, base, seq, n, it)
  PROVE  \E g : Trace(fold, p, base, seq, n, g) /\ g[n] = it[1..n]
<1> DEFINE g == [k \in 0..n |-> it[1..k]]
<1>1. g[0] = base
  <2>1. 1..0 = {} /\ {} \in SUBSET (1..n)
    OBVIOUS
  <2> QED
    BY <2>1 DEF Folds
<1>2. ASSUME NEW k \in 1..n PROVE g[k] = FoldStep(fold, p, g[k - 1], seq[k])
  <2>1. 1..k \in SUBSET (1..n) /\ 1..k # {} /\ 1..k \in SUBSET (0..k) /\ k \in Nat /\ k - 1 \in 0..n /\ k \in 0..n
    OBVIOUS
  <2>2. Max(1..k) \in 1..k /\ \A y \in 1..k : y <= Max(1..k)
    BY <2>1, MaxOf
  <2>3. Max(1..k) = k
    BY <2>1, <2>2
  <2>4. (1..k) \ {k} = 1..(k - 1)
    BY <2>1
  <2>5. it[1..k] = FoldStep(fold, p, it[(1..k) \ {Max(1..k)}], seq[Max(1..k)])
    BY <2>1 DEF Folds
  <2> QED
    BY <2>1, <2>3, <2>4, <2>5
<1>3. g[n] = it[1..n]
  OBVIOUS
<1> QED
  BY <1>1, <1>2, <1>3 DEF Trace

RunOf(bundle, outcomes, base) ==
  FoldLeftDomain(LAMBDA r, i : bundle_step(bundle, r, bundle.txs[i], outcomes[i]), base, bundle.txs)

\* Executable::execute_bundle executes one transaction after the other.
LEMMA BundleFold ==
  ASSUME NEW bundle, NEW outcomes, NEW base, NEW n \in Nat, DOMAIN bundle.txs = 1..n
  PROVE  \E g :
           /\ g[0] = base
           /\ \A k \in 1..n : g[k] = bundle_step(bundle, g[k - 1], bundle.txs[k], outcomes[k])
           /\ g[n] = RunOf(bundle, outcomes, base)
<1> DEFINE seq == [i \in DOMAIN bundle.txs |-> i]
           p == <<bundle, outcomes>>
           Eq(it) == it = [s \in SUBSET (1..n) |-> IF s = {} THEN base
                            ELSE bundle_step(bundle, it[s \ {Max(s)}], bundle.txs[seq[Max(s)]], outcomes[seq[Max(s)]])]
           itself == CHOOSE it : Eq(it)
<1>1. \A it : Folds("bundle", p, base, seq, n, it) <=> Eq(it)
  BY DEF Folds, FoldStep
<1>2. \E it : Eq(it)
  BY <1>1, FoldExists
<1>3. Eq(itself)
  BY <1>2
<1>4. RunOf(bundle, outcomes, base) = itself[1..n]
  BY DEF RunOf, FoldLeftDomain, FoldLeft, MapThenFoldSet
<1> HIDE DEF itself, seq, p
<1>5. Folds("bundle", p, base, seq, n, itself)
  BY <1>1, <1>3
<1>6. PICK g : Trace("bundle", p, base, seq, n, g) /\ g[n] = itself[1..n]
  BY <1>5, FoldTrace
<1>7. \A k \in 1..n : seq[k] = k
  BY DEF seq
<1>8. \A k \in 1..n : g[k] = bundle_step(bundle, g[k - 1], bundle.txs[k], outcomes[k])
  BY <1>6, <1>7 DEF Trace, FoldStep, p
<1> QED
  BY <1>4, <1>6, <1>8 DEF Trace

\* Discarded transactions are taken out one after the other.
LEMMA DropFold ==
  ASSUME NEW sq, NEW base, NEW n \in Nat, DOMAIN sq = 1..n
  PROVE  \E g : /\ g[0] = base
                /\ \A k \in 1..n : g[k] = without_transaction(g[k - 1], sq[k])
                /\ g[n] = FoldLeft(without_transaction, base, sq)
<1> DEFINE p == << >>
           seq == sq
           Eq(it) == it = [s \in SUBSET (1..n) |-> IF s = {} THEN base
                             ELSE without_transaction(it[s \ {Max(s)}], seq[Max(s)])]
           itself == CHOOSE it : Eq(it)
<1>1. \A it : Folds("drop", p, base, seq, n, it) <=> Eq(it)
  BY DEF Folds, FoldStep
<1>2. \E it : Eq(it)
  BY <1>1, FoldExists
<1>3. Eq(itself)
  BY <1>2
<1>4. FoldLeft(without_transaction, base, sq) = itself[1..n]
  BY DEF FoldLeft, MapThenFoldSet
<1> HIDE DEF itself, seq, p
<1>5. Folds("drop", p, base, seq, n, itself)
  BY <1>1, <1>3
<1>6. PICK g : Trace("drop", p, base, seq, n, g) /\ g[n] = itself[1..n]
  BY <1>5, FoldTrace
<1>7. \A k \in 1..n : g[k] = without_transaction(g[k - 1], sq[k])
  BY <1>6 DEF Trace, FoldStep, p, seq
<1> QED
  BY <1>4, <1>6, <1>7 DEF Trace

Reduced(failed, txs, bundle, results) ==
  FoldLeftDomain(LAMBDA b, i : IF i \in failed THEN without_transaction(b, txs[i]) ELSE b,
                 bundle, results)

\* So are optional ones that failed.
LEMMA ReduceFold ==
  ASSUME NEW failed, NEW txs, NEW results, NEW base, NEW n \in Nat, DOMAIN results = 1..n
  PROVE  \E g : /\ g[0] = base
                /\ \A k \in 1..n : g[k] = (IF k \in failed THEN without_transaction(g[k - 1], txs[k]) ELSE g[k - 1])
                /\ g[n] = Reduced(failed, txs, base, results)
<1> DEFINE p == <<failed, txs>>
           seq == [i \in DOMAIN results |-> i]
           Eq(it) == it = [s \in SUBSET (1..n) |-> IF s = {} THEN base
                             ELSE (IF seq[Max(s)] \in failed THEN without_transaction(it[s \ {Max(s)}], txs[seq[Max(s)]]) ELSE it[s \ {Max(s)}])]
           itself == CHOOSE it : Eq(it)
<1>1. \A it : Folds("reduce", p, base, seq, n, it) <=> Eq(it)
  BY DEF Folds, FoldStep
<1>2. \E it : Eq(it)
  BY <1>1, FoldExists
<1>3. Eq(itself)
  BY <1>2
<1>4. Reduced(failed, txs, base, results) = itself[1..n]
  BY DEF Reduced, FoldLeftDomain, FoldLeft, MapThenFoldSet
<1> HIDE DEF itself, seq, p
<1>5. Folds("reduce", p, base, seq, n, itself)
  BY <1>1, <1>3
<1>6. PICK g : Trace("reduce", p, base, seq, n, g) /\ g[n] = itself[1..n]
  BY <1>5, FoldTrace
<1>7. \A k \in 1..n : g[k] = (IF k \in failed THEN without_transaction(g[k - 1], txs[k]) ELSE g[k - 1])
  BY <1>6 DEF Trace, FoldStep, p, seq
<1> QED
  BY <1>4, <1>6, <1>7 DEF Trace

\* The state after executing transactions one after the other.
LEMMA ReplayFold ==
  ASSUME NEW sq, NEW base, NEW n \in Nat, DOMAIN sq = 1..n
  PROVE  \E g : /\ g[0] = base
                /\ \A k \in 1..n : g[k] = committed(g[k - 1], effects(g[k - 1], sq[k].tx, sq[k].outcome))
                /\ g[n] = FoldLeft(LAMBDA st, r : committed(st, effects(st, r.tx, r.outcome)), base, sq)
<1> DEFINE p == << >>
           seq == sq
           Eq(it) == it = [s \in SUBSET (1..n) |-> IF s = {} THEN base
                             ELSE committed(it[s \ {Max(s)}], effects(it[s \ {Max(s)}], seq[Max(s)].tx, seq[Max(s)].outcome))]
           itself == CHOOSE it : Eq(it)
<1>1. \A it : Folds("replay", p, base, seq, n, it) <=> Eq(it)
  BY DEF Folds, FoldStep
<1>2. \E it : Eq(it)
  BY <1>1, FoldExists
<1>3. Eq(itself)
  BY <1>2
<1>4. FoldLeft(LAMBDA st, r : committed(st, effects(st, r.tx, r.outcome)), base, sq) = itself[1..n]
  BY DEF FoldLeft, MapThenFoldSet
<1> HIDE DEF itself, seq, p
<1>5. Folds("replay", p, base, seq, n, itself)
  BY <1>1, <1>3
<1>6. PICK g : Trace("replay", p, base, seq, n, g) /\ g[n] = itself[1..n]
  BY <1>5, FoldTrace
<1>7. \A k \in 1..n : g[k] = committed(g[k - 1], effects(g[k - 1], sq[k].tx, sq[k].outcome))
  BY <1>6 DEF Trace, FoldStep, p, seq
<1> QED
  BY <1>4, <1>6, <1>7 DEF Trace

(***************************************************************************)
(* What an execution gives                                                 *)
(***************************************************************************)

\* An account that is destroyed has no nonce.
Account == [info : Nat \cup {NoAccount}, slot : Int]

StateSet == [Addresses -> Account]

ChangesSet == UNION {[A -> Account] : A \in SUBSET Addresses}

ResultSet == [tx : TxSet, outcome : {"Success", "Revert"}]

Executed(kind, sources) ==
  [kind : {kind}, executable : sources, source : sources, results : Seq(ResultSet),
   state : ChangesSet]

Orders == Executed("transaction", TxSet) \cup Executed("bundle", BundleSet)

Mutations == Orders \cup {Barrier}

\* The transactions that a mutation brings into the payload.
TxsOf(m) ==
  CASE m.kind = "barrier"     -> << >>
    [] m.kind = "transaction" -> <<m.source>>
    [] m.kind = "bundle"      -> m.source.txs

\* effects gives changes.
LEMMA EffectsType ==
  ASSUME NEW state \in StateSet, NEW tx \in TxSet, NEW result
  PROVE  effects(state, tx, result) \in ChangesSet
<1>1. tx.signer \in Addresses /\ tx.target \in Addresses /\ tx.nonce \in Nat /\ tx.write \in Int
  BY SignersAreAccounts DEF TxSet
<1>2. state[tx.target] \in Account
  BY <1>1 DEF StateSet
<1>3. None \in Int /\ NoAccount \in Int
  BY DEF None, NoAccount
<1> DEFINE signer == [info |-> tx.nonce + 1, slot |-> None]
           target == [info |-> IF tx.write = None THEN NoAccount ELSE state[tx.target].info,
                      slot |-> tx.write]
<1>4. signer \in Account /\ target \in Account
  BY <1>1, <1>2, <1>3 DEF Account
<1> HIDE DEF signer, target
<1>5. \/ effects(state, tx, result) = [a \in {tx.signer, tx.target} |-> IF a = tx.signer THEN signer ELSE target]
      \/ effects(state, tx, result) = [a \in {tx.signer} |-> signer]
  BY DEF effects, signer, target
<1>6. [a \in {tx.signer, tx.target} |-> IF a = tx.signer THEN signer ELSE target]
        \in [{tx.signer, tx.target} -> Account]
  BY <1>4
<1>7. [a \in {tx.signer} |-> signer] \in [{tx.signer} -> Account]
  BY <1>4
<1>8. {tx.signer, tx.target} \in SUBSET Addresses /\ {tx.signer} \in SUBSET Addresses
  BY <1>1
<1> QED
  BY <1>5, <1>6, <1>7, <1>8 DEF ChangesSet

\* committed gives a state.
LEMMA CommittedType ==
  ASSUME NEW state \in StateSet, NEW made \in ChangesSet
  PROVE  committed(state, made) \in StateSet
<1>1. \A a \in DOMAIN made : made[a] \in Account
  BY DEF ChangesSet
<1>2. \A a \in Addresses : state[a] \in Account
  BY DEF StateSet
<1>3. \A x \in Account : x = [info |-> x.info, slot |-> x.slot] /\ x.info \in Nat \cup {NoAccount} /\ x.slot \in Int
  BY DEF Account
<1>4. \A i \in Nat \cup {NoAccount}, s \in Int : [info |-> i, slot |-> s] \in Account
  BY DEF Account
<1>5. NoAccount \in Nat \cup {NoAccount} /\ 0 \in Int
  OBVIOUS
<1>6. ASSUME NEW a \in Addresses
      PROVE  (IF a \notin DOMAIN made THEN state[a]
     ELSE IF made[a].info = NoAccount THEN [info |-> NoAccount, slot |-> 0]
     ELSE [info |-> made[a].info,
           slot |-> IF made[a].slot = None THEN state[a].slot ELSE made[a].slot]) \in Account
  BY <1>1, <1>2, <1>3, <1>4, <1>5
<1> QED
  BY <1>6 DEF committed, StateSet

\* merged gives changes.
LEMMA MergedType ==
  ASSUME NEW old \in ChangesSet, NEW new \in ChangesSet
  PROVE  merged(old, new) \in ChangesSet
<1>1. PICK A \in SUBSET Addresses, B \in SUBSET Addresses : old \in [A -> Account] /\ new \in [B -> Account]
  BY DEF ChangesSet
<1>2. DOMAIN old = A /\ DOMAIN new = B /\ A \cup B \in SUBSET Addresses
  BY <1>1
<1>3. \A x, y \in Account : [x EXCEPT !.slot = y.slot] \in Account
  BY DEF Account
<1>4. \A a \in A : old[a] \in Account
  BY <1>1
<1>5. \A a \in B : new[a] \in Account
  BY <1>1
<1>6. ASSUME NEW a \in A \cup B
      PROVE  (IF a \notin DOMAIN new THEN old[a]
              ELSE IF /\ a \in DOMAIN old
                      /\ new[a].slot = None
                      /\ new[a].info # NoAccount
                   THEN [new[a] EXCEPT !.slot = old[a].slot]
                   ELSE new[a]) \in Account
  BY <1>2, <1>3, <1>4, <1>5
<1>7. merged(old, new) \in [A \cup B -> Account]
  BY <1>2, <1>6 DEF merged
<1> QED
  BY <1>2, <1>7 DEF ChangesSet

\* Executable::execute_transaction: a transaction that has its signer's nonce.
LEMMA ExecuteTransaction ==
  ASSUME NEW tx \in TxSet, NEW state \in StateSet, NEW outcome \in Outcomes, NEW e,
         e = execute_transaction(tx, state, outcome), e.error = "none"
  PROVE  /\ e.mutation \in Executed("transaction", TxSet)
         /\ e.mutation.kind = "transaction"
         /\ e.mutation.executable = tx
         /\ e.mutation.source = tx
         /\ e.mutation.results = <<[tx |-> tx, outcome |-> outcome]>>
         /\ e.mutation.state = effects(state, tx, outcome)
         /\ outcome # "Invalid"
         /\ state[tx.signer].info = tx.nonce
<1>1. transact(state, tx, outcome) # "Invalid"
  BY DEF execute_transaction, Failed
<1>2. /\ transact(state, tx, outcome) = outcome
      /\ outcome # "Invalid"
      /\ state[tx.signer].info = tx.nonce
  BY <1>1 DEF transact
<1>3. e.mutation = [kind |-> "transaction", executable |-> tx, source |-> tx,
                    results |-> <<[tx |-> tx, outcome |-> outcome]>>,
                    state |-> effects(state, tx, outcome)]
  BY <1>1, <1>2 DEF execute_transaction, Result
<1>4. [tx |-> tx, outcome |-> outcome] \in ResultSet
  BY <1>2 DEF ResultSet, Outcomes
<1>5. \A r \in ResultSet : <<r>> \in Seq(ResultSet)
  OBVIOUS
<1>6. effects(state, tx, outcome) \in ChangesSet
  BY EffectsType
<1> QED
  BY <1>2, <1>3, <1>4, <1>5, <1>6 DEF Executed

(***************************************************************************)
(* Executing one transaction after the other                               *)
(***************************************************************************)

Replay(all) == FoldLeft(LAMBDA s, r : committed(s, effects(s, r.tx, r.outcome)), Base, all)

\* Nothing executed is the state of the parent block.
LEMMA ReplayEmpty == Replay(<< >>) = Base
<1>1. DOMAIN << >> = 1..0 /\ 0 \in Nat
  OBVIOUS
<1>2. \E g : /\ g[0] = Base
             /\ g[0] = FoldLeft(LAMBDA st, r : committed(st, effects(st, r.tx, r.outcome)), Base, << >>)
  BY <1>1, ReplayFold
<1> QED
  BY <1>2 DEF Replay

\* One more transaction changes the state after all others.
LEMMA ReplayAppend ==
  ASSUME NEW S, NEW all \in Seq(S), NEW x \in S
  PROVE  Replay(Append(all, x)) = committed(Replay(all), effects(Replay(all), x.tx, x.outcome))
<1> DEFINE n == Len(all)
           more == Append(all, x)
<1>1. /\ n \in Nat /\ n + 1 \in Nat
      /\ DOMAIN all = 1..n
      /\ DOMAIN more = 1..(n + 1)
      /\ \A k \in 1..n : more[k] = all[k]
      /\ more[n + 1] = x
  OBVIOUS
<1> HIDE DEF n, more
<1>2. PICK g : /\ g[0] = Base
               /\ \A k \in 1..n : g[k] = committed(g[k - 1], effects(g[k - 1], all[k].tx, all[k].outcome))
               /\ g[n] = FoldLeft(LAMBDA st, r : committed(st, effects(st, r.tx, r.outcome)), Base, all)
  BY <1>1, ReplayFold
<1>3. PICK h : /\ h[0] = Base
               /\ \A k \in 1..(n + 1) : h[k] = committed(h[k - 1], effects(h[k - 1], more[k].tx, more[k].outcome))
               /\ h[n + 1] = FoldLeft(LAMBDA st, r : committed(st, effects(st, r.tx, r.outcome)), Base, more)
  BY <1>1, ReplayFold
<1> DEFINE T == {k \in Nat : k <= n => g[k] = h[k]}
<1>4. 0 \in T
  BY <1>2, <1>3
<1>5. ASSUME NEW k \in T PROVE k + 1 \in T
  <2>1. k \in Nat /\ k + 1 \in Nat /\ (k + 1) - 1 = k
    OBVIOUS
  <2>2. k + 1 <= n => /\ k + 1 \in 1..n /\ k + 1 \in 1..(n + 1) /\ k <= n
    BY <1>1, <2>1
  <2>3. k + 1 <= n => more[k + 1] = all[k + 1]
    BY <1>1, <2>2
  <2> QED
    BY <1>2, <1>3, <2>1, <2>2, <2>3
<1>6. T \in SUBSET Nat
  OBVIOUS
<1>7. T = Nat
  <2> HIDE DEF T
  <2> QED
    BY <1>4, <1>5, <1>6, NatSetInduction
<1>8. g[n] = h[n]
  BY <1>1, <1>7
<1>9. h[n + 1] = committed(h[n], effects(h[n], x.tx, x.outcome))
  <2>1. n + 1 \in 1..(n + 1) /\ (n + 1) - 1 = n
    BY <1>1
  <2> QED
    BY <1>1, <1>3, <2>1
<1>10. Replay(all) = g[n]
  BY <1>2 DEF Replay
<1>11. Replay(more) = h[n + 1]
  BY <1>3 DEF Replay
<1> QED
  BY <1>8, <1>9, <1>10, <1>11 DEF more

(***************************************************************************)
(* Sequences in a row                                                      *)
(***************************************************************************)

\* One more sequence comes behind all others.
LEMMA FlattenAppend ==
  ASSUME NEW S, NEW seqs \in Seq(Seq(S)), NEW s \in Seq(S)
  PROVE  /\ FlattenSeq(seqs) \in Seq(S)
         /\ FlattenSeq(Append(seqs, s)) = FlattenSeq(seqs) \o s
<1> DEFINE Eq(ss, m, f) == f = [i \in 1..m |-> IF i = 1 THEN ss[i] ELSE f[i - 1] \o ss[i]]
<1>1. ASSUME NEW ss, NEW n \in Nat
      PROVE  \E f : Eq(ss, n, f)
  <2> DEFINE T == {m \in Nat : \E f : Eq(ss, m, f)}
  <2>1. 0 \in T
    <3> DEFINE f0 == [i \in 1..0 |-> 0]
    <3>1. Eq(ss, 0, f0)
      OBVIOUS
    <3> QED
      BY <3>1
  <2>2. ASSUME NEW m \in T PROVE m + 1 \in T
    <3>1. m \in Nat /\ m + 1 \in Nat
      OBVIOUS
    <3>2. PICK f : Eq(ss, m, f)
      OBVIOUS
    <3> DEFINE g == [i \in 1..(m + 1) |-> IF i = 1 THEN ss[i] ELSE f[i - 1] \o ss[i]]
    <3>3. ASSUME NEW i \in 1..m PROVE i \in 1..(m + 1) /\ g[i] = f[i]
      <4>1. i \in 1..(m + 1)
        BY <3>1
      <4>2. f[i] = IF i = 1 THEN ss[i] ELSE f[i - 1] \o ss[i]
        BY <3>2
      <4> QED
        BY <4>1, <4>2
    <3>4. \A i \in 1..(m + 1) : i # 1 => i - 1 \in 1..m
      BY <3>1
    <3>5. \A i \in 1..(m + 1) : g[i] = IF i = 1 THEN ss[i] ELSE f[i - 1] \o ss[i]
      OBVIOUS
    <3>6. \A i \in 1..(m + 1) : g[i] = IF i = 1 THEN ss[i] ELSE g[i - 1] \o ss[i]
      BY <3>3, <3>4, <3>5
    <3>7. g = [i \in 1..(m + 1) |-> g[i]]
      OBVIOUS
    <3> HIDE DEF g
    <3>8. Eq(ss, m + 1, g)
      BY <3>6, <3>7
    <3> QED
      BY <3>1, <3>8
  <2>3. T \in SUBSET Nat
    OBVIOUS
  <2>4. T = Nat
    <3> HIDE DEF T
    <3> QED
      BY <2>1, <2>2, <2>3, NatSetInduction
  <2> QED
    BY <2>4
<1> DEFINE fl(ss) == CHOOSE f : Eq(ss, Len(ss), f)
<1>2. ASSUME NEW ss, Len(ss) \in Nat, Len(ss) # 0
      PROVE  /\ Eq(ss, Len(ss), fl(ss))
             /\ FlattenSeq(ss) = fl(ss)[Len(ss)]
  <2>1. \E f : Eq(ss, Len(ss), f)
    BY <1>1, <1>2
  <2>2. Eq(ss, Len(ss), fl(ss))
    BY <2>1
  <2>3. FlattenSeq(ss) = fl(ss)[Len(ss)]
    BY <1>2 DEF FlattenSeq
  <2> QED
    BY <2>2, <2>3
<1> HIDE DEF fl
<1> DEFINE n == Len(seqs)
           more == Append(seqs, s)
<1>3. /\ n \in Nat
      /\ Len(more) = n + 1
      /\ \A i \in 1..n : seqs[i] \in Seq(S) /\ more[i] = seqs[i]
      /\ more[n + 1] = s
  OBVIOUS
<1> HIDE DEF n, more
<1>4. CASE n = 0
  <2>1. seqs = << >>
    BY <1>4 DEF n
  <2>2. FlattenSeq(seqs) = << >>
    BY <2>1 DEF FlattenSeq
  <2>3. Eq(more, 1, fl(more)) /\ FlattenSeq(more) = fl(more)[1]
    <3>1. Len(more) = 1 /\ Len(more) \in Nat /\ Len(more) # 0
      BY <1>3, <1>4
    <3>2. Eq(more, Len(more), fl(more)) /\ FlattenSeq(more) = fl(more)[Len(more)]
      BY <1>2, <3>1
    <3> QED
      BY <3>1, <3>2
  <2>4. fl(more)[1] = s
    BY <1>3, <1>4, <2>3
  <2> QED
    BY <2>2, <2>3, <2>4 DEF more
<1>5. CASE n # 0
  <2>1. PICK f : Eq(seqs, n, f) /\ FlattenSeq(seqs) = f[n]
    BY <1>2, <1>3, <1>5 DEF n
  <2>2. PICK h : Eq(more, n + 1, h) /\ FlattenSeq(more) = h[n + 1]
    <3>1. Len(more) \in Nat /\ Len(more) # 0
      BY <1>3
    <3>2. Eq(more, Len(more), fl(more)) /\ FlattenSeq(more) = fl(more)[Len(more)]
      BY <1>2, <3>1
    <3>3. Eq(more, n + 1, fl(more)) /\ FlattenSeq(more) = fl(more)[n + 1]
      BY <1>3, <3>2
    <3> QED
      BY <3>3
  <2>3. \A i \in 1..n : f[i] = IF i = 1 THEN seqs[i] ELSE f[i - 1] \o seqs[i]
    BY <2>1
  <2>4. \A i \in 1..(n + 1) : h[i] = IF i = 1 THEN more[i] ELSE h[i - 1] \o more[i]
    BY <2>2
  <2> DEFINE T == {i \in Nat : i + 1 <= n => f[i + 1] = h[i + 1] /\ f[i + 1] \in Seq(S)}
  <2>5. 0 \in T
    <3>1. 1 \in 1..n /\ 1 \in 1..(n + 1)
      BY <1>3, <1>5
    <3> QED
      BY <1>3, <2>3, <2>4, <3>1
  <2>6. ASSUME NEW i \in T PROVE i + 1 \in T
    <3>1. i \in Nat /\ i + 1 \in Nat
      OBVIOUS
    <3> SUFFICES ASSUME (i + 1) + 1 <= n
                 PROVE  f[(i + 1) + 1] = h[(i + 1) + 1] /\ f[(i + 1) + 1] \in Seq(S)
      BY <3>1
    <3>2. PICK j : j = (i + 1) + 1
      OBVIOUS
    <3>3. /\ j \in 1..n /\ j \in 1..(n + 1) /\ j # 1 /\ j - 1 = i + 1 /\ i + 1 <= n
      BY <1>3, <3>1, <3>2
    <3>4. f[j - 1] = h[j - 1] /\ f[j - 1] \in Seq(S)
      BY <3>3
    <3>5. f[j] = f[j - 1] \o seqs[j] /\ h[j] = h[j - 1] \o more[j]
      BY <2>3, <2>4, <3>3
    <3>6. seqs[j] \in Seq(S) /\ more[j] = seqs[j]
      BY <1>3, <3>3
    <3>7. f[j] = h[j]
      BY <3>4, <3>5, <3>6
    <3>8. f[j] \in Seq(S)
      BY <3>4, <3>5, <3>6, ConcatProperties
    <3> QED
      BY <3>2, <3>7, <3>8
  <2>7. T \in SUBSET Nat
    OBVIOUS
  <2>8. T = Nat
    <3> HIDE DEF T
    <3> QED
      BY <2>5, <2>6, <2>7, NatSetInduction
  <2>9. n - 1 \in Nat /\ (n - 1) + 1 = n
    BY <1>3, <1>5
  <2>10. f[n] = h[n] /\ f[n] \in Seq(S)
    <3>1. n - 1 \in T
      <4> HIDE DEF T
      <4> QED
        BY <2>8, <2>9
    <3>2. n <= n
      BY <1>3
    <3> QED
      BY <2>9, <3>1, <3>2
  <2>11. n + 1 \in 1..(n + 1) /\ n + 1 # 1 /\ (n + 1) - 1 = n
    BY <1>3, <1>5
  <2>12. h[n + 1] = h[n] \o s
    BY <1>3, <2>4, <2>11
  <2> QED
    BY <2>1, <2>2, <2>10, <2>12 DEF more
<1> QED
  BY <1>4, <1>5

(***************************************************************************)
(* Executing a transaction on a state that follows from those before it    *)
(***************************************************************************)

\* A transaction that does not destroy the account.
Spares(tx, outcome, a) == tx.target = a /\ outcome = "Success" => tx.write # None

\* Nothing that was executed destroyed the account.
Undestroyed(all, a) == \A i \in DOMAIN all : Spares(all[i].tx, all[i].outcome, a)

\* The first n transactions of a signer.
SentBy(all, n, a) == {j \in 1..n : all[j].tx.signer = a}

\* Every transaction has the nonce that its signer has then.
NoncesFollow(all) ==
  \A i \in DOMAIN all :
    all[i].tx.nonce = Base[all[i].tx.signer].info + Cardinality(SentBy(all, i - 1, all[i].tx.signer))

\* The state of a payload: its nonces are the next ones, and what executing the whole
\* payload gives is there, but for destroyed accounts.
Follows(all, state) ==
  /\ NoncesFollow(all)
  /\ \A a \in Signers : state[a].info = Base[a].info + Cardinality(SentBy(all, Len(all), a))
  /\ \A a \in Addresses : Undestroyed(all, a) => state[a] = Replay(all)[a]

\* No signer is destroyed.
LEMMA SignersStay ==
  ASSUME NEW all \in Seq(ResultSet), NEW a \in Signers
  PROVE  Undestroyed(all, a) /\ a \in Addresses
<1>1. \A i \in DOMAIN all : all[i] \in ResultSet
  OBVIOUS
<1>2. \A r \in ResultSet : r.tx.write = None => r.tx.target \notin Signers
  BY DEF ResultSet, TxSet
<1> QED
  BY <1>1, <1>2, SignersAreAccounts DEF Undestroyed, Spares

\* Only what is not destroyed matters.
LEMMA FollowsWith ==
  ASSUME NEW all \in Seq(ResultSet), NEW state, NEW other, Follows(all, state),
         \A a \in Addresses : Undestroyed(all, a) => other[a] = state[a]
  PROVE  Follows(all, other)
<1>1. \A a \in Signers : other[a] = state[a]
  BY SignersStay
<1> QED
  BY <1>1 DEF Follows

\* There are finitely many of them.
LEMMA SentByFinite ==
  ASSUME NEW all, NEW n \in Nat, NEW a
  PROVE  IsFiniteSet(SentBy(all, n, a)) /\ Cardinality(SentBy(all, n, a)) \in Nat
<1>1. IsFiniteSet(1..n)
  BY FS_Interval
<1>2. SentBy(all, n, a) \subseteq 1..n
  BY DEF SentBy
<1>3. IsFiniteSet(SentBy(all, n, a))
  BY <1>1, <1>2, FS_Subset
<1> QED
  BY <1>3, FS_CardinalityType

\* One more transaction of a signer.
LEMMA SentByAppend ==
  ASSUME NEW all \in Seq(ResultSet), NEW r \in ResultSet, NEW a
  PROVE  /\ \A n \in 0..Len(all) : SentBy(Append(all, r), n, a) = SentBy(all, n, a)
         /\ Cardinality(SentBy(Append(all, r), Len(all) + 1, a)) =
              Cardinality(SentBy(all, Len(all), a)) + IF r.tx.signer = a THEN 1 ELSE 0
<1> DEFINE more == Append(all, r)
           n == Len(all)
<1>1. n \in Nat /\ \A j \in 1..n : more[j] = all[j]
  OBVIOUS
<1>2. more[n + 1] = r
  OBVIOUS
<1> HIDE DEF more, n
<1>3. ASSUME NEW m \in 0..n PROVE SentBy(more, m, a) = SentBy(all, m, a)
  <2>1. \A j \in 1..m : j \in 1..n
    BY <1>1
  <2> QED
    BY <1>1, <2>1 DEF SentBy
<1>4. SentBy(more, n + 1, a) = SentBy(all, n, a) \cup (IF r.tx.signer = a THEN {n + 1} ELSE {})
  <2>1. ASSUME NEW j \in 1..(n + 1), j # n + 1 PROVE j \in 1..n
    BY <1>1, <2>1
  <2>2. ASSUME NEW j \in 1..n PROVE j \in 1..(n + 1) /\ j # n + 1
    BY <1>1
  <2>3. n + 1 \in 1..(n + 1)
    BY <1>1
  <2> QED
    BY <1>1, <1>2, <2>1, <2>2, <2>3 DEF SentBy
<1>5. n + 1 \notin SentBy(all, n, a)
  BY <1>1 DEF SentBy
<1>6. IsFiniteSet(SentBy(all, n, a)) /\ Cardinality(SentBy(all, n, a)) \in Nat
  BY <1>1, SentByFinite
<1>7. Cardinality(SentBy(all, n, a) \cup {n + 1}) = Cardinality(SentBy(all, n, a)) + 1
  BY <1>5, <1>6, FS_AddElement
<1>8. Cardinality(SentBy(more, n + 1, a)) =
        Cardinality(SentBy(all, n, a)) + IF r.tx.signer = a THEN 1 ELSE 0
  <2>1. CASE r.tx.signer = a
    BY <1>4, <1>7, <2>1
  <2>2. CASE r.tx.signer # a
    <3>1. SentBy(more, n + 1, a) = SentBy(all, n, a)
      BY <1>4, <2>2
    <3> QED
      BY <1>6, <3>1, <2>2
  <2> QED
    BY <2>1, <2>2
<1> QED
  BY <1>3, <1>8 DEF more, n

EffectAt(state, tx, outcome, a, e) ==
  /\ a = tx.signer => a \in DOMAIN e /\ e[a] = [info |-> tx.nonce + 1, slot |-> None]
  /\ a # tx.signer /\ a = tx.target /\ outcome = "Success" /\ state[a].info # NoAccount
       => a \in DOMAIN e /\ e[a] = [info |-> state[a].info, slot |-> tx.write]
  /\ a # tx.signer /\ ~(a = tx.target /\ outcome = "Success" /\ state[a].info # NoAccount)
       => a \notin DOMAIN e
  /\ a \in DOMAIN e => e[a].info # NoAccount

\* What a transaction that is executed does to an account.
LEMMA EffectOn ==
  ASSUME NEW state \in StateSet, NEW tx \in TxSet, NEW outcome \in {"Success", "Revert"},
         NEW a \in Addresses, Spares(tx, outcome, a),
         NEW e, e = effects(state, tx, outcome)
  PROVE  EffectAt(state, tx, outcome, a, e)
<1>1. tx.nonce + 1 # NoAccount
  BY DEF TxSet, NoAccount
<1> DEFINE signer == [info |-> tx.nonce + 1, slot |-> None]
           target == [info |-> IF tx.write = None THEN NoAccount ELSE state[tx.target].info,
                      slot |-> tx.write]
           writes == outcome = "Success" /\ state[tx.target].info # NoAccount
<1>2. e = IF writes THEN [b \in {tx.signer, tx.target} |-> IF b = tx.signer THEN signer ELSE target]
          ELSE [b \in {tx.signer} |-> signer]
  BY DEF effects
<1>3. signer.info # NoAccount
  BY <1>1
<1>4. a = tx.target /\ writes => target = [info |-> state[a].info, slot |-> tx.write] /\ target.info # NoAccount
  BY DEF Spares
<1> HIDE DEF signer, target, writes
<1>5. a = tx.signer => a \in DOMAIN e /\ e[a] = signer
  BY <1>2
<1>6. a # tx.signer /\ a = tx.target /\ writes => a \in DOMAIN e /\ e[a] = target
  BY <1>2
<1>7. a # tx.signer /\ ~(a = tx.target /\ writes) => a \notin DOMAIN e
  BY <1>2
<1>8. a \in DOMAIN e => e[a].info # NoAccount
  BY <1>3, <1>4, <1>5, <1>6, <1>7
<1>9. a # tx.signer /\ a = tx.target /\ writes => a \in DOMAIN e /\ e[a] = [info |-> state[a].info, slot |-> tx.write]
  BY <1>4, <1>6
<1> QED
  BY <1>5, <1>7, <1>8, <1>9 DEF EffectAt, signer, writes

\* Executing transactions gives a state.
LEMMA ReplayType ==
  ASSUME NEW all \in Seq(ResultSet)
  PROVE  Replay(all) \in StateSet
<1> DEFINE n == Len(all)
<1>1. n \in Nat /\ DOMAIN all = 1..n /\ \A k \in 1..n : all[k] \in ResultSet
  OBVIOUS
<1> HIDE DEF n
<1>2. PICK g : /\ g[0] = Base
               /\ \A k \in 1..n : g[k] = committed(g[k - 1], effects(g[k - 1], all[k].tx, all[k].outcome))
               /\ g[n] = FoldLeft(LAMBDA st, r : committed(st, effects(st, r.tx, r.outcome)), Base, all)
  BY <1>1, ReplayFold
<1> DEFINE T == {k \in Nat : k <= n => g[k] \in StateSet}
<1>3. 0 \in T
  <2>1. \A x \in [info : Nat, slot : Nat] : x \in Account
    BY DEF Account
  <2>2. Base \in StateSet
    BY <2>1, BaseIsState DEF StateSet
  <2> QED
    BY <1>2, <2>2
<1>4. ASSUME NEW k \in T PROVE k + 1 \in T
  <2>1. k \in Nat /\ k + 1 \in Nat /\ (k + 1) - 1 = k
    OBVIOUS
  <2> SUFFICES ASSUME k + 1 <= n PROVE g[k + 1] \in StateSet
    BY <2>1
  <2>2. k + 1 \in 1..n /\ k <= n
    BY <1>1, <2>1
  <2>3. g[k] \in StateSet
    BY <2>2
  <2>4. all[k + 1].tx \in TxSet
    BY <1>1, <2>2 DEF ResultSet
  <2>5. effects(g[k], all[k + 1].tx, all[k + 1].outcome) \in ChangesSet
    BY <2>3, <2>4, EffectsType
  <2>6. committed(g[k], effects(g[k], all[k + 1].tx, all[k + 1].outcome)) \in StateSet
    BY <2>3, <2>5, CommittedType
  <2> QED
    BY <1>2, <2>1, <2>2, <2>6
<1>5. T \in SUBSET Nat
  OBVIOUS
<1>6. T = Nat
  <2> HIDE DEF T
  <2> QED
    BY <1>3, <1>4, <1>5, NatSetInduction
<1>7. g[n] \in StateSet
  BY <1>1, <1>6
<1> QED
  BY <1>2, <1>7 DEF Replay

\* What a transaction does to an account that it does not destroy depends on this account
\* alone.
LEMMA SameEffect ==
  ASSUME NEW state \in StateSet, NEW other \in StateSet, NEW tx \in TxSet,
         NEW outcome \in {"Success", "Revert"}, NEW a \in Addresses,
         Spares(tx, outcome, a),
         state[a] = other[a]
  PROVE  /\ committed(state, effects(state, tx, outcome))[a] =
              committed(other, effects(other, tx, outcome))[a]
         /\ committed(state, effects(state, tx, outcome))[a].info =
              IF a = tx.signer THEN tx.nonce + 1 ELSE state[a].info
<1> DEFINE Acc(s, e) == IF a \notin DOMAIN e THEN s[a]
                        ELSE IF e[a].info = NoAccount THEN [info |-> NoAccount, slot |-> 0]
                        ELSE [info |-> e[a].info,
                              slot |-> IF e[a].slot = None THEN s[a].slot ELSE e[a].slot]
<1>1. /\ committed(state, effects(state, tx, outcome))[a] = Acc(state, effects(state, tx, outcome))
      /\ committed(other, effects(other, tx, outcome))[a] = Acc(other, effects(other, tx, outcome))
  BY DEF committed
<1>2. PICK e : e = effects(state, tx, outcome)
  OBVIOUS
<1>3. PICK f : f = effects(other, tx, outcome)
  OBVIOUS
<1> HIDE DEF Acc
<1>7. EffectAt(state, tx, outcome, a, e) /\ EffectAt(other, tx, outcome, a, f)
  BY <1>2, <1>3, EffectOn
<1> USE DEF Acc
<1>4. CASE a = tx.signer
  <2>1. a \in DOMAIN e /\ e[a] = [info |-> tx.nonce + 1, slot |-> None] /\ e[a].info # NoAccount
    BY <1>7, <1>4 DEF EffectAt
  <2>2. a \in DOMAIN f /\ f[a] = [info |-> tx.nonce + 1, slot |-> None] /\ f[a].info # NoAccount
    BY <1>7, <1>4 DEF EffectAt
  <2>3. Acc(state, e) = [info |-> tx.nonce + 1, slot |-> state[a].slot]
    BY <2>1
  <2>4. Acc(other, f) = [info |-> tx.nonce + 1, slot |-> other[a].slot]
    BY <2>2
  <2> QED
    BY <1>1, <1>2, <1>3, <1>4, <2>3, <2>4
<1>5. CASE a # tx.signer /\ a = tx.target /\ outcome = "Success" /\ state[a].info # NoAccount
  <2>1. a \in DOMAIN e /\ e[a] = [info |-> state[a].info, slot |-> tx.write] /\ e[a].info # NoAccount
    BY <1>7, <1>5 DEF EffectAt
  <2>2. a \in DOMAIN f /\ f[a] = [info |-> other[a].info, slot |-> tx.write] /\ f[a].info # NoAccount
    BY <1>7, <1>5 DEF EffectAt
  <2>3. Acc(state, e) = [info |-> state[a].info, slot |-> IF tx.write = None THEN state[a].slot ELSE tx.write]
    BY <2>1
  <2>4. Acc(other, f) = [info |-> other[a].info, slot |-> IF tx.write = None THEN other[a].slot ELSE tx.write]
    BY <2>2
  <2> QED
    BY <1>1, <1>2, <1>3, <1>5, <2>3, <2>4
<1>6. CASE a # tx.signer /\ ~(a = tx.target /\ outcome = "Success" /\ state[a].info # NoAccount)
  <2>1. a \notin DOMAIN e
    BY <1>7, <1>6 DEF EffectAt
  <2>2. a \notin DOMAIN f
    BY <1>7, <1>6 DEF EffectAt
  <2> QED
    BY <1>1, <1>2, <1>3, <1>6, <2>1, <2>2
<1> QED
  BY <1>4, <1>5, <1>6

\* One more transaction keeps it so.
LEMMA OneMore ==
  ASSUME NEW all \in Seq(ResultSet), NEW state \in StateSet, NEW tx \in TxSet,
         NEW outcome \in {"Success", "Revert"}, Follows(all, state),
         state[tx.signer].info = tx.nonce
  PROVE  Follows(Append(all, [tx |-> tx, outcome |-> outcome]),
                 committed(state, effects(state, tx, outcome)))
<1> DEFINE r == [tx |-> tx, outcome |-> outcome]
           more == Append(all, r)
           n == Len(all)
           new == committed(state, effects(state, tx, outcome))
<1>1. r \in ResultSet /\ r.tx = tx /\ r.outcome = outcome
  BY DEF ResultSet
<1> HIDE DEF r
<1>2. /\ n \in Nat /\ DOMAIN all = 1..n
      /\ DOMAIN more = 1..(n + 1) /\ Len(more) = n + 1
      /\ \A i \in 1..n : more[i] = all[i]
      /\ more[n + 1] = r
      /\ \A i \in 1..n : all[i] \in ResultSet
  BY <1>1
<1>3. \A a : /\ \A m \in 0..n : SentBy(more, m, a) = SentBy(all, m, a)
             /\ Cardinality(SentBy(more, n + 1, a)) =
                  Cardinality(SentBy(all, n, a)) + IF r.tx.signer = a THEN 1 ELSE 0
  BY <1>1, SentByAppend
<1>4. tx.signer \in Signers /\ tx.signer \in Addresses /\ tx.nonce \in Nat
  BY SignersAreAccounts DEF TxSet
<1>5. \A a \in Signers : Base[a].info \in Nat
  BY BaseIsState, SignersAreAccounts
<1>6. \A a : Cardinality(SentBy(all, n, a)) \in Nat
  BY <1>2, SentByFinite
<1>7. Replay(more) = committed(Replay(all), effects(Replay(all), tx, outcome))
  BY <1>1, ReplayAppend
<1>8. Replay(all) \in StateSet
  BY ReplayType
<1> HIDE DEF more, n, new
<1>9. ASSUME NEW a PROVE Undestroyed(more, a) => Undestroyed(all, a) /\ Spares(tx, outcome, a)
  <2>1. \A i \in 1..n : i \in 1..(n + 1)
    BY <1>2
  <2>2. n + 1 \in 1..(n + 1)
    BY <1>2
  <2>3. Undestroyed(more, a) => Undestroyed(all, a)
    BY <1>2, <2>1 DEF Undestroyed
  <2>4. Undestroyed(more, a) => Spares(tx, outcome, a)
    BY <1>1, <1>2, <2>2 DEF Undestroyed
  <2> QED
    BY <2>3, <2>4
<1>10. NoncesFollow(more)
  <2> SUFFICES ASSUME NEW i \in 1..(n + 1)
               PROVE  more[i].tx.nonce = Base[more[i].tx.signer].info
                        + Cardinality(SentBy(more, i - 1, more[i].tx.signer))
    BY <1>2 DEF NoncesFollow
  <2>1. CASE i \in 1..n
    <3>1. more[i] = all[i] /\ i - 1 \in 0..n
      BY <1>2, <2>1
    <3>2. SentBy(more, i - 1, all[i].tx.signer) = SentBy(all, i - 1, all[i].tx.signer)
      BY <1>3, <3>1
    <3>3. all[i].tx.nonce = Base[all[i].tx.signer].info + Cardinality(SentBy(all, i - 1, all[i].tx.signer))
      BY <1>2, <2>1 DEF Follows, NoncesFollow
    <3> QED
      BY <3>1, <3>2, <3>3
  <2>2. CASE i = n + 1
    <3>1. more[i].tx = tx /\ i - 1 = n /\ n \in 0..n
      BY <1>1, <1>2, <2>2
    <3>2. SentBy(more, n, tx.signer) = SentBy(all, n, tx.signer)
      BY <1>3, <3>1
    <3>3. state[tx.signer].info = Base[tx.signer].info + Cardinality(SentBy(all, n, tx.signer))
      BY <1>4 DEF Follows, n
    <3> QED
      BY <3>1, <3>2, <3>3
  <2> QED
    BY <1>2, <2>1, <2>2
<1>11. ASSUME NEW a \in Signers
       PROVE  new[a].info = Base[a].info + Cardinality(SentBy(more, n + 1, a))
  <2>1. more \in Seq(ResultSet)
    BY <1>1 DEF more
  <2>2. Undestroyed(more, a) /\ a \in Addresses
    BY <2>1, SignersStay
  <2>3. new[a].info = IF a = tx.signer THEN tx.nonce + 1 ELSE state[a].info
    <3>1. Spares(tx, outcome, a)
      BY <1>9, <2>2
    <3>2. committed(state, effects(state, tx, outcome))[a].info =
            IF a = tx.signer THEN tx.nonce + 1 ELSE state[a].info
      BY <2>2, <3>1, SameEffect
    <3> QED
      BY <3>2 DEF new
  <2>4. state[a].info = Base[a].info + Cardinality(SentBy(all, n, a))
    BY DEF Follows, n
  <2>5. Cardinality(SentBy(more, n + 1, a)) =
          Cardinality(SentBy(all, n, a)) + IF tx.signer = a THEN 1 ELSE 0
    BY <1>1, <1>3
  <2> QED
    BY <1>5, <1>6, <2>3, <2>4, <2>5
<1>12. ASSUME NEW a \in Addresses, Undestroyed(more, a) PROVE new[a] = Replay(more)[a]
  <2>1. Undestroyed(all, a) /\ Spares(tx, outcome, a)
    BY <1>9, <1>12
  <2>2. state[a] = Replay(all)[a]
    BY <2>1 DEF Follows
  <2>3. committed(state, effects(state, tx, outcome))[a] =
          committed(Replay(all), effects(Replay(all), tx, outcome))[a]
    BY <1>8, <2>1, <2>2, SameEffect
  <2> QED
    BY <1>7, <2>3 DEF new
<1>13. Follows(more, new)
  BY <1>2, <1>10, <1>11, <1>12 DEF Follows
<1> QED
  BY <1>13 DEF more, new, r

\* Later changes on top of earlier ones, at an account that is not destroyed.
LEMMA MergeCommit ==
  ASSUME NEW state \in StateSet, NEW old \in ChangesSet, NEW new \in ChangesSet, NEW a \in Addresses,
         a \in DOMAIN old => old[a].info # NoAccount,
         a \in DOMAIN new => new[a].info # NoAccount,
         NEW db, db[a] = committed(state, old)[a]
  PROVE  /\ committed(state, merged(old, new))[a] = committed(db, new)[a]
         /\ a \in DOMAIN merged(old, new) => merged(old, new)[a].info # NoAccount
<1> DEFINE m == merged(old, new)
<1>1. DOMAIN m = DOMAIN old \cup DOMAIN new
  BY DEF merged
<1>2. a \in DOMAIN m => m[a] = IF a \notin DOMAIN new THEN old[a]
                               ELSE IF a \in DOMAIN old /\ new[a].slot = None
                                    THEN [new[a] EXCEPT !.slot = old[a].slot] ELSE new[a]
  BY <1>1 DEF merged
<1> HIDE DEF m
<1>3. committed(state, m)[a] =
        IF a \notin DOMAIN m THEN state[a]
        ELSE IF m[a].info = NoAccount THEN [info |-> NoAccount, slot |-> 0]
        ELSE [info |-> m[a].info, slot |-> IF m[a].slot = None THEN state[a].slot ELSE m[a].slot]
  BY DEF committed
<1>4. committed(db, new)[a] =
        IF a \notin DOMAIN new THEN db[a]
        ELSE [info |-> new[a].info, slot |-> IF new[a].slot = None THEN db[a].slot ELSE new[a].slot]
  BY DEF committed
<1>5. db[a] =
        IF a \notin DOMAIN old THEN state[a]
        ELSE [info |-> old[a].info, slot |-> IF old[a].slot = None THEN state[a].slot ELSE old[a].slot]
  BY DEF committed
<1>6. a \in DOMAIN old => old[a] \in Account
  BY DEF ChangesSet
<1>7. a \in DOMAIN new => new[a] \in Account
  BY DEF ChangesSet
<1>9. CASE a \notin DOMAIN new
  BY <1>1, <1>2, <1>3, <1>4, <1>5, <1>9 DEF m
<1>10. CASE a \in DOMAIN new /\ a \in DOMAIN old /\ new[a].slot = None
  <2>1. m[a].info = new[a].info /\ m[a].slot = old[a].slot /\ a \in DOMAIN m
    <3>1. a \in DOMAIN m
      BY <1>1, <1>10
    <3>2. m[a] = [new[a] EXCEPT !.slot = old[a].slot]
      BY <1>2, <1>10, <3>1
    <3>3. new[a] \in Account /\ old[a] \in Account
      BY <1>6, <1>7, <1>10
    <3>4. m[a].info = new[a].info /\ m[a].slot = old[a].slot
      BY <3>2, <3>3 DEF Account
    <3> QED
      BY <3>1, <3>4
  <2>2. committed(state, m)[a] =
          [info |-> new[a].info, slot |-> IF old[a].slot = None THEN state[a].slot ELSE old[a].slot]
    BY <1>3, <1>10, <2>1
  <2>3. db[a].slot = IF old[a].slot = None THEN state[a].slot ELSE old[a].slot
    BY <1>5, <1>10
  <2>4. committed(db, new)[a] = [info |-> new[a].info, slot |-> db[a].slot]
    BY <1>4, <1>10
  <2> QED
    BY <1>10, <2>1, <2>2, <2>3, <2>4 DEF m
<1>11. CASE a \in DOMAIN new /\ ~(a \in DOMAIN old /\ new[a].slot = None)
  <2>1. m[a] = new[a] /\ a \in DOMAIN m
    BY <1>1, <1>2, <1>11
  <2>2. new[a].slot = None => db[a] = state[a]
    BY <1>5, <1>11
  <2>3. committed(state, m)[a] =
          [info |-> new[a].info, slot |-> IF new[a].slot = None THEN state[a].slot ELSE new[a].slot]
    BY <1>3, <1>11, <2>1
  <2> QED
    BY <1>4, <1>11, <2>1, <2>2, <2>3 DEF m
<1> QED
  BY <1>9, <1>10, <1>11

(***************************************************************************)
(* Executing a bundle                                                      *)
(***************************************************************************)

RunSet ==
  [db : StateSet, changes : ChangesSet, results : Seq(ResultSet), discarded : Seq(TxSet),
   error : {"none", "BundleTransactionReverted", "InvalidBundleTransaction"}]

\* The state in a bundle, the changes that lead there, and what was executed in it.
InStep(pre, state, r) ==
  /\ Follows(pre, state) => Follows(pre \o r.results, r.db)
  /\ \A a \in Addresses : Undestroyed(r.results, a) =>
       /\ r.db[a] = committed(state, r.changes)[a]
       /\ a \in DOMAIN r.changes => r.changes[a].info # NoAccount

\* What is in a bundle may fail, what is not is optional.
ByTheRules(bundle, r) ==
  /\ \A i \in DOMAIN r.results :
       r.results[i].outcome = "Success" \/ is_allowed_to_fail(bundle, r.results[i].tx)
  /\ \A i \in DOMAIN r.discarded : is_optional(bundle, r.discarded[i])

\* One transaction of a bundle that is included.
LEMMA Included ==
  ASSUME NEW bundle, NEW pre \in Seq(ResultSet), NEW state \in StateSet,
         NEW r \in RunSet, InStep(pre, state, r),
         NEW tx \in TxSet, NEW outcome \in {"Success", "Revert"},
         r.db[tx.signer].info = tx.nonce,
         NEW e, e = effects(r.db, tx, outcome),
         NEW new, new \in RunSet,
         new.results = Append(r.results, [tx |-> tx, outcome |-> outcome]),
         new.db = committed(r.db, e),
         new.changes = merged(r.changes, e)
  PROVE  InStep(pre, state, new)
<1> DEFINE x == [tx |-> tx, outcome |-> outcome]
<1>1. x \in ResultSet /\ x.tx = tx /\ x.outcome = outcome
  BY DEF ResultSet
<1> HIDE DEF x
<1>2. r.db \in StateSet /\ r.changes \in ChangesSet /\ r.results \in Seq(ResultSet)
  BY DEF RunSet
<1>3. pre \o r.results \in Seq(ResultSet)
  BY <1>2, ConcatProperties
<1>4. pre \o Append(r.results, x) = Append(pre \o r.results, x)
  BY <1>1, <1>2
<1>5. Follows(pre, state) => Follows(Append(pre \o r.results, x), committed(r.db, e))
  BY <1>2, <1>3, OneMore DEF InStep, x
<1>6. Follows(pre, state) => Follows(pre \o new.results, new.db)
  BY <1>4, <1>5 DEF x
<1>7. ASSUME NEW a \in Addresses, Undestroyed(new.results, a)
      PROVE  /\ new.db[a] = committed(state, new.changes)[a]
             /\ a \in DOMAIN new.changes => new.changes[a].info # NoAccount
  <2>1. new.results = Append(r.results, x)
    BY DEF x
  <2>2. PICK n \in Nat : /\ DOMAIN r.results = 1..n
                         /\ DOMAIN new.results = 1..(n + 1)
                         /\ \A i \in 1..n : new.results[i] = r.results[i]
                         /\ new.results[n + 1] = x
    BY <1>1, <1>2, <2>1
  <2>3. n + 1 \in 1..(n + 1) /\ \A i \in 1..n : i \in 1..(n + 1)
    OBVIOUS
  <2>4. Undestroyed(r.results, a)
    BY <1>7, <2>2, <2>3 DEF Undestroyed
  <2>5. Spares(tx, outcome, a)
    BY <1>1, <1>7, <2>2, <2>3 DEF Undestroyed
  <2>6. a \in DOMAIN e => e[a].info # NoAccount
    <3>1. EffectAt(r.db, tx, outcome, a, e)
      BY <1>2, <2>5, EffectOn
    <3> QED
      BY <3>1 DEF EffectAt
  <2>7. e \in ChangesSet
    BY <1>2, EffectsType
  <2>8. /\ r.db[a] = committed(state, r.changes)[a]
        /\ a \in DOMAIN r.changes => r.changes[a].info # NoAccount
    BY <2>4 DEF InStep
  <2>9. PICK db : db = r.db
    OBVIOUS
  <2>10. PICK old : old = r.changes
    OBVIOUS
  <2>11. /\ committed(state, merged(old, e))[a] = committed(db, e)[a]
         /\ a \in DOMAIN merged(old, e) => merged(old, e)[a].info # NoAccount
    BY <1>2, <2>6, <2>7, <2>8, <2>9, <2>10, MergeCommit
  <2> QED
    BY <2>9, <2>10, <2>11
<1> QED
  BY <1>6, <1>7 DEF InStep

\* One transaction of a bundle: included, discarded, or the end of the bundle.
LEMMA BundleStep ==
  ASSUME NEW bundle, NEW pre \in Seq(ResultSet), NEW state \in StateSet,
         NEW r \in RunSet, ByTheRules(bundle, r), r.error = "none" => InStep(pre, state, r),
         NEW tx \in TxSet, NEW outcome \in Outcomes,
         NEW new, new = bundle_step(bundle, r, tx, outcome)
  PROVE  /\ new \in RunSet
         /\ ByTheRules(bundle, new)
         /\ new.error = "none" => InStep(pre, state, new)
<1> DEFINE result == transact(r.db, tx, outcome)
           includes == result = "Success" \/ (result = "Revert" /\ is_allowed_to_fail(bundle, tx))
<1>1. CASE r.error # "none"
  BY <1>1 DEF bundle_step
<1>2. CASE r.error = "none" /\ includes
  <2>1. PICK res : res = result
    OBVIOUS
  <2>2. /\ r.db[tx.signer].info = tx.nonce
        /\ res \in {"Success", "Revert"}
        /\ res = "Success" \/ is_allowed_to_fail(bundle, tx)
    BY <1>2, <2>1 DEF transact
  <2>3. PICK e : e = effects(r.db, tx, res)
    OBVIOUS
  <2>4. PICK x : x = [tx |-> tx, outcome |-> res]
    OBVIOUS
  <2>5. new = [r EXCEPT !.results = Append(@, x), !.db = committed(@, e), !.changes = merged(@, e)]
    BY <1>2, <2>1, <2>3, <2>4 DEF bundle_step
  <2>6. x \in ResultSet /\ x.tx = tx /\ x.outcome = res
    BY <2>2, <2>4 DEF ResultSet
  <2>7. r.db \in StateSet /\ r.changes \in ChangesSet /\ r.results \in Seq(ResultSet) /\ r.discarded \in Seq(TxSet)
    BY DEF RunSet
  <2>8. e \in ChangesSet
    BY <2>3, <2>7, EffectsType
  <2>9. /\ committed(r.db, e) \in StateSet
        /\ merged(r.changes, e) \in ChangesSet
        /\ Append(r.results, x) \in Seq(ResultSet)
    BY <2>6, <2>7, <2>8, CommittedType, MergedType
  <2>10. /\ new.results = Append(r.results, x)
         /\ new.db = committed(r.db, e)
         /\ new.changes = merged(r.changes, e)
         /\ new.discarded = r.discarded
    BY <2>5 DEF RunSet
  <2>11. new \in RunSet
    BY <2>5, <2>9 DEF RunSet
  <2>12. InStep(pre, state, new)
    BY <1>2, <2>2, <2>3, <2>4, <2>10, <2>11, Included
  <2>13. ByTheRules(bundle, new)
    <3>1. \A i \in DOMAIN new.results : new.results[i] = x \/ (i \in DOMAIN r.results /\ new.results[i] = r.results[i])
      BY <2>6, <2>7, <2>10
    <3> QED
      BY <2>2, <2>6, <2>10, <3>1 DEF ByTheRules
  <2> QED
    BY <2>11, <2>12, <2>13
<1>3. CASE r.error = "none" /\ ~includes /\ is_optional(bundle, tx)
  <2>1. new = [r EXCEPT !.discarded = Append(@, tx)]
    BY <1>3 DEF bundle_step
  <2>2. r.discarded \in Seq(TxSet)
    BY DEF RunSet
  <2>3. Append(r.discarded, tx) \in Seq(TxSet)
    BY <2>2
  <2>4. new \in RunSet
    BY <2>1, <2>3 DEF RunSet
  <2>5. /\ new.results = r.results /\ new.db = r.db /\ new.changes = r.changes
        /\ new.discarded = Append(r.discarded, tx)
    BY <2>1 DEF RunSet
  <2>6. InStep(pre, state, new)
    BY <1>3, <2>5 DEF InStep
  <2>7. \A i \in DOMAIN new.discarded : new.discarded[i] = tx \/ (i \in DOMAIN r.discarded /\ new.discarded[i] = r.discarded[i])
    BY <2>2, <2>5
  <2>8. ByTheRules(bundle, new)
    BY <1>3, <2>5, <2>7 DEF ByTheRules
  <2> QED
    BY <2>4, <2>6, <2>8
<1>4. CASE r.error = "none" /\ ~includes /\ ~is_optional(bundle, tx)
  <2>1. PICK err \in {"BundleTransactionReverted", "InvalidBundleTransaction"} : new = [r EXCEPT !.error = err]
    BY <1>4 DEF bundle_step
  <2>2. new \in RunSet /\ new.error # "none" /\ new.results = r.results /\ new.discarded = r.discarded
    BY <2>1 DEF RunSet
  <2> QED
    BY <2>2 DEF ByTheRules
<1> QED
  BY <1>1, <1>2, <1>3, <1>4

\* All of them, one after the other.
LEMMA BundleRun ==
  ASSUME NEW bundle \in BundleSet, NEW pre \in Seq(ResultSet), NEW state \in StateSet,
         NEW outcomes \in [DOMAIN bundle.txs -> Outcomes],
         NEW start, start = [db |-> state, changes |-> NoChanges, results |-> << >>,
                             discarded |-> << >>, error |-> "none"],
         NEW r, r = RunOf(bundle, outcomes, start)
  PROVE  /\ r \in RunSet
         /\ ByTheRules(bundle, r)
         /\ r.error = "none" => InStep(pre, state, r)
<1> DEFINE n == Len(bundle.txs)
<1>1. bundle.txs \in Seq(TxSet)
  BY DEF BundleSet
<1>2. n \in Nat /\ DOMAIN bundle.txs = 1..n /\ \A k \in 1..n : bundle.txs[k] \in TxSet /\ outcomes[k] \in Outcomes
  BY <1>1
<1> HIDE DEF n
<1>3. PICK g : /\ g[0] = start
               /\ \A k \in 1..n : g[k] = bundle_step(bundle, g[k - 1], bundle.txs[k], outcomes[k])
               /\ g[n] = r
  BY <1>2, BundleFold
<1> DEFINE Ok(q) == /\ q \in RunSet
                    /\ ByTheRules(bundle, q)
                    /\ q.error = "none" => InStep(pre, state, q)
           T == {k \in Nat : k <= n => Ok(g[k])}
<1>4. Ok(start)
  <2>1. << >> \in Seq(ResultSet) /\ << >> \in Seq(TxSet) /\ DOMAIN << >> = {}
    OBVIOUS
  <2>2. NoChanges \in ChangesSet /\ DOMAIN NoChanges = {}
    <3>1. NoChanges \in [{} -> Account] /\ {} \in SUBSET Addresses
      BY DEF NoChanges
    <3> QED
      BY <3>1 DEF ChangesSet, NoChanges
  <2>3. start \in RunSet
    BY <2>1, <2>2 DEF RunSet
  <2>4. start.db = state /\ start.changes = NoChanges /\ start.results = << >> /\ start.discarded = << >>
    OBVIOUS
  <2>5. ByTheRules(bundle, start)
    BY <2>1, <2>4 DEF ByTheRules
  <2>6. pre \o start.results = pre
    BY <2>4, ConcatEmptySeq
  <2>7. \A a \in Addresses : committed(state, NoChanges)[a] = state[a]
    BY <2>2 DEF committed
  <2>8. InStep(pre, state, start)
    BY <2>2, <2>4, <2>6, <2>7 DEF InStep
  <2> QED
    BY <2>3, <2>5, <2>8
<1>5. 0 \in T
  BY <1>3, <1>4
<1>6. ASSUME NEW k \in T PROVE k + 1 \in T
  <2>1. k \in Nat /\ k + 1 \in Nat /\ (k + 1) - 1 = k
    OBVIOUS
  <2> SUFFICES ASSUME k + 1 <= n PROVE Ok(g[k + 1])
    BY <2>1
  <2>2. k + 1 \in 1..n /\ k <= n
    BY <1>2, <2>1
  <2>3. Ok(g[k])
    BY <2>2
  <2>4. g[k + 1] = bundle_step(bundle, g[k], bundle.txs[k + 1], outcomes[k + 1])
    BY <1>3, <2>1, <2>2
  <2>5. bundle.txs[k + 1] \in TxSet /\ outcomes[k + 1] \in Outcomes
    BY <1>2, <2>2
  <2> QED
    BY <2>3, <2>4, <2>5, BundleStep
<1>7. T \in SUBSET Nat
  OBVIOUS
<1>8. T = Nat
  <2> HIDE DEF T
  <2> QED
    BY <1>5, <1>6, <1>7, NatSetInduction
<1>9. Ok(g[n])
  <2>1. n <= n
    BY <1>2
  <2>2. n \in T
    <3> HIDE DEF T
    <3> QED
      BY <1>2, <1>8
  <2> QED
    BY <2>1, <2>2
<1> QED
  BY <1>3, <1>9

(***************************************************************************)
(* Taking transactions out of a bundle                                     *)
(***************************************************************************)

\* The first occurrence is removed.
LEMMA RemoveFirstIs ==
  ASSUME NEW S, NEW s \in Seq(S), NEW x
  PROVE  /\ RemoveFirst(s, x) \in Seq(S)
         /\ \/ RemoveFirst(s, x) = s /\ \A i \in DOMAIN s : s[i] # x
            \/ \E p \in DOMAIN s :
                 /\ s[p] = x
                 /\ DOMAIN RemoveFirst(s, x) = 1..(Len(s) - 1)
                 /\ \A i \in 1..(Len(s) - 1) : RemoveFirst(s, x)[i] = s[IF i < p THEN i ELSE i + 1]
<1> DEFINE n == Len(s)
           I == {i \in 1..n : s[i] = x}
<1>1. n \in Nat /\ DOMAIN s = 1..n /\ \A i \in 1..n : s[i] \in S
  OBVIOUS
<1>2. RemoveFirst(s, x) = IF \E i \in 1..n : s[i] = x THEN RemoveAt(s, SelectInSeq(s, LAMBDA v : v = x)) ELSE s
  BY DEF RemoveFirst
<1>3. SelectInSeq(s, LAMBDA v : v = x) = IF I # {} THEN Min(I) ELSE 0
  BY DEF SelectInSeq
<1>4. RemoveFirst(s, x) = IF I # {} THEN RemoveAt(s, Min(I)) ELSE s
  BY <1>2, <1>3
<1> HIDE DEF n
<1>5. CASE I = {}
  BY <1>1, <1>4, <1>5
<1>6. CASE I # {}
  <2>1. I \in SUBSET Nat
    BY <1>1
  <2>2. PICK p : p = Min(I)
    OBVIOUS
  <2>3. p \in 1..n /\ s[p] = x
    <3>1. Min(I) \in I
      <4> HIDE DEF I
      <4> QED
        BY <1>6, <2>1, MinOf
    <3> QED
      BY <2>2, <3>1
  <2> DEFINE a == SubSeq(s, 1, p - 1)
             b == SubSeq(s, p + 1, n)
  <2>4. RemoveFirst(s, x) = a \o b
    BY <1>4, <1>6, <2>2 DEF RemoveAt, n
  <2>5. /\ a \in Seq(S) /\ Len(a) = p - 1 /\ \A i \in 1..(p - 1) : a[i] = s[i]
    BY <1>1, <2>3
  <2>6. /\ b \in Seq(S) /\ Len(b) = n - p /\ \A i \in 1..(n - p) : b[i] = s[p + i]
    BY <1>1, <2>3
  <2> HIDE DEF a, b
  <2>7. /\ a \o b \in Seq(S)
        /\ Len(a \o b) = Len(a) + Len(b)
        /\ \A i \in 1..(Len(a) + Len(b)) : (a \o b)[i] = IF i <= Len(a) THEN a[i] ELSE b[i - Len(a)]
    BY <2>5, <2>6, ConcatProperties
  <2>8. Len(a) + Len(b) = n - 1
    BY <1>1, <2>3, <2>5, <2>6
  <2>9. DOMAIN (a \o b) = 1..(n - 1)
    BY <2>7, <2>8
  <2>10. ASSUME NEW i \in 1..(n - 1) PROVE (a \o b)[i] = s[IF i < p THEN i ELSE i + 1]
    <3>1. CASE i < p
      <4>1. i \in 1..(p - 1) /\ i <= Len(a)
        BY <1>1, <2>3, <2>5, <3>1
      <4> QED
        BY <2>5, <2>7, <2>8, <3>1, <4>1
    <3>2. CASE ~(i < p)
      <4>1. i - Len(a) \in 1..(n - p) /\ ~(i <= Len(a)) /\ p + (i - Len(a)) = i + 1
        BY <1>1, <2>3, <2>5, <3>2
      <4> QED
        BY <2>6, <2>7, <2>8, <3>2, <4>1
    <3> QED
      BY <3>1, <3>2
  <2> QED
    BY <1>1, <2>3, <2>4, <2>7, <2>9, <2>10 DEF n
<1> QED
  BY <1>5, <1>6

\* What is left of the transactions of a bundle: all in their order but for optional ones.
LeftOf(sent, source) ==
  \E place \in [DOMAIN source.txs -> DOMAIN sent.txs] :
    /\ \A i, k \in DOMAIN place : i < k => place[i] < place[k]
    /\ \A i \in DOMAIN place : source.txs[i] = sent.txs[place[i]]
    /\ \A j \in DOMAIN sent.txs : (\A i \in DOMAIN place : place[i] # j)
                                    => is_optional(sent, sent.txs[j])

\* A bundle is left of itself.
LEMMA LeftOfItself ==
  ASSUME NEW b \in BundleSet
  PROVE  LeftOf(b, b)
<1>1. b.txs \in Seq(TxSet)
  BY DEF BundleSet
<1>2. PICK n \in Nat : DOMAIN b.txs = 1..n
  BY <1>1
<1> DEFINE place == [i \in 1..n |-> i]
<1>3. /\ place \in [1..n -> 1..n]
      /\ DOMAIN place = 1..n
      /\ \A i, k \in 1..n : i < k => place[i] < place[k]
      /\ \A i \in 1..n : place[i] = i
  OBVIOUS
<1> HIDE DEF place
<1> QED
  BY <1>2, <1>3 DEF LeftOf

\* Bundle::without_transaction, for one that is optional in the bundle that was sent.
LEMMA WithoutTransaction ==
  ASSUME NEW b \in BundleSet, NEW x \in TxSet, NEW new, new = without_transaction(b, x)
  PROVE  /\ new \in BundleSet
         /\ new.dropping_tx_hashes \subseteq b.dropping_tx_hashes
         /\ new.txs = RemoveFirst(b.txs, x)
         /\ \A sent \in BundleSet : LeftOf(sent, b) /\ is_optional(sent, x) => LeftOf(sent, new)
<1>1. b.txs \in Seq(TxSet) /\ b.dropping_tx_hashes \in SUBSET TxSet /\ b.reverting_tx_hashes \in SUBSET TxSet
  BY DEF BundleSet
<1>2. RemoveFirst(b.txs, x) \in Seq(TxSet)
  BY <1>1, RemoveFirstIs
<1>3. new = [b EXCEPT !.txs = RemoveFirst(@, x), !.reverting_tx_hashes = @ \ {x}, !.dropping_tx_hashes = @ \ {x}]
  BY DEF without_transaction
<1>4. new \in BundleSet /\ new.txs = RemoveFirst(b.txs, x) /\ new.dropping_tx_hashes = b.dropping_tx_hashes \ {x}
  BY <1>1, <1>2, <1>3 DEF BundleSet
<1>5. ASSUME NEW sent \in BundleSet, LeftOf(sent, b), is_optional(sent, x) PROVE LeftOf(sent, new)
  <2>1. CASE RemoveFirst(b.txs, x) = b.txs
    BY <1>4, <1>5, <2>1 DEF LeftOf
  <2>2. ASSUME NEW p \in DOMAIN b.txs, b.txs[p] = x, DOMAIN new.txs = 1..(Len(b.txs) - 1),
               \A i \in 1..(Len(b.txs) - 1) : new.txs[i] = b.txs[IF i < p THEN i ELSE i + 1]
        PROVE  LeftOf(sent, new)
    <3>1. PICK n \in Nat : n = Len(b.txs) /\ DOMAIN b.txs = 1..n
      BY <1>1
    <3>2. PICK m \in Nat : DOMAIN sent.txs = 1..m
      <4>1. sent.txs \in Seq(TxSet)
        BY DEF BundleSet
      <4> QED
        BY <4>1
    <3>3. PICK place \in [1..n -> 1..m] :
            /\ \A i, k \in 1..n : i < k => place[i] < place[k]
            /\ \A i \in 1..n : b.txs[i] = sent.txs[place[i]]
            /\ \A j \in 1..m : (\A i \in 1..n : place[i] # j) => is_optional(sent, sent.txs[j])
      <4>1. PICK f \in [DOMAIN b.txs -> DOMAIN sent.txs] :
              /\ \A i, k \in DOMAIN f : i < k => f[i] < f[k]
              /\ \A i \in DOMAIN f : b.txs[i] = sent.txs[f[i]]
              /\ \A j \in DOMAIN sent.txs : (\A i \in DOMAIN f : f[i] # j)
                                              => is_optional(sent, sent.txs[j])
        BY <1>5 DEF LeftOf
      <4>2. f \in [1..n -> 1..m] /\ DOMAIN f = 1..n
        BY <3>1, <3>2
      <4> QED
        BY <3>2, <4>1, <4>2
    <3> DEFINE at(i) == IF i < p THEN i ELSE i + 1
               q == [i \in 1..(n - 1) |-> place[at(i)]]
    <3>4. p \in 1..n
      BY <3>1
    <3>5. \A i \in 1..(n - 1) : at(i) \in 1..n
      BY <3>4
    <3>6. \A i, k \in 1..(n - 1) : i < k => at(i) < at(k)
      BY <3>4
    <3>7. \A i \in 1..n : i # p => \E k \in 1..(n - 1) : at(k) = i
      <4> SUFFICES ASSUME NEW i \in 1..n, i # p PROVE \E k \in 1..(n - 1) : at(k) = i
        OBVIOUS
      <4>1. CASE i < p
        <5>1. i \in 1..(n - 1) /\ at(i) = i
          BY <3>4, <4>1
        <5> QED
          BY <5>1
      <4>2. CASE i > p
        <5>1. i - 1 \in 1..(n - 1) /\ at(i - 1) = i
          BY <3>4, <4>2
        <5> QED
          BY <5>1
      <4> QED
        BY <3>4, <4>1, <4>2
    <3> HIDE DEF at
    <3>8. q \in [1..(n - 1) -> 1..m] /\ DOMAIN q = 1..(n - 1) /\ \A i \in 1..(n - 1) : q[i] = place[at(i)]
      BY <3>5
    <3>9. \A i, k \in 1..(n - 1) : i < k => q[i] < q[k]
      BY <3>3, <3>5, <3>6, <3>8
    <3>10. \A i \in 1..(n - 1) : new.txs[i] = b.txs[at(i)]
      BY <2>2, <3>1 DEF at
    <3>11. \A i \in 1..(n - 1) : new.txs[i] = sent.txs[q[i]]
      BY <3>3, <3>5, <3>8, <3>10
    <3>12. ASSUME NEW j \in 1..m, \A i \in 1..(n - 1) : q[i] # j PROVE is_optional(sent, sent.txs[j])
      <4>1. CASE j = place[p]
        BY <1>5, <2>2, <3>3, <3>4, <4>1
      <4>2. CASE j # place[p]
        <5>1. \A i \in 1..n : place[i] # j
          BY <3>7, <3>8, <3>12, <4>2
        <5> QED
          BY <3>3, <5>1
      <4> QED
        BY <4>1, <4>2
    <3>13. DOMAIN new.txs = 1..(n - 1)
      BY <2>2, <3>1
    <3> HIDE DEF q
    <3>14. /\ q \in [DOMAIN new.txs -> DOMAIN sent.txs]
           /\ \A i, k \in DOMAIN q : i < k => q[i] < q[k]
           /\ \A i \in DOMAIN q : new.txs[i] = sent.txs[q[i]]
      BY <3>2, <3>8, <3>9, <3>11, <3>13
    <3>15. \A j \in DOMAIN sent.txs : (\A i \in DOMAIN q : q[i] # j) => is_optional(sent, sent.txs[j])
      BY <3>2, <3>8, <3>12
    <3> QED
      BY <3>14, <3>15 DEF LeftOf
  <2>3. PICK s : s = b.txs
    OBVIOUS
  <2>4. \/ RemoveFirst(s, x) = s
        \/ \E p \in DOMAIN s :
             /\ s[p] = x
             /\ DOMAIN RemoveFirst(s, x) = 1..(Len(s) - 1)
             /\ \A i \in 1..(Len(s) - 1) : RemoveFirst(s, x)[i] = s[IF i < p THEN i ELSE i + 1]
    BY <1>1, <2>3, RemoveFirstIs
  <2> QED
    BY <1>4, <2>1, <2>2, <2>3, <2>4
<1> QED
  BY <1>4, <1>5

\* All discarded transactions are taken out.
LEMMA DiscardedAreDropped ==
  ASSUME NEW sent \in BundleSet, NEW discarded \in Seq(TxSet),
         \A i \in DOMAIN discarded : is_optional(sent, discarded[i]),
         NEW b, b = FoldLeft(without_transaction, sent, discarded)
  PROVE  /\ b \in BundleSet
         /\ b.dropping_tx_hashes \subseteq sent.dropping_tx_hashes
         /\ LeftOf(sent, b)
<1>1. PICK n \in Nat : DOMAIN discarded = 1..n /\ \A k \in 1..n : discarded[k] \in TxSet
  OBVIOUS
<1>2. PICK g : /\ g[0] = sent
               /\ \A k \in 1..n : g[k] = without_transaction(g[k - 1], discarded[k])
               /\ g[n] = b
  BY <1>1, DropFold
<1> DEFINE Ok(x) == /\ x \in BundleSet
                    /\ x.dropping_tx_hashes \subseteq sent.dropping_tx_hashes
                    /\ LeftOf(sent, x)
           T == {k \in Nat : k <= n => Ok(g[k])}
<1>3. 0 \in T
  BY <1>2, LeftOfItself
<1>4. ASSUME NEW k \in T PROVE k + 1 \in T
  <2>1. k \in Nat /\ k + 1 \in Nat /\ (k + 1) - 1 = k
    OBVIOUS
  <2> SUFFICES ASSUME k + 1 <= n PROVE Ok(g[k + 1])
    BY <2>1
  <2>2. k + 1 \in 1..n /\ k <= n
    BY <2>1
  <2>3. Ok(g[k])
    BY <2>2
  <2>4. g[k + 1] = without_transaction(g[k], discarded[k + 1])
    BY <1>2, <2>1, <2>2
  <2>5. discarded[k + 1] \in TxSet /\ is_optional(sent, discarded[k + 1])
    BY <1>1, <2>2
  <2>6. /\ g[k + 1] \in BundleSet
        /\ g[k + 1].dropping_tx_hashes \subseteq g[k].dropping_tx_hashes
        /\ LeftOf(sent, g[k + 1])
    BY <2>3, <2>4, <2>5, WithoutTransaction, SMTT(30)
  <2> QED
    BY <2>3, <2>6
<1>5. T \in SUBSET Nat
  OBVIOUS
<1>6. n \in T
  <2> HIDE DEF T
  <2> QED
    BY <1>3, <1>4, <1>5, NatSetInduction
<1> QED
  BY <1>2, <1>6

\* A bundle that is tried again without what failed is what is left of it.
LEMMA ReducedType ==
  ASSUME NEW b \in BundleSet, NEW failed, NEW txs, NEW results, NEW n \in Nat,
         DOMAIN results = 1..n, \A i \in failed : txs[i] \in TxSet /\ is_optional(b, txs[i]),
         NEW new, new = Reduced(failed, txs, b, results)
  PROVE  /\ new \in BundleSet
         /\ new.dropping_tx_hashes \subseteq b.dropping_tx_hashes
         /\ LeftOf(b, new)
<1>1. PICK g : /\ g[0] = b
               /\ \A k \in 1..n : g[k] = (IF k \in failed THEN without_transaction(g[k - 1], txs[k]) ELSE g[k - 1])
               /\ g[n] = Reduced(failed, txs, b, results)
  BY ReduceFold
<1> DEFINE Ok(x) == /\ x \in BundleSet
                    /\ x.dropping_tx_hashes \subseteq b.dropping_tx_hashes
                    /\ LeftOf(b, x)
           T == {k \in Nat : k <= n => Ok(g[k])}
<1>2. 0 \in T
  BY <1>1, LeftOfItself
<1>3. ASSUME NEW k \in T PROVE k + 1 \in T
  <2>1. k \in Nat /\ k + 1 \in Nat /\ (k + 1) - 1 = k
    OBVIOUS
  <2> SUFFICES ASSUME k + 1 <= n PROVE Ok(g[k + 1])
    BY <2>1
  <2>2. k + 1 \in 1..n /\ k <= n
    BY <2>1
  <2>3. Ok(g[k])
    BY <2>2
  <2>4. g[k + 1] = IF k + 1 \in failed THEN without_transaction(g[k], txs[k + 1]) ELSE g[k]
    BY <1>1, <2>1, <2>2
  <2>5. CASE k + 1 \in failed
    <3>1. PICK x : x = txs[k + 1]
      OBVIOUS
    <3>2. x \in TxSet /\ is_optional(b, x)
      BY <2>5, <3>1
    <3>3. PICK old : old = g[k]
      OBVIOUS
    <3>4. PICK less : less = g[k + 1]
      OBVIOUS
    <3>5. less = without_transaction(old, x)
      BY <2>4, <2>5, <3>1, <3>3, <3>4
    <3>6. old \in BundleSet /\ old.dropping_tx_hashes \subseteq b.dropping_tx_hashes /\ LeftOf(b, old)
      BY <2>3, <3>3
    <3>7. /\ less \in BundleSet
          /\ less.dropping_tx_hashes \subseteq old.dropping_tx_hashes
          /\ \A sent \in BundleSet : LeftOf(sent, old) /\ is_optional(sent, x) => LeftOf(sent, less)
      BY <3>2, <3>5, <3>6, WithoutTransaction
    <3>8. Ok(less)
      BY <3>2, <3>6, <3>7
    <3> QED
      BY <3>4, <3>8
  <2>6. CASE k + 1 \notin failed
    BY <2>3, <2>4, <2>6
  <2> QED
    BY <2>5, <2>6
<1>4. T \in SUBSET Nat
  OBVIOUS
<1>5. n \in T
  <2> HIDE DEF T
  <2> QED
    BY <1>2, <1>3, <1>4, NatSetInduction
<1> QED
  BY <1>1, <1>5

(***************************************************************************)
(* Bundles in which no optional transaction is repeated                    *)
(***************************************************************************)

Dropped(b, d) == FoldLeft(without_transaction, b, d)

\* One more transaction is taken out of what is left without all others.
LEMMA DropAppend ==
  ASSUME NEW S, NEW b, NEW d \in Seq(S), NEW x \in S
  PROVE  Dropped(b, Append(d, x)) = without_transaction(Dropped(b, d), x)
<1> DEFINE n == Len(d)
           more == Append(d, x)
<1>1. /\ n \in Nat /\ n + 1 \in Nat
      /\ DOMAIN d = 1..n
      /\ DOMAIN more = 1..(n + 1)
      /\ \A k \in 1..n : more[k] = d[k]
      /\ more[n + 1] = x
  OBVIOUS
<1> HIDE DEF n, more
<1>2. PICK g : /\ g[0] = b
               /\ \A k \in 1..n : g[k] = without_transaction(g[k - 1], d[k])
               /\ g[n] = FoldLeft(without_transaction, b, d)
  BY <1>1, DropFold
<1>3. PICK h : /\ h[0] = b
               /\ \A k \in 1..(n + 1) : h[k] = without_transaction(h[k - 1], more[k])
               /\ h[n + 1] = FoldLeft(without_transaction, b, more)
  BY <1>1, DropFold
<1> DEFINE T == {k \in Nat : k <= n => g[k] = h[k]}
<1>4. 0 \in T
  BY <1>2, <1>3
<1>5. ASSUME NEW k \in T PROVE k + 1 \in T
  <2>1. k \in Nat /\ k + 1 \in Nat /\ (k + 1) - 1 = k
    OBVIOUS
  <2>2. k + 1 <= n => /\ k + 1 \in 1..n /\ k + 1 \in 1..(n + 1) /\ k <= n
    BY <1>1, <2>1
  <2>3. k + 1 <= n => more[k + 1] = d[k + 1]
    BY <1>1, <2>2
  <2> QED
    BY <1>2, <1>3, <2>1, <2>2, <2>3
<1>6. T \in SUBSET Nat
  OBVIOUS
<1>7. T = Nat
  <2> HIDE DEF T
  <2> QED
    BY <1>4, <1>5, <1>6, NatSetInduction
<1>8. g[n] = h[n]
  BY <1>1, <1>7
<1>9. h[n + 1] = without_transaction(h[n], x)
  <2>1. n + 1 \in 1..(n + 1) /\ (n + 1) - 1 = n
    BY <1>1
  <2> QED
    BY <1>1, <1>3, <2>1
<1> QED
  BY <1>2, <1>3, <1>8, <1>9 DEF Dropped, more

\* Nothing is taken out.
LEMMA DropEmpty ==
  ASSUME NEW b
  PROVE  Dropped(b, << >>) = b
<1>1. DOMAIN << >> = 1..0 /\ 0 \in Nat
  OBVIOUS
<1>2. \E g : /\ g[0] = b
             /\ g[0] = FoldLeft(without_transaction, b, << >>)
  BY <1>1, DropFold
<1> QED
  BY <1>2 DEF Dropped

\* What one transaction adds to the results or to what is discarded.
StepAdds(bundle, r, tx, new) ==
  /\ r.error = "none"
  /\ \/ /\ new.discarded = r.discarded
        /\ \E x \in ResultSet : x.tx = tx /\ new.results = Append(r.results, x)
     \/ /\ is_optional(bundle, tx)
        /\ new.discarded = Append(r.discarded, tx)
        /\ new.results = r.results

\* One transaction of a bundle.
LEMMA StepAddsOne ==
  ASSUME NEW bundle, NEW r \in RunSet, NEW tx \in TxSet, NEW outcome \in Outcomes,
         NEW new, new = bundle_step(bundle, r, tx, outcome)
  PROVE  new \in RunSet /\ (new.error = "none" => StepAdds(bundle, r, tx, new))
<1> DEFINE result == transact(r.db, tx, outcome)
           includes == result = "Success" \/ (result = "Revert" /\ is_allowed_to_fail(bundle, tx))
<1>7. r.db \in StateSet /\ r.changes \in ChangesSet /\ r.results \in Seq(ResultSet) /\ r.discarded \in Seq(TxSet)
  BY DEF RunSet
<1>1. CASE r.error # "none"
  BY <1>1 DEF bundle_step
<1>2. CASE r.error = "none" /\ includes
  <2>1. PICK res : res = result
    OBVIOUS
  <2>2. res \in {"Success", "Revert"}
    BY <1>2, <2>1 DEF transact
  <2>3. PICK e : e = effects(r.db, tx, res)
    OBVIOUS
  <2>4. PICK x : x = [tx |-> tx, outcome |-> res]
    OBVIOUS
  <2>5. new = [r EXCEPT !.results = Append(@, x), !.db = committed(@, e), !.changes = merged(@, e)]
    BY <1>2, <2>1, <2>3, <2>4 DEF bundle_step
  <2>6. x \in ResultSet /\ x.tx = tx /\ x.outcome = res
    BY <2>2, <2>4 DEF ResultSet
  <2>8. e \in ChangesSet
    BY <2>3, <1>7, EffectsType
  <2>9. /\ committed(r.db, e) \in StateSet
        /\ merged(r.changes, e) \in ChangesSet
        /\ Append(r.results, x) \in Seq(ResultSet)
    BY <2>6, <1>7, <2>8, CommittedType, MergedType
  <2>10. new.results = Append(r.results, x) /\ new.discarded = r.discarded
    BY <2>5 DEF RunSet
  <2>11. new \in RunSet
    BY <2>5, <2>9 DEF RunSet
  <2> QED
    BY <1>2, <2>6, <2>10, <2>11 DEF StepAdds
<1>3. CASE r.error = "none" /\ ~includes /\ is_optional(bundle, tx)
  <2>1. new = [r EXCEPT !.discarded = Append(@, tx)]
    BY <1>3 DEF bundle_step
  <2>3. Append(r.discarded, tx) \in Seq(TxSet)
    BY <1>7
  <2>4. new \in RunSet
    BY <2>1, <2>3 DEF RunSet
  <2>5. new.results = r.results /\ new.discarded = Append(r.discarded, tx)
    BY <2>1 DEF RunSet
  <2> QED
    BY <1>3, <2>4, <2>5 DEF StepAdds
<1>4. CASE r.error = "none" /\ ~includes /\ ~is_optional(bundle, tx)
  <2>1. PICK err \in {"BundleTransactionReverted", "InvalidBundleTransaction"} : new = [r EXCEPT !.error = err]
    BY <1>4 DEF bundle_step
  <2>2. new \in RunSet /\ new.error # "none"
    BY <2>1 DEF RunSet
  <2> QED
    BY <2>2
<1> QED
  BY <1>1, <1>2, <1>3, <1>4

\* After k transactions: what is left of the bundle begins with those that have a result.
Aligns(txs, n, k, results, p, left) ==
  /\ p = Len(results)
  /\ p <= k
  /\ left \in Seq(TxSet)
  /\ Len(left) = p + (n - k)
  /\ \A i \in 1..p : left[i] = results[i].tx /\ \E j \in 1..k : results[i].tx = txs[j]
  /\ \A i \in (k + 1)..n : left[p + (i - k)] = txs[i]

\* An included transaction stays where it is.
LEMMA AlignsIncluded ==
  ASSUME NEW txs, NEW n \in Nat, NEW k \in Nat, k + 1 <= n, NEW results \in Seq(ResultSet),
         NEW p \in Nat, NEW left, Aligns(txs, n, k, results, p, left),
         NEW x \in ResultSet, x.tx = txs[k + 1], NEW more, more = Append(results, x)
  PROVE  Aligns(txs, n, k + 1, more, p + 1, left)
<1>1. /\ Len(more) = p + 1 /\ p + 1 <= k + 1
      /\ \A i \in 1..p : more[i] = results[i]
      /\ more[p + 1] = x
  BY DEF Aligns
<1>2. p + (n - k) = (p + 1) + (n - (k + 1))
  OBVIOUS
<1>3. ASSUME NEW i \in 1..(p + 1)
      PROVE  left[i] = more[i].tx /\ \E j \in 1..(k + 1) : more[i].tx = txs[j]
  <2>1. CASE i = p + 1
    <3>1. k + 1 \in (k + 1)..n /\ p + ((k + 1) - k) = p + 1 /\ k + 1 \in 1..(k + 1)
      OBVIOUS
    <3>2. left[p + 1] = txs[k + 1]
      BY <3>1 DEF Aligns
    <3> QED
      BY <1>1, <2>1, <3>1, <3>2
  <2>2. CASE i # p + 1
    <3>1. i \in 1..p /\ \A j \in 1..k : j \in 1..(k + 1)
      BY <2>2
    <3> QED
      BY <1>1, <3>1 DEF Aligns
  <2> QED
    BY <2>1, <2>2
<1>4. ASSUME NEW i \in ((k + 1) + 1)..n PROVE left[(p + 1) + (i - (k + 1))] = txs[i]
  <2>1. i \in (k + 1)..n /\ (p + 1) + (i - (k + 1)) = p + (i - k)
    OBVIOUS
  <2> QED
    BY <2>1 DEF Aligns
<1> QED
  BY <1>1, <1>2, <1>3, <1>4 DEF Aligns

\* A discarded one is what is taken out.
LEMMA AlignsDiscarded ==
  ASSUME NEW txs, NEW n \in Nat, NEW k \in Nat, k + 1 <= n, NEW results \in Seq(ResultSet),
         NEW p \in Nat, NEW left, Aligns(txs, n, k, results, p, left),
         \A j \in 1..n : txs[j] = txs[k + 1] => j = k + 1,
         NEW less, less = RemoveFirst(left, txs[k + 1])
  PROVE  Aligns(txs, n, k + 1, results, p, less)
<1>1. left \in Seq(TxSet) /\ Len(left) = p + (n - k) /\ p <= k
  BY DEF Aligns
<1>2. PICK l \in Nat : l = p + (n - k) /\ DOMAIN left = 1..l /\ Len(left) = l /\ l >= 1
  <2>1. p + (n - k) \in Nat /\ p + (n - k) >= 1
    BY <1>1
  <2> QED
    BY <1>1, <2>1
<1>3. PICK x : x = txs[k + 1]
  OBVIOUS
<1>4. p + 1 \in 1..l /\ left[p + 1] = x
  <2>1. k + 1 \in (k + 1)..n /\ p + ((k + 1) - k) = p + 1
    OBVIOUS
  <2>2. left[p + 1] = txs[k + 1]
    BY <2>1 DEF Aligns
  <2>3. p + 1 \in 1..l
    BY <1>2
  <2> QED
    BY <1>3, <2>2, <2>3
<1>5. ASSUME NEW i \in 1..l, left[i] = x PROVE i = p + 1
  <2>1. CASE i <= p
    <3>1. i \in 1..p
      BY <2>1
    <3>2. PICK j \in 1..k : left[i] = txs[j]
      BY <3>1 DEF Aligns
    <3>3. j \in 1..n /\ j # k + 1
      OBVIOUS
    <3> QED
      BY <1>3, <1>5, <3>2, <3>3
  <2>2. CASE ~(i <= p)
    <3>1. (i - p) + k \in (k + 1)..n /\ p + (((i - p) + k) - k) = i
      BY <1>2, <2>2
    <3>2. left[i] = txs[(i - p) + k]
      BY <3>1 DEF Aligns
    <3>3. (i - p) + k \in 1..n
      BY <3>1
    <3>4. (i - p) + k = k + 1
      BY <1>3, <1>5, <3>2, <3>3
    <3> QED
      BY <1>2, <3>4
  <2> QED
    BY <2>1, <2>2
<1>6. /\ RemoveFirst(left, x) \in Seq(TxSet)
      /\ \/ RemoveFirst(left, x) = left /\ \A i \in DOMAIN left : left[i] # x
         \/ \E q \in DOMAIN left :
              /\ left[q] = x
              /\ DOMAIN RemoveFirst(left, x) = 1..(Len(left) - 1)
              /\ \A i \in 1..(Len(left) - 1) : RemoveFirst(left, x)[i] = left[IF i < q THEN i ELSE i + 1]
  BY <1>1, RemoveFirstIs
<1>7. PICK q \in DOMAIN left :
              /\ left[q] = x
              /\ DOMAIN less = 1..(Len(left) - 1)
              /\ \A i \in 1..(Len(left) - 1) : less[i] = left[IF i < q THEN i ELSE i + 1]
  BY <1>2, <1>3, <1>4, <1>6
<1>8. q = p + 1
  BY <1>2, <1>5, <1>7
<1>9. less \in Seq(TxSet) /\ Len(less) = l - 1 /\ l - 1 = p + (n - (k + 1))
  <2>1. less \in Seq(TxSet)
    BY <1>3, <1>6
  <2>2. l - 1 \in Nat /\ l - 1 = p + (n - (k + 1))
    BY <1>2
  <2>3. DOMAIN less = 1..(l - 1)
    BY <1>2, <1>7
  <2> QED
    BY <2>1, <2>2, <2>3
<1>10. ASSUME NEW i \in 1..p
       PROVE  less[i] = results[i].tx /\ \E j \in 1..(k + 1) : results[i].tx = txs[j]
  <2>1. i \in 1..(l - 1) /\ i < p + 1 /\ \A j \in 1..k : j \in 1..(k + 1)
    BY <1>1, <1>2
  <2>2. less[i] = left[i]
    BY <1>2, <1>7, <1>8, <2>1
  <2> QED
    BY <2>1, <2>2 DEF Aligns
<1>11. ASSUME NEW i \in ((k + 1) + 1)..n PROVE less[p + (i - (k + 1))] = txs[i]
  <2>1. /\ i \in (k + 1)..n
        /\ p + (i - (k + 1)) \in 1..(l - 1)
        /\ ~(p + (i - (k + 1)) < p + 1)
        /\ p + (i - (k + 1)) + 1 = p + (i - k)
    BY <1>2
  <2>2. less[p + (i - (k + 1))] = left[p + (i - k)]
    BY <1>2, <1>7, <1>8, <2>1
  <2> QED
    BY <2>1, <2>2 DEF Aligns
<1>12. p = Len(results) /\ p <= k + 1
  BY DEF Aligns
<1> QED
  BY <1>9, <1>10, <1>11, <1>12 DEF Aligns

\* A bundle has one result for each transaction that is left.
LEMMA BundleAligned ==
  ASSUME NEW bundle \in BundleSet, Once(bundle), NEW state \in StateSet,
         NEW outcomes \in [DOMAIN bundle.txs -> Outcomes],
         NEW start, start = [db |-> state, changes |-> NoChanges, results |-> << >>,
                             discarded |-> << >>, error |-> "none"],
         NEW r, r = RunOf(bundle, outcomes, start), r.error = "none"
  PROVE  Dropped(bundle, r.discarded).txs = [i \in DOMAIN r.results |-> r.results[i].tx]
<1>1. bundle.txs \in Seq(TxSet)
  BY DEF BundleSet
<1>2. PICK n \in Nat : /\ DOMAIN bundle.txs = 1..n /\ Len(bundle.txs) = n
                       /\ \A k \in 1..n : bundle.txs[k] \in TxSet /\ outcomes[k] \in Outcomes
  BY <1>1
<1>3. PICK g : /\ g[0] = start
               /\ \A k \in 1..n : g[k] = bundle_step(bundle, g[k - 1], bundle.txs[k], outcomes[k])
               /\ g[n] = r
  BY <1>2, BundleFold
<1>4. PICK txs : txs = bundle.txs
  OBVIOUS
<1> DEFINE Left(q) == Dropped(bundle, q.discarded)
           Ok(k, q) == /\ q \in RunSet
                       /\ q.error = "none" => /\ Left(q) \in BundleSet
                                              /\ Aligns(txs, n, k, q.results, Len(q.results), Left(q).txs)
           T == {k \in Nat : k <= n => Ok(k, g[k])}
<1>5. 0 \in T
  <2>1. << >> \in Seq(ResultSet) /\ << >> \in Seq(TxSet) /\ Len(<< >>) = 0
    OBVIOUS
  <2>2. NoChanges \in ChangesSet
    <3>1. NoChanges \in [{} -> Account] /\ {} \in SUBSET Addresses
      BY DEF NoChanges
    <3> QED
      BY <3>1 DEF ChangesSet
  <2>3. start \in RunSet
    BY <2>1, <2>2 DEF RunSet
  <2>4. start.results = << >> /\ start.discarded = << >>
    OBVIOUS
  <2>5. Left(start) = bundle
    BY <2>4, DropEmpty
  <2>6. 0 + (n - 0) = n /\ \A i \in (0 + 1)..n : 0 + (i - 0) = i
    OBVIOUS
  <2>7. 1..0 = {}
    OBVIOUS
  <2>8. Aligns(txs, n, 0, << >>, 0, txs)
    BY <1>1, <1>2, <1>4, <2>1, <2>6, <2>7 DEF Aligns
  <2>9. Ok(0, start)
    BY <1>4, <2>1, <2>3, <2>4, <2>5, <2>8
  <2> QED
    BY <1>3, <2>9
<1>6. ASSUME NEW k \in T PROVE k + 1 \in T
  <2>1. k \in Nat /\ k + 1 \in Nat /\ (k + 1) - 1 = k
    OBVIOUS
  <2> SUFFICES ASSUME k + 1 <= n PROVE Ok(k + 1, g[k + 1])
    BY <2>1
  <2>2. k + 1 \in 1..n /\ k <= n
    BY <2>1
  <2>3. PICK old : old = g[k]
    OBVIOUS
  <2>4. PICK new : new = g[k + 1]
    OBVIOUS
  <2>5. PICK tx : tx = txs[k + 1]
    OBVIOUS
  <2>6. new = bundle_step(bundle, old, tx, outcomes[k + 1])
    BY <1>3, <1>4, <2>1, <2>2, <2>3, <2>4, <2>5
  <2>7. tx \in TxSet /\ outcomes[k + 1] \in Outcomes
    BY <1>2, <1>4, <2>2, <2>5
  <2>8. Ok(k, old)
    BY <2>2, <2>3
  <2> HIDE DEF T
  <2>9. new \in RunSet /\ (new.error = "none" => StepAdds(bundle, old, tx, new))
    BY <2>6, <2>7, <2>8, StepAddsOne
  <2>10. ASSUME new.error = "none"
         PROVE  /\ Left(new) \in BundleSet
                /\ Aligns(txs, n, k + 1, new.results, Len(new.results), Left(new).txs)
    <3>1. old.error = "none" /\ StepAdds(bundle, old, tx, new)
      BY <2>9, <2>10 DEF StepAdds
    <3>2. old.results \in Seq(ResultSet) /\ old.discarded \in Seq(TxSet)
      BY <2>8 DEF RunSet
    <3>3. PICK results : results = old.results
      OBVIOUS
    <3>4. PICK p \in Nat : p = Len(results)
      BY <3>2, <3>3
    <3>5. PICK b : b = Left(old)
      OBVIOUS
    <3>6. PICK left : left = b.txs
      OBVIOUS
    <3>7. b \in BundleSet /\ Aligns(txs, n, k, results, p, left)
      BY <2>8, <3>1, <3>3, <3>4, <3>5, <3>6
    <3> HIDE DEF Ok
    <3>8. CASE /\ new.discarded = old.discarded
               /\ \E x \in ResultSet : x.tx = tx /\ new.results = Append(old.results, x)
      <4>1. PICK x \in ResultSet : x.tx = tx /\ new.results = Append(results, x)
        BY <3>3, <3>8
      <4>2. PICK more : more = Append(results, x)
        OBVIOUS
      <4>3. x.tx = txs[k + 1] /\ results \in Seq(ResultSet)
        BY <2>5, <3>2, <3>3, <4>1
      <4>4. Aligns(txs, n, k + 1, more, p + 1, left)
        BY <2>1, <3>7, <4>2, <4>3, AlignsIncluded
      <4>5. Len(more) = p + 1
        BY <4>2, <4>3, <3>4
      <4>6. Left(new) = b
        BY <3>5, <3>8
      <4> HIDE DEF Left
      <4> QED
        BY <3>6, <3>7, <4>1, <4>2, <4>4, <4>5, <4>6
    <3>9. CASE /\ is_optional(bundle, tx)
               /\ new.discarded = Append(old.discarded, tx)
               /\ new.results = old.results
      <4>1. Left(new) = without_transaction(b, tx)
        <5>1. PICK d : d = old.discarded
          OBVIOUS
        <5>2. d \in Seq(TxSet)
          BY <3>2, <5>1
        <5>3. Dropped(bundle, Append(d, tx)) = without_transaction(Dropped(bundle, d), tx)
          BY <2>7, <5>2, DropAppend
        <5> QED
          BY <3>5, <3>9, <5>1, <5>3
      <4>2. PICK c : c = Left(new)
        OBVIOUS
      <4> HIDE DEF Left
      <4>3. c \in BundleSet /\ c.txs = RemoveFirst(left, tx)
        BY <2>7, <3>6, <3>7, <4>1, <4>2, WithoutTransaction
      <4>4. \A j \in 1..n : txs[j] = txs[k + 1] => j = k + 1
        BY <1>2, <1>4, <2>2, <2>5, <3>9 DEF Once
      <4>5. PICK less : less = c.txs
        OBVIOUS
      <4>6. less = RemoveFirst(left, txs[k + 1])
        BY <2>5, <4>3, <4>5
      <4>7. results \in Seq(ResultSet)
        BY <3>2, <3>3
      <4>8. Aligns(txs, n, k + 1, results, p, less)
        BY <2>1, <3>7, <4>4, <4>6, <4>7, AlignsDiscarded
      <4> QED
        BY <3>3, <3>4, <3>9, <4>2, <4>3, <4>5, <4>8
    <3> QED
      BY <3>1, <3>8, <3>9 DEF StepAdds
  <2> QED
    BY <2>4, <2>9, <2>10
<1>7. T \in SUBSET Nat
  OBVIOUS
<1>8. n \in T
  <2> HIDE DEF T
  <2> QED
    BY <1>5, <1>6, <1>7, NatSetInduction
<1>9. Ok(n, r)
  BY <1>3, <1>8
<1>10. PICK results : results = r.results
  OBVIOUS
<1>11. PICK left : left = Left(r).txs
  OBVIOUS
<1>12. results \in Seq(ResultSet)
  BY <1>9, <1>10 DEF RunSet
<1>13. PICK p \in Nat : p = Len(results) /\ DOMAIN results = 1..p
  BY <1>12
<1>14. Aligns(txs, n, n, results, p, left)
  BY <1>9, <1>10, <1>11, <1>13
<1>15. left \in Seq(TxSet) /\ Len(left) = p /\ \A i \in 1..p : left[i] = results[i].tx
  <2>1. p + (n - n) = p
    OBVIOUS
  <2> QED
    BY <1>14, <2>1 DEF Aligns
<1>16. left = [i \in 1..p |-> left[i]]
  BY <1>15
<1>17. left = [i \in DOMAIN results |-> results[i].tx]
  BY <1>13, <1>15, <1>16
<1> QED
  BY <1>10, <1>11, <1>17

(***************************************************************************)
(* What a mutation is, whatever it was made from                           *)
(***************************************************************************)

\* The state after it follows from everything executed up to it.
Continues(m, pre, state) ==
  /\ Follows(pre, state) => Follows(pre \o m.results, committed(state, m.state))
  /\ \A a \in Addresses : Undestroyed(m.results, a) /\ a \in DOMAIN m.state => m.state[a].info # NoAccount

\* The truth table of execute_bundle.
RulesOf(m) ==
  m.kind = "bundle" =>
    /\ LeftOf(m.executable, m.source)
    /\ \A i \in DOMAIN m.results :
         m.results[i].outcome = "Success" \/ is_allowed_to_fail(m.executable, m.results[i].tx)
    /\ m.source.dropping_tx_hashes \subseteq m.executable.dropping_tx_hashes

\* Each transaction has its own result.
AlignedIn(m) == TxsOf(m) = [i \in DOMAIN m.results |-> m.results[i].tx]

\* Nothing that could be dropped was there twice.
Clear(m) == m.kind = "bundle" => Once(m.executable)

\* What can be built on a checkpoint with this history and state.
Made(m, pre, state) ==
  /\ m \in Mutations
  /\ RulesOf(m)
  /\ Clear(m) => AlignedIn(m)
  /\ Continues(m, pre, state)

\* A barrier changes nothing.
LEMMA BarrierIsMade ==
  ASSUME NEW pre \in Seq(ResultSet), NEW state \in StateSet
  PROVE  Made(Barrier, pre, state)
<1>1. Barrier.results = << >> /\ Barrier.state = NoChanges /\ Barrier.kind = "barrier"
  BY DEF Barrier
<1>2. DOMAIN NoChanges = {}
  BY DEF NoChanges
<1>3. pre \o << >> = pre
  BY ConcatEmptySeq
<1>4. \A a \in Addresses : committed(state, NoChanges)[a] = state[a]
  BY <1>2 DEF committed
<1>5. Follows(pre, state) => Follows(pre, committed(state, NoChanges))
  BY <1>4, FollowsWith
<1>6. AlignedIn(Barrier)
  <2>1. TxsOf(Barrier) = << >> /\ [i \in DOMAIN << >> |-> << >>[i].tx] = << >>
    BY <1>1 DEF TxsOf
  <2> QED
    BY <1>1, <2>1 DEF AlignedIn
<1> QED
  BY <1>1, <1>2, <1>3, <1>5, <1>6 DEF Made, Mutations, RulesOf, Continues

\* A transaction.
LEMMA TransactionIsMade ==
  ASSUME NEW pre \in Seq(ResultSet), NEW state \in StateSet, NEW tx \in TxSet,
         NEW outcome \in Outcomes, NEW e, e = execute_transaction(tx, state, outcome),
         e.error = "none"
  PROVE  Made(e.mutation, pre, state) /\ e.mutation.kind = "transaction"
<1>1. PICK m : m = e.mutation
  OBVIOUS
<1>2. /\ m \in Executed("transaction", TxSet)
      /\ m.kind = "transaction"
      /\ m.source = tx
      /\ m.results = <<[tx |-> tx, outcome |-> outcome]>>
      /\ m.state = effects(state, tx, outcome)
      /\ outcome # "Invalid"
      /\ state[tx.signer].info = tx.nonce
  BY <1>1, ExecuteTransaction
<1>3. PICK x : x = [tx |-> tx, outcome |-> outcome]
  OBVIOUS
<1>4. outcome \in {"Success", "Revert"} /\ x \in ResultSet /\ x.tx = tx /\ x.outcome = outcome
  BY <1>2, <1>3 DEF Outcomes, ResultSet
<1>5. pre \o <<x>> = Append(pre, x)
  BY <1>4
<1>6. Follows(pre, state) => Follows(Append(pre, x), committed(state, m.state))
  BY <1>2, <1>3, <1>4, OneMore
<1>7. ASSUME NEW a \in Addresses, Undestroyed(m.results, a), a \in DOMAIN m.state
      PROVE  m.state[a].info # NoAccount
  <2>1. Spares(tx, outcome, a)
    <3>1. 1 \in DOMAIN m.results /\ m.results[1] = x
      BY <1>2, <1>3
    <3> QED
      BY <1>4, <1>7, <3>1 DEF Undestroyed
  <2>2. EffectAt(state, tx, outcome, a, m.state)
    BY <1>2, <1>4, <2>1, EffectOn
  <2> QED
    BY <1>7, <2>2 DEF EffectAt
<1>8. Continues(m, pre, state)
  BY <1>2, <1>3, <1>5, <1>6, <1>7 DEF Continues
<1>9. m \in Mutations /\ RulesOf(m)
  BY <1>2 DEF Mutations, Orders, RulesOf
<1>10. AlignedIn(m)
  <2>1. m.results = <<x>> /\ TxsOf(m) = <<tx>>
    BY <1>2, <1>3 DEF TxsOf
  <2>2. [i \in DOMAIN <<x>> |-> <<x>>[i].tx] = <<tx>>
    BY <1>4
  <2> QED
    BY <2>1, <2>2 DEF AlignedIn
<1> QED
  BY <1>1, <1>2, <1>8, <1>9, <1>10 DEF Made

\* A bundle.
LEMMA BundleIsMade ==
  ASSUME NEW pre \in Seq(ResultSet), NEW state \in StateSet, NEW bundle \in BundleSet,
         NEW outcomes \in BundleOutcomes(bundle), NEW e, e = execute_bundle(bundle, state, outcomes),
         e.error = "none"
  PROVE  Made(e.mutation, pre, state) /\ e.mutation.kind = "bundle" /\ e.mutation.executable = bundle
<1>1. PICK start : start = [db |-> state, changes |-> NoChanges, results |-> << >>,
                            discarded |-> << >>, error |-> "none"]
  OBVIOUS
<1>2. PICK r : r = RunOf(bundle, outcomes, start)
  OBVIOUS
<1>3. outcomes \in [DOMAIN bundle.txs -> Outcomes]
  BY DEF BundleOutcomes
<1>4. /\ r \in RunSet
      /\ ByTheRules(bundle, r)
      /\ r.error = "none" => InStep(pre, state, r)
  BY <1>1, <1>2, <1>3, BundleRun
<1>5. PICK source : source = FoldLeft(without_transaction, bundle, r.discarded)
  OBVIOUS
<1>6. /\ r.error = "none"
      /\ e.mutation = [kind |-> "bundle", executable |-> bundle, source |-> source,
                       results |-> r.results, state |-> r.changes]
  <2>1. e = IF ~is_eligible(bundle, Block) THEN Failed("IneligibleBundle")
            ELSE IF r.error # "none" THEN Failed(r.error)
            ELSE Result("bundle", bundle, source, r.results, r.changes)
    BY <1>1, <1>2, <1>5 DEF execute_bundle, RunOf
  <2> QED
    BY <2>1 DEF Failed, Result
<1>7. r.results \in Seq(ResultSet) /\ r.changes \in ChangesSet /\ r.discarded \in Seq(TxSet) /\ r.db \in StateSet
  BY <1>4 DEF RunSet
<1>8. \A i \in DOMAIN r.discarded : is_optional(bundle, r.discarded[i])
  BY <1>4 DEF ByTheRules
<1>9. PICK discarded : discarded = r.discarded
  OBVIOUS
<1>10. /\ source \in BundleSet
       /\ source.dropping_tx_hashes \subseteq bundle.dropping_tx_hashes
       /\ LeftOf(bundle, source)
  <2>1. source = FoldLeft(without_transaction, bundle, discarded)
    BY <1>5, <1>9
  <2> QED
    BY <1>7, <1>8, <1>9, <2>1, DiscardedAreDropped
<1>11. PICK m : m = e.mutation
  OBVIOUS
<1>12. /\ m.kind = "bundle" /\ m.executable = bundle /\ m.source = source
       /\ m.results = r.results /\ m.state = r.changes
  BY <1>6, <1>11
<1>13. m \in Mutations
  BY <1>6, <1>7, <1>10, <1>11 DEF Mutations, Orders, Executed
<1>14. RulesOf(m)
  BY <1>4, <1>10, <1>12 DEF RulesOf, ByTheRules
<1>15. ASSUME Follows(pre, state) PROVE Follows(pre \o m.results, committed(state, m.state))
  <2>1. Follows(pre \o r.results, r.db)
    BY <1>4, <1>6, <1>15 DEF InStep
  <2>2. pre \o r.results \in Seq(ResultSet)
    BY <1>7, ConcatProperties
  <2>3. ASSUME NEW a \in Addresses, Undestroyed(pre \o r.results, a)
        PROVE  committed(state, r.changes)[a] = r.db[a]
    <3>1. PICK res : res = r.results
      OBVIOUS
    <3>2. \A i \in DOMAIN res : Len(pre) + i \in DOMAIN (pre \o res) /\ (pre \o res)[Len(pre) + i] = res[i]
      BY <1>7, <3>1
    <3>3. Undestroyed(res, a)
      BY <2>3, <3>1, <3>2 DEF Undestroyed
    <3> QED
      BY <1>4, <1>6, <3>1, <3>3 DEF InStep
  <2> QED
    BY <1>12, <2>1, <2>2, <2>3, FollowsWith
<1>16. ASSUME NEW a \in Addresses, Undestroyed(m.results, a), a \in DOMAIN m.state
       PROVE  m.state[a].info # NoAccount
  BY <1>4, <1>6, <1>12, <1>16 DEF InStep
<1>17. Continues(m, pre, state)
  BY <1>15, <1>16 DEF Continues
<1>18. ASSUME Clear(m) PROVE AlignedIn(m)
  <2>1. Once(bundle)
    BY <1>12, <1>18 DEF Clear
  <2>2. Dropped(bundle, r.discarded).txs = [i \in DOMAIN r.results |-> r.results[i].tx]
    BY <1>1, <1>2, <1>3, <1>6, <2>1, BundleAligned
  <2>3. TxsOf(m) = source.txs
    BY <1>12 DEF TxsOf
  <2> QED
    BY <1>5, <1>12, <2>2, <2>3 DEF AlignedIn, Dropped
<1> QED
  BY <1>11, <1>12, <1>13, <1>14, <1>17, <1>18 DEF Made

(***************************************************************************)
(* The tree of checkpoints.  P is a sequence of checkpoints, so that the   *)
(* same facts hold before and after a step.                                *)
(***************************************************************************)

CheckpointSet == [prev : Nat, depth : Nat, mutation : Mutations]

\* A checkpoint is built on an older one; the first one is a barrier.
Tree(P) ==
  /\ P \in Seq(CheckpointSet)
  /\ P # << >>
  /\ P[1].depth = 0 /\ P[1].mutation = Barrier
  /\ \A c \in DOMAIN P : c # 1 => /\ P[c].prev \in DOMAIN P /\ P[c].prev < c
                                  /\ P[c].depth = P[P[c].prev].depth + 1

Built(P, c, m) == Append(P, [prev |-> c, depth |-> P[c].depth + 1, mutation |-> m])

\* A checkpoint and those before it.
WayBack(P, c, m, f) == f = [n \in 0..m |-> IF n = 0 THEN c ELSE P[f[n - 1]].prev]

Path(P, c) == CHOOSE f : WayBack(P, c, P[c].depth, f)

HistoryOf(P, c) == [i \in 1..(P[c].depth + 1) |-> Path(P, c)[P[c].depth + 1 - i]]

\* What a tree is at each checkpoint.
LEMMA TreeAt ==
  ASSUME NEW P, Tree(P)
  PROVE  \E n \in Nat : /\ n >= 1 /\ DOMAIN P = 1..n /\ Len(P) = n
                        /\ \A c \in 1..n : /\ P[c] \in CheckpointSet
                                           /\ P[c].depth \in Nat
                                           /\ P[c].depth = 0 <=> c = 1
                                           /\ P[c].mutation \in Mutations
<1>1. P \in Seq(CheckpointSet) /\ P # << >>
  BY DEF Tree
<1>2. PICK n \in Nat : n >= 1 /\ DOMAIN P = 1..n /\ Len(P) = n
  BY <1>1
<1>3. \A c \in 1..n : P[c] \in CheckpointSet
  BY <1>1, <1>2
<1>4. \A c \in 1..n : P[c].depth \in Nat /\ P[c].mutation \in Mutations
  BY <1>3 DEF CheckpointSet
<1>5. ASSUME NEW c \in 1..n PROVE P[c].depth = 0 <=> c = 1
  <2>1. c = 1 => P[c].depth = 0
    BY DEF Tree
  <2>2. c # 1 => P[c].prev \in 1..n /\ P[c].depth = P[P[c].prev].depth + 1
    BY <1>2 DEF Tree
  <2>3. c # 1 => P[c].depth # 0
    BY <1>4, <2>2
  <2> QED
    BY <2>1, <2>3
<1> QED
  BY <1>2, <1>3, <1>4, <1>5

\* Checkpoint::iter ends at the first checkpoint.
LEMMA WayBackLeads ==
  ASSUME NEW P, Tree(P), NEW c \in DOMAIN P, NEW f, WayBack(P, c, P[c].depth, f)
  PROVE  \A n \in 0..P[c].depth : f[n] \in DOMAIN P /\ P[f[n]].depth = P[c].depth - n
<1>1. PICK l \in Nat : /\ DOMAIN P = 1..l
                       /\ \A e \in 1..l : P[e].depth \in Nat /\ (P[e].depth = 0 <=> e = 1)
  BY TreeAt
<1>2. PICK d \in Nat : d = P[c].depth
  BY <1>1
<1> DEFINE T == {n \in Nat : n <= d => f[n] \in DOMAIN P /\ P[f[n]].depth = d - n}
<1>3. 0 \in T
  <2>1. 0 \in 0..d
    BY <1>2
  <2>2. f[0] = c
    BY <1>2, <2>1 DEF WayBack
  <2> QED
    BY <1>2, <2>2
<1>4. ASSUME NEW n \in T PROVE n + 1 \in T
  <2>1. n \in Nat /\ n + 1 \in Nat /\ (n + 1) - 1 = n /\ n + 1 # 0
    OBVIOUS
  <2> SUFFICES ASSUME n + 1 <= d PROVE f[n + 1] \in DOMAIN P /\ P[f[n + 1]].depth = d - (n + 1)
    BY <2>1
  <2>2. n + 1 \in 0..d /\ n <= d /\ d - n # 0
    BY <1>2, <2>1
  <2>3. f[n] \in DOMAIN P /\ P[f[n]].depth = d - n
    BY <2>2
  <2>4. f[n + 1] = P[f[n]].prev
    BY <1>2, <2>1, <2>2 DEF WayBack
  <2>5. f[n] # 1
    BY <1>1, <2>2, <2>3
  <2>6. P[f[n]].prev \in DOMAIN P /\ P[f[n]].depth = P[P[f[n]].prev].depth + 1
    BY <2>3, <2>5 DEF Tree
  <2>7. P[f[n + 1]].depth \in Nat
    BY <1>1, <2>4, <2>6
  <2> HIDE DEF T
  <2>8. d - n = P[f[n + 1]].depth + 1
    BY <2>3, <2>4, <2>6
  <2>9. P[f[n + 1]].depth = d - (n + 1)
    BY <2>1, <2>7, <2>8
  <2> QED
    BY <2>4, <2>6, <2>9
<1>5. T \in SUBSET Nat
  OBVIOUS
<1>6. T = Nat
  <2> HIDE DEF T
  <2> QED
    BY <1>3, <1>4, <1>5, NatSetInduction
<1> QED
  BY <1>2, <1>6

\* There is one way back.
LEMMA PathIs ==
  ASSUME NEW P, NEW c, P[c].depth \in Nat
  PROVE  /\ WayBack(P, c, P[c].depth, Path(P, c))
         /\ \A g : WayBack(P, c, P[c].depth, g) => g = Path(P, c)
<1>1. PICK d \in Nat : d = P[c].depth
  OBVIOUS
<1> DEFINE T == {m \in Nat : \E f : WayBack(P, c, m, f)}
<1>2. 0 \in T
  <2> DEFINE f0 == [n \in 0..0 |-> c]
  <2>1. \A n \in 0..0 : n = 0
    OBVIOUS
  <2>2. WayBack(P, c, 0, f0)
    BY <2>1 DEF WayBack
  <2> QED
    BY <2>2
<1>3. ASSUME NEW m \in T PROVE m + 1 \in T
  <2>1. m \in Nat /\ m + 1 \in Nat
    OBVIOUS
  <2>2. PICK f : WayBack(P, c, m, f)
    OBVIOUS
  <2> DEFINE new == [n \in 0..(m + 1) |-> IF n = 0 THEN c ELSE P[f[n - 1]].prev]
  <2>3. \A n \in 0..m : n \in 0..(m + 1) /\ new[n] = f[n]
    <3>1. ASSUME NEW n \in 0..m PROVE n \in 0..(m + 1) /\ new[n] = f[n]
      <4>1. n \in 0..(m + 1)
        BY <2>1
      <4>2. f[n] = IF n = 0 THEN c ELSE P[f[n - 1]].prev
        BY <2>2 DEF WayBack
      <4> QED
        BY <4>1, <4>2
    <3> QED
      BY <3>1
  <2>4. \A n \in 0..(m + 1) : n # 0 => n - 1 \in 0..m
    BY <2>1
  <2>5. \A n \in 0..(m + 1) : new[n] = IF n = 0 THEN c ELSE P[new[n - 1]].prev
    BY <2>3, <2>4
  <2>6. new = [n \in 0..(m + 1) |-> new[n]]
    OBVIOUS
  <2> HIDE DEF new
  <2>7. WayBack(P, c, m + 1, new)
    BY <2>5, <2>6 DEF WayBack
  <2> QED
    BY <2>1, <2>7
<1>4. T \in SUBSET Nat
  OBVIOUS
<1>5. d \in T
  <2> HIDE DEF T
  <2> QED
    BY <1>2, <1>3, <1>4, NatSetInduction
<1>6. WayBack(P, c, d, Path(P, c))
  BY <1>1, <1>5 DEF Path
<1>7. PICK f : f = Path(P, c)
  OBVIOUS
<1>8. ASSUME NEW g, WayBack(P, c, d, g) PROVE g = f
  <2>1. WayBack(P, c, d, f)
    BY <1>6, <1>7
  <2> DEFINE U == {n \in Nat : n <= d => g[n] = f[n]}
  <2>2. 0 \in U
    BY <1>8, <2>1 DEF WayBack
  <2>3. ASSUME NEW n \in U PROVE n + 1 \in U
    <3>1. n \in Nat /\ n + 1 \in Nat /\ (n + 1) - 1 = n /\ n + 1 # 0
      OBVIOUS
    <3>2. n + 1 <= d => n + 1 \in 0..d /\ n <= d
      BY <3>1
    <3>3. n + 1 <= d => g[n + 1] = P[g[n]].prev
      BY <1>8, <3>1, <3>2 DEF WayBack
    <3>4. n + 1 <= d => f[n + 1] = P[f[n]].prev
      BY <2>1, <3>1, <3>2 DEF WayBack
    <3> QED
      BY <3>1, <3>2, <3>3, <3>4
  <2>4. U \in SUBSET Nat
    OBVIOUS
  <2>5. U = Nat
    <3> HIDE DEF U
    <3> QED
      BY <2>2, <2>3, <2>4, NatSetInduction
  <2>6. \A n \in 0..d : g[n] = f[n]
    BY <2>5
  <2>7. f = [n \in 0..d |-> f[n]] /\ g = [n \in 0..d |-> g[n]]
    BY <1>8, <2>1 DEF WayBack
  <2> QED
    BY <2>6, <2>7
<1> QED
  BY <1>1, <1>6, <1>7, <1>8

\* Where the way back leads.
LEMMA PathLeads ==
  ASSUME NEW P, Tree(P), NEW c \in DOMAIN P
  PROVE  /\ Path(P, c) = [n \in 0..P[c].depth |-> Path(P, c)[n]]
         /\ Path(P, c)[0] = c
         /\ Path(P, c)[P[c].depth] = 1
         /\ \A n \in 0..P[c].depth : Path(P, c)[n] \in DOMAIN P /\ P[Path(P, c)[n]].depth = P[c].depth - n
<1>1. PICK l \in Nat : /\ DOMAIN P = 1..l
                       /\ \A e \in 1..l : P[e].depth \in Nat /\ (P[e].depth = 0 <=> e = 1)
  BY TreeAt
<1>2. PICK d \in Nat : d = P[c].depth
  BY <1>1
<1>3. PICK f : f = Path(P, c)
  OBVIOUS
<1>4. WayBack(P, c, d, f)
  BY <1>2, <1>3, PathIs
<1>5. \A n \in 0..d : f[n] \in DOMAIN P /\ P[f[n]].depth = d - n
  BY <1>2, <1>4, WayBackLeads
<1>6. 0 \in 0..d /\ d \in 0..d
  BY <1>2
<1>7. f = [n \in 0..d |-> f[n]] /\ f[0] = c
  BY <1>4, <1>6 DEF WayBack
<1>8. f[d] = 1
  <2>1. f[d] \in DOMAIN P /\ P[f[d]].depth = d - d
    BY <1>5, <1>6
  <2> QED
    BY <1>1, <1>2, <2>1
<1> QED
  BY <1>2, <1>3, <1>5, <1>7, <1>8

\* A tree with one checkpoint more: the others are as they were.
LEMMA BuiltIs ==
  ASSUME NEW P, Tree(P), NEW c \in DOMAIN P, NEW m \in Mutations, NEW Q, Q = Built(P, c, m)
  PROVE  /\ Tree(Q)
         /\ Len(Q) = Len(P) + 1
         /\ Len(P) \in Nat
         /\ DOMAIN P = 1..Len(P)
         /\ DOMAIN Q = 1..(Len(P) + 1)
         /\ \A e \in DOMAIN P : e \in DOMAIN Q /\ Q[e] = P[e]
         /\ Q[Len(P) + 1].prev = c
         /\ Q[Len(P) + 1].depth = P[c].depth + 1
         /\ Q[Len(P) + 1].mutation = m
<1>1. PICK n \in Nat : /\ n >= 1 /\ DOMAIN P = 1..n /\ Len(P) = n
                       /\ \A e \in 1..n : P[e] \in CheckpointSet /\ P[e].depth \in Nat
  BY TreeAt
<1>2. P \in Seq(CheckpointSet)
  BY DEF Tree
<1>3. PICK x : x = [prev |-> c, depth |-> P[c].depth + 1, mutation |-> m]
  OBVIOUS
<1>4. c \in Nat /\ c < n + 1 /\ P[c].depth + 1 \in Nat
  BY <1>1
<1>5. x \in CheckpointSet /\ x.prev = c /\ x.depth = P[c].depth + 1 /\ x.mutation = m
  BY <1>3, <1>4 DEF CheckpointSet
<1>6. Q = Append(P, x)
  BY <1>3 DEF Built
<1>7. /\ Q \in Seq(CheckpointSet) /\ Q # << >> /\ DOMAIN Q = 1..(n + 1) /\ Len(Q) = n + 1
      /\ Q[n + 1] = x
      /\ \A e \in 1..n : Q[e] = P[e]
  BY <1>1, <1>2, <1>5, <1>6
<1>8. \A e \in 1..n : e \in 1..(n + 1) /\ e # n + 1
  BY <1>1
<1>9. \A e \in 1..(n + 1) : e = n + 1 \/ e \in 1..n
  BY <1>1
<1>10. 1 \in 1..n /\ n + 1 # 1
  BY <1>1
<1>11. Q[1].depth = 0 /\ Q[1].mutation = Barrier
  BY <1>7, <1>10 DEF Tree
<1>12. ASSUME NEW e \in DOMAIN Q, e # 1
       PROVE  Q[e].prev \in DOMAIN Q /\ Q[e].prev < e /\ Q[e].depth = Q[Q[e].prev].depth + 1
  <2>1. CASE e = n + 1
    BY <1>1, <1>4, <1>5, <1>7, <1>8, <2>1
  <2>2. CASE e \in 1..n
    <3>1. Q[e] = P[e] /\ P[e].prev \in 1..n /\ P[e].prev < e /\ P[e].depth = P[P[e].prev].depth + 1
      BY <1>1, <1>7, <1>12, <2>2 DEF Tree
    <3> QED
      BY <1>7, <1>8, <3>1
  <2> QED
    BY <1>7, <1>9, <2>1, <2>2
<1>13. Tree(Q)
  BY <1>7, <1>11, <1>12 DEF Tree
<1> QED
  BY <1>1, <1>3, <1>5, <1>7, <1>8, <1>13

\* The way back from old checkpoints is the same, and that from the new one leads to the
\* one it was built on.
LEMMA PathBuilt ==
  ASSUME NEW P, Tree(P), NEW c \in DOMAIN P, NEW m \in Mutations, NEW Q, Q = Built(P, c, m)
  PROVE  /\ \A e \in DOMAIN P : Path(Q, e) = Path(P, e)
         /\ Path(Q, Len(P) + 1) =
              [n \in 0..(P[c].depth + 1) |-> IF n = 0 THEN Len(P) + 1 ELSE Path(P, c)[n - 1]]
<1>1. PICK l \in Nat : /\ l = Len(P) /\ DOMAIN P = 1..l
                       /\ \A e \in 1..l : P[e].depth \in Nat
  BY TreeAt
<1>2. /\ \A e \in DOMAIN P : Q[e] = P[e]
      /\ Q[l + 1].prev = c
      /\ Q[l + 1].depth = P[c].depth + 1
  BY <1>1, BuiltIs
<1>3. ASSUME NEW e \in DOMAIN P PROVE Path(Q, e) = Path(P, e)
  <2>1. PICK d \in Nat : d = P[e].depth /\ d = Q[e].depth
    BY <1>1, <1>2
  <2>2. PICK f : f = Path(P, e)
    OBVIOUS
  <2>3. WayBack(P, e, d, f) /\ \A n \in 0..d : f[n] \in DOMAIN P
    <3>1. WayBack(P, e, d, f)
      BY <2>1, <2>2, PathIs
    <3>2. \A n \in 0..d : f[n] \in DOMAIN P
      BY <2>1, <2>2, PathLeads
    <3> QED
      BY <3>1, <3>2
  <2>4. \A n \in 0..d : n # 0 => n - 1 \in 0..d
    BY <2>1
  <2>5. \A n \in 0..d : n # 0 => Q[f[n - 1]] = P[f[n - 1]]
    BY <1>2, <2>3, <2>4
  <2>6. WayBack(Q, e, d, f)
    BY <2>3, <2>5 DEF WayBack
  <2> QED
    BY <2>1, <2>2, <2>6, PathIs
<1>4. PICK d \in Nat : d = P[c].depth
  BY <1>1
<1>5. PICK f : f = Path(P, c)
  OBVIOUS
<1>6. /\ WayBack(P, c, d, f)
      /\ \A n \in 0..d : f[n] \in DOMAIN P
  BY <1>4, <1>5, PathIs, PathLeads
<1> DEFINE g == [n \in 0..(d + 1) |-> IF n = 0 THEN l + 1 ELSE f[n - 1]]
<1>7. \A n \in 0..(d + 1) : n # 0 => n - 1 \in 0..d /\ (n - 1 # 0 => (n - 1) - 1 \in 0..d)
  BY <1>4
<1>8. ASSUME NEW n \in 0..(d + 1) PROVE g[n] = IF n = 0 THEN l + 1 ELSE Q[g[n - 1]].prev
  <2>1. CASE n = 0
    BY <2>1
  <2>2. CASE n # 0
    <3>1. g[n] = f[n - 1] /\ n - 1 \in 0..d
      BY <1>7, <2>2
    <3>2. CASE n - 1 = 0
      <4>1. f[n - 1] = c
        BY <1>6, <3>1, <3>2 DEF WayBack
      <4>2. n - 1 \in 0..(d + 1) /\ g[n - 1] = l + 1
        BY <1>4, <3>2
      <4> QED
        BY <1>2, <2>2, <3>1, <4>1, <4>2
    <3>3. CASE n - 1 # 0
      <4>1. f[n - 1] = P[f[(n - 1) - 1]].prev
        BY <1>6, <3>1, <3>3 DEF WayBack
      <4>2. n - 1 \in 0..(d + 1) /\ g[n - 1] = f[(n - 1) - 1]
        BY <1>4, <3>1, <3>3
      <4>3. (n - 1) - 1 \in 0..d
        BY <1>7, <2>2, <3>3
      <4>4. Q[f[(n - 1) - 1]] = P[f[(n - 1) - 1]]
        BY <1>2, <1>6, <4>3
      <4> QED
        BY <2>2, <3>1, <4>1, <4>2, <4>4
    <3> QED
      BY <3>2, <3>3
  <2> QED
    BY <2>1, <2>2
<1>9. g = [n \in 0..(d + 1) |-> g[n]]
  OBVIOUS
<1> HIDE DEF g
<1>10. WayBack(Q, l + 1, d + 1, g)
  BY <1>8, <1>9 DEF WayBack
<1>11. g = Path(Q, l + 1)
  <2>1. Q[l + 1].depth = d + 1 /\ d + 1 \in Nat
    BY <1>2, <1>4
  <2>2. Q[l + 1].depth \in Nat /\ WayBack(Q, l + 1, Q[l + 1].depth, g)
    BY <1>10, <2>1
  <2> QED
    BY <2>2, PathIs
<1> QED
  BY <1>1, <1>3, <1>4, <1>5, <1>11 DEF g

\* A history is a sequence from the first checkpoint to the last.
LEMMA HistoryLeads ==
  ASSUME NEW P, Tree(P), NEW c \in DOMAIN P, NEW h, h = HistoryOf(P, c)
  PROVE  /\ h \in Seq(DOMAIN P)
         /\ Len(h) = P[c].depth + 1
         /\ DOMAIN h = 1..(P[c].depth + 1)
         /\ h[1] = 1
         /\ h[P[c].depth + 1] = c
         /\ \A i \in DOMAIN h : h[i] \in DOMAIN P /\ P[h[i]].depth = i - 1
<1>1. PICK l \in Nat : /\ DOMAIN P = 1..l /\ \A e \in 1..l : P[e].depth \in Nat
  BY TreeAt
<1>2. PICK d \in Nat : d = P[c].depth
  BY <1>1
<1>3. PICK f : f = Path(P, c)
  OBVIOUS
<1>4. /\ f[0] = c /\ f[d] = 1
      /\ \A n \in 0..d : f[n] \in DOMAIN P /\ P[f[n]].depth = d - n
  BY <1>2, <1>3, PathLeads
<1>5. h = [i \in 1..(d + 1) |-> f[d + 1 - i]]
  BY <1>2, <1>3 DEF HistoryOf
<1>6. \A i \in 1..(d + 1) : d + 1 - i \in 0..d /\ d - (d + 1 - i) = i - 1
  BY <1>2
<1>7. \A i \in 1..(d + 1) : h[i] \in DOMAIN P /\ P[h[i]].depth = i - 1
  BY <1>4, <1>5, <1>6
<1>8. d + 1 \in Nat /\ 1 \in 1..(d + 1) /\ d + 1 \in 1..(d + 1) /\ d + 1 - 1 = d /\ d + 1 - (d + 1) = 0
  BY <1>2
<1>9. h[1] = 1 /\ h[d + 1] = c
  BY <1>4, <1>5, <1>8
<1>10. h \in Seq(DOMAIN P) /\ Len(h) = d + 1 /\ DOMAIN h = 1..(d + 1)
  <2>1. h \in [1..(d + 1) -> DOMAIN P]
    BY <1>5, <1>7
  <2>2. d + 1 \in Nat
    BY <1>8
  <2> QED
    BY <2>1, <2>2
<1> QED
  BY <1>2, <1>7, <1>9, <1>10

\* Histories of old checkpoints stay, that of the new one is one longer.
LEMMA HistoryBuilt ==
  ASSUME NEW P, Tree(P), NEW c \in DOMAIN P, NEW m \in Mutations, NEW Q, Q = Built(P, c, m)
  PROVE  /\ \A e \in DOMAIN P : HistoryOf(Q, e) = HistoryOf(P, e)
         /\ HistoryOf(Q, Len(P) + 1) = Append(HistoryOf(P, c), Len(P) + 1)
<1>1. PICK l \in Nat : /\ l = Len(P) /\ DOMAIN P = 1..l /\ \A e \in 1..l : P[e].depth \in Nat
  BY TreeAt
<1>2. /\ \A e \in DOMAIN P : Q[e] = P[e]
      /\ Q[l + 1].depth = P[c].depth + 1
  BY <1>1, BuiltIs
<1>3. PICK d \in Nat : d = P[c].depth
  BY <1>1
<1>4. PICK f : f = Path(P, c)
  OBVIOUS
<1>5. PICK g : g = [n \in 0..(d + 1) |-> IF n = 0 THEN l + 1 ELSE f[n - 1]]
  OBVIOUS
<1>6. /\ \A e \in DOMAIN P : Path(Q, e) = Path(P, e)
      /\ Path(Q, l + 1) = g
  <2>1. /\ \A e \in DOMAIN P : Path(Q, e) = Path(P, e)
        /\ Path(Q, Len(P) + 1) =
             [n \in 0..(P[c].depth + 1) |-> IF n = 0 THEN Len(P) + 1 ELSE Path(P, c)[n - 1]]
    BY PathBuilt
  <2>2. g = [n \in 0..(P[c].depth + 1) |-> IF n = 0 THEN Len(P) + 1 ELSE Path(P, c)[n - 1]]
    BY <1>1, <1>3, <1>4, <1>5
  <2> QED
    BY <1>1, <2>1, <2>2
<1>7. \A e \in DOMAIN P : HistoryOf(Q, e) = HistoryOf(P, e)
  BY <1>2, <1>6 DEF HistoryOf
<1>8. PICK h : h = HistoryOf(P, c)
  OBVIOUS
<1>9. h \in Seq(DOMAIN P) /\ Len(h) = d + 1
  BY <1>3, <1>8, HistoryLeads
<1>10. PICK k : k = Append(h, l + 1)
  OBVIOUS
<1>11. /\ k = [i \in 1..(d + 2) |-> k[i]]
       /\ \A i \in 1..(d + 1) : k[i] = h[i]
       /\ k[d + 2] = l + 1
  BY <1>3, <1>9, <1>10
<1>12. HistoryOf(Q, l + 1) = [i \in 1..(d + 2) |-> g[d + 2 - i]]
  <2>1. d + 1 + 1 = d + 2
    BY <1>3
  <2> QED
    BY <1>2, <1>3, <1>6, <2>1, SMTT(30) DEF HistoryOf
<1>13. ASSUME NEW i \in 1..(d + 2) PROVE g[d + 2 - i] = k[i]
  <2>1. CASE i = d + 2
    <3>1. d + 2 - i = 0 /\ 0 \in 0..(d + 1)
      BY <1>3, <2>1
    <3> QED
      BY <1>5, <1>11, <2>1, <3>1
  <2>2. CASE i # d + 2
    <3>1. d + 2 - i \in 0..(d + 1) /\ d + 2 - i # 0 /\ (d + 2 - i) - 1 = d + 1 - i /\ i \in 1..(d + 1)
      BY <1>3, <2>2
    <3>2. g[d + 2 - i] = f[d + 1 - i]
      BY <1>5, <3>1
    <3>3. h[i] = f[d + 1 - i]
      BY <1>3, <1>4, <1>8, <3>1 DEF HistoryOf
    <3> QED
      BY <1>11, <3>1, <3>2, <3>3
  <2> QED
    BY <2>1, <2>2
<1>14. HistoryOf(Q, l + 1) = k
  BY <1>11, <1>12, <1>13
<1> QED
  BY <1>1, <1>7, <1>8, <1>10, <1>14

(***************************************************************************)
(* Looking something up                                                    *)
(***************************************************************************)

WithInfo(P, a) ==
  {e \in DOMAIN P : a \in DOMAIN P[e].mutation.state /\ P[e].mutation.state[a].info # NoAccount}

WithSlot(P, a) ==
  {e \in DOMAIN P : a \in DOMAIN P[e].mutation.state /\ P[e].mutation.state[a].slot # None}

Hits(P, c, found) == {n \in 0..P[c].depth : Path(P, c)[n] \in found}

NewestOf(P, c, found) ==
  IF Hits(P, c, found) = {} THEN NoCheckpoint ELSE Path(P, c)[Min(Hits(P, c, found))]

InfoOf(P, c, a) ==
  IF NewestOf(P, c, WithInfo(P, a)) = NoCheckpoint THEN Base[a].info
  ELSE P[NewestOf(P, c, WithInfo(P, a))].mutation.state[a].info

SlotOf(P, c, a) ==
  IF NewestOf(P, c, WithSlot(P, a)) = NoCheckpoint THEN Base[a].slot
  ELSE P[NewestOf(P, c, WithSlot(P, a))].mutation.state[a].slot

DatabaseOf(P, c) == [a \in Addresses |-> [info |-> InfoOf(P, c, a), slot |-> SlotOf(P, c, a)]]

\* Everything executed in the history.
ResultsIn(P, h) == FlattenSeq([i \in DOMAIN h |-> P[h[i]].mutation.results])

ResultsOf(P, c) == ResultsIn(P, HistoryOf(P, c))

\* These are what the model reads of a checkpoint.
LEMMA ReadsAre ==
  ASSUME Tree(checkpoints), NEW c \in DOMAIN checkpoints
  PROVE  /\ iter(c) = Path(checkpoints, c)
         /\ history(c) = HistoryOf(checkpoints, c)
         /\ executed(c) = ResultsOf(checkpoints, c)
         /\ database(c) = DatabaseOf(checkpoints, c)
<1>1. PICK l \in Nat : /\ DOMAIN checkpoints = 1..l
                       /\ \A e \in 1..l : /\ checkpoints[e].depth \in Nat
                                          /\ checkpoints[e].depth = 0 <=> e = 1
  BY TreeAt
<1>2. iter(c) = Path(checkpoints, c)
  BY DEF iter, Path, WayBack, depth, prev
<1>3. PICK f : f = Path(checkpoints, c)
  OBVIOUS
<1>4. PICK d \in Nat : d = depth(c) /\ d = checkpoints[c].depth
  BY <1>1 DEF depth
<1>5. /\ f = [n \in 0..d |-> f[n]] /\ f[0] = c /\ f[d] = 1
  BY <1>3, <1>4, PathLeads
<1>6. root(c) = 1 /\ depth(1) = 0
  BY <1>1, <1>2, <1>3, <1>4, <1>5 DEF root, depth
<1>7. history(c) = HistoryOf(checkpoints, c)
  <2>1. HistoryOf(checkpoints, c) = [i \in 1..(d + 1) |-> f[d + 1 - i]]
    BY <1>3, <1>4 DEF HistoryOf
  <2>2. CASE c = 1
    <3>1. d = 0
      BY <1>1, <1>4, <2>2
    <3>2. history(c) = <<c>>
      BY <1>6, <2>2 DEF history, between
    <3>3. \A i \in 1..1 : f[0 + 1 - i] = c
      BY <1>5
    <3>4. [i \in 1..(0 + 1) |-> f[0 + 1 - i]] = <<c>>
      BY <3>3
    <3> QED
      BY <2>1, <3>1, <3>2, <3>4
  <2>3. CASE c # 1
    <3>1. ~(d < 0) /\ d - 0 = d
      BY <1>4
    <3>2. between(c, 1) = [i \in 1..(d + 1) |-> f[d + 1 - i]]
      BY <1>2, <1>3, <1>4, <1>5, <1>6, <2>3, <3>1 DEF between
    <3> QED
      BY <1>6, <2>1, <3>2 DEF history
  <2> QED
    BY <2>2, <2>3
<1>8. executed(c) = ResultsOf(checkpoints, c)
  BY <1>7 DEF executed, ResultsOf, ResultsIn
<1>9. \A found : newest(c, found) = NewestOf(checkpoints, c, found)
  <2>1. DOMAIN f = 0..checkpoints[c].depth
    BY <1>4, <1>5
  <2> QED
    BY <1>2, <1>3, <2>1 DEF newest, NewestOf, Hits
<1>10. \A a : {e \in touching(a) : changes(e)[a].info # NoAccount} = WithInfo(checkpoints, a)
  BY DEF touching, changes, WithInfo
<1>11. \A a : {e \in touching(a) : changes(e)[a].slot # None} = WithSlot(checkpoints, a)
  BY DEF touching, changes, WithSlot
<1>12. \A a : basic_ref(c, a) = InfoOf(checkpoints, c, a)
  BY <1>9, <1>10 DEF basic_ref, InfoOf, changes
<1>13. \A a : storage_ref(c, a) = SlotOf(checkpoints, c, a)
  BY <1>9, <1>11 DEF storage_ref, SlotOf, changes
<1>14. database(c) = DatabaseOf(checkpoints, c)
  BY <1>12, <1>13 DEF database, DatabaseOf
<1> QED
  BY <1>2, <1>7, <1>8, <1>14

\* The search starts at the new checkpoint and goes on where it was built.
LEMMA NewestBuilt ==
  ASSUME NEW P, Tree(P), NEW c \in DOMAIN P, NEW m \in Mutations, NEW Q, Q = Built(P, c, m),
         NEW found, NEW more, NEW new, new = Len(P) + 1,
         \A e \in DOMAIN P : e \in more <=> e \in found
  PROVE  /\ \A e \in DOMAIN P : NewestOf(Q, e, more) = NewestOf(P, e, found)
         /\ NewestOf(Q, new, more) = IF new \in more THEN new ELSE NewestOf(P, c, found)
<1>1. PICK l \in Nat : /\ l = Len(P) /\ DOMAIN P = 1..l /\ \A e \in 1..l : P[e].depth \in Nat
  BY TreeAt
<1>2. /\ \A e \in DOMAIN P : Q[e] = P[e]
      /\ Q[new].depth = P[c].depth + 1
  BY BuiltIs
<1>3. PICK d \in Nat : d = P[c].depth
  BY <1>1
<1>4. PICK f : f = Path(P, c)
  OBVIOUS
<1>5. PICK g : g = [n \in 0..(d + 1) |-> IF n = 0 THEN new ELSE f[n - 1]]
  OBVIOUS
<1>6. /\ \A e \in DOMAIN P : Path(Q, e) = Path(P, e)
      /\ Path(Q, new) = g
  <2>1. /\ \A e \in DOMAIN P : Path(Q, e) = Path(P, e)
        /\ Path(Q, Len(P) + 1) =
             [n \in 0..(P[c].depth + 1) |-> IF n = 0 THEN Len(P) + 1 ELSE Path(P, c)[n - 1]]
    BY PathBuilt
  <2> QED
    BY <1>3, <1>4, <1>5, <2>1
<1>7. ASSUME NEW e \in DOMAIN P PROVE NewestOf(Q, e, more) = NewestOf(P, e, found)
  <2>1. \A n \in 0..P[e].depth : Path(P, e)[n] \in DOMAIN P
    BY PathLeads
  <2>2. Hits(Q, e, more) = Hits(P, e, found)
    BY <1>2, <1>6, <2>1 DEF Hits
  <2> QED
    BY <1>6, <2>2 DEF NewestOf
<1>8. \A n \in 0..d : f[n] \in DOMAIN P
  BY <1>3, <1>4, PathLeads
<1>9. PICK old : old = Hits(P, c, found)
  OBVIOUS
<1>10. PICK hits : hits = Hits(Q, new, more)
  OBVIOUS
<1>11. old = {n \in 0..d : f[n] \in found}
  BY <1>3, <1>4, <1>9 DEF Hits
<1>12. hits = {n \in 0..(d + 1) : g[n] \in more}
  BY <1>2, <1>3, <1>6, <1>10 DEF Hits
<1>13. g[0] = new /\ \A n \in 0..d : n + 1 \in 0..(d + 1) /\ g[n + 1] = f[n]
  <2>1. 0 \in 0..(d + 1) /\ \A n \in 0..d : n + 1 \in 0..(d + 1) /\ n + 1 # 0 /\ (n + 1) - 1 = n
    BY <1>3
  <2> QED
    BY <1>5, <2>1
<1>14. \A n \in 0..(d + 1) : n # 0 => n - 1 \in 0..d /\ g[n] = f[n - 1]
  <2>1. \A n \in 0..(d + 1) : n # 0 => n - 1 \in 0..d
    BY <1>3
  <2> QED
    BY <1>5, <2>1
<1>15. hits \in SUBSET Nat /\ old \in SUBSET Nat
  BY <1>11, <1>12, <1>3
<1>16. CASE new \in more
  <2>1. 0 \in hits
    BY <1>3, <1>12, <1>13, <1>16
  <2>2. Min(hits) \in hits /\ Min(hits) <= 0
    BY <1>15, <2>1, MinOf
  <2>3. Min(hits) = 0
    <3>1. \A z \in Nat : z <= 0 => z = 0
      OBVIOUS
    <3>2. Min(hits) \in Nat
      BY <1>15, <2>2
    <3> QED
      BY <2>2, <3>1, <3>2
  <2>4. NewestOf(Q, new, more) = new
    BY <1>6, <1>10, <1>13, <2>1, <2>3 DEF NewestOf
  <2> QED
    BY <1>7, <1>16, <2>4
<1>17. CASE new \notin more
  <2>1. \A n \in old : n + 1 \in hits
    BY <1>8, <1>11, <1>12, <1>13
  <2>2. \A n \in hits : n # 0 /\ n - 1 \in old /\ g[n] = f[n - 1]
    BY <1>8, <1>11, <1>12, <1>13, <1>14, <1>17
  <2>3. CASE old = {}
    <3>1. hits = {}
      BY <2>2, <2>3
    <3> QED
      BY <1>7, <1>9, <1>10, <1>17, <2>3, <3>1 DEF NewestOf
  <2>4. CASE old # {}
    <3>1. PICK x : x = Min(old)
      OBVIOUS
    <3>2. x \in old /\ \A y \in old : x <= y
      BY <1>15, <2>4, <3>1, MinOf
    <3>3. hits # {}
      BY <2>1, <3>2
    <3>4. PICK z : z = Min(hits)
      OBVIOUS
    <3>5. z \in hits /\ \A y \in hits : z <= y
      BY <1>15, <3>3, <3>4, MinOf
    <3>6. z <= x + 1 /\ x <= z - 1 /\ z \in Nat /\ x \in Nat
      BY <1>15, <2>1, <2>2, <3>2, <3>5
    <3>7. z - 1 = x
      BY <3>6
    <3>8. g[z] = f[x]
      BY <2>2, <3>5, <3>7
    <3> QED
      BY <1>4, <1>6, <1>7, <1>9, <1>10, <1>17, <2>4, <3>1, <3>3, <3>4, <3>8 DEF NewestOf
  <2> QED
    BY <2>3, <2>4
<1> QED
  BY <1>16, <1>17

\* What a checkpoint is found to have: what it changed itself, or what the one it was
\* built on has.
LEMMA DatabaseBuilt ==
  ASSUME NEW P, Tree(P), NEW c \in DOMAIN P, NEW m \in Mutations, NEW Q, Q = Built(P, c, m),
         NEW new, new = Len(P) + 1, NEW a \in Addresses
  PROVE  /\ \A e \in DOMAIN P : InfoOf(Q, e, a) = InfoOf(P, e, a) /\ SlotOf(Q, e, a) = SlotOf(P, e, a)
         /\ InfoOf(Q, new, a) = IF a \in DOMAIN m.state /\ m.state[a].info # NoAccount
                                THEN m.state[a].info ELSE InfoOf(P, c, a)
         /\ SlotOf(Q, new, a) = IF a \in DOMAIN m.state /\ m.state[a].slot # None
                                THEN m.state[a].slot ELSE SlotOf(P, c, a)
<1>1. PICK l \in Nat : l = Len(P) /\ DOMAIN P = 1..l
  BY TreeAt
<1>2. /\ \A e \in DOMAIN P : e \in DOMAIN Q /\ Q[e] = P[e]
      /\ Q[new].mutation = m
      /\ DOMAIN Q = 1..(Len(P) + 1)
  BY BuiltIs
<1>3. new \in DOMAIN Q /\ new # NoCheckpoint /\ NoCheckpoint \notin DOMAIN P
  BY <1>1, <1>2 DEF NoCheckpoint
<1>4. ASSUME NEW e \in DOMAIN P, NEW found \in SUBSET DOMAIN P
      PROVE  NewestOf(P, e, found) = NoCheckpoint \/ NewestOf(P, e, found) \in DOMAIN P
  <2>1. \A n \in 0..P[e].depth : Path(P, e)[n] \in DOMAIN P
    BY PathLeads
  <2>2. PICK hits : hits = Hits(P, e, found)
    OBVIOUS
  <2>3. hits \subseteq 0..P[e].depth
    BY <2>2 DEF Hits
  <2>4. P[e].depth \in Nat
    BY TreeAt
  <2>5. hits \in SUBSET Nat
    BY <2>3, <2>4
  <2>6. hits # {} => Min(hits) \in 0..P[e].depth
    BY <2>3, <2>5, MinOf
  <2> QED
    BY <2>1, <2>2, <2>6 DEF NewestOf
<1>5. PICK F : F = WithInfo(P, a)
  OBVIOUS
<1>6. PICK G : G = WithInfo(Q, a)
  OBVIOUS
<1>7. F \in SUBSET DOMAIN P /\ \A e \in DOMAIN P : e \in G <=> e \in F
  BY <1>2, <1>5, <1>6 DEF WithInfo
<1>8. new \in G <=> a \in DOMAIN m.state /\ m.state[a].info # NoAccount
  BY <1>2, <1>3, <1>6 DEF WithInfo
<1>9. /\ \A e \in DOMAIN P : NewestOf(Q, e, G) = NewestOf(P, e, F)
      /\ NewestOf(Q, new, G) = IF new \in G THEN new ELSE NewestOf(P, c, F)
  BY <1>7, NewestBuilt
<1>10. \A e \in DOMAIN P : NewestOf(P, e, F) = NoCheckpoint \/ Q[NewestOf(P, e, F)] = P[NewestOf(P, e, F)]
  BY <1>2, <1>4, <1>7
<1>11. /\ \A e \in DOMAIN P : InfoOf(Q, e, a) = InfoOf(P, e, a)
       /\ InfoOf(Q, new, a) = IF a \in DOMAIN m.state /\ m.state[a].info # NoAccount
                              THEN m.state[a].info ELSE InfoOf(P, c, a)
  BY <1>2, <1>3, <1>5, <1>6, <1>8, <1>9, <1>10 DEF InfoOf
<1>12. PICK H : H = WithSlot(P, a)
  OBVIOUS
<1>13. PICK K : K = WithSlot(Q, a)
  OBVIOUS
<1>14. H \in SUBSET DOMAIN P /\ \A e \in DOMAIN P : e \in K <=> e \in H
  BY <1>2, <1>12, <1>13 DEF WithSlot
<1>15. new \in K <=> a \in DOMAIN m.state /\ m.state[a].slot # None
  BY <1>2, <1>3, <1>13 DEF WithSlot
<1>16. /\ \A e \in DOMAIN P : NewestOf(Q, e, K) = NewestOf(P, e, H)
       /\ NewestOf(Q, new, K) = IF new \in K THEN new ELSE NewestOf(P, c, H)
  BY <1>14, NewestBuilt
<1>17. \A e \in DOMAIN P : NewestOf(P, e, H) = NoCheckpoint \/ Q[NewestOf(P, e, H)] = P[NewestOf(P, e, H)]
  BY <1>2, <1>4, <1>14
<1>18. /\ \A e \in DOMAIN P : SlotOf(Q, e, a) = SlotOf(P, e, a)
       /\ SlotOf(Q, new, a) = IF a \in DOMAIN m.state /\ m.state[a].slot # None
                              THEN m.state[a].slot ELSE SlotOf(P, c, a)
  BY <1>2, <1>3, <1>12, <1>13, <1>15, <1>16, <1>17 DEF SlotOf
<1> QED
  BY <1>11, <1>18

\* The results of a mutation are executed transactions, its changes are changes.
LEMMA MutationParts ==
  ASSUME NEW m \in Mutations
  PROVE  m.results \in Seq(ResultSet) /\ m.state \in ChangesSet
<1>1. CASE m = Barrier
  <2>1. m.results = << >> /\ m.state = NoChanges
    BY <1>1 DEF Barrier
  <2>2. NoChanges \in [{} -> Account] /\ {} \in SUBSET Addresses
    BY DEF NoChanges
  <2>3. NoChanges \in ChangesSet
    BY <2>2, Zenon DEF ChangesSet
  <2>4. << >> \in Seq(ResultSet)
    OBVIOUS
  <2> QED
    BY <2>1, <2>3, <2>4
<1>2. CASE m \in Orders
  BY <1>2 DEF Orders, Executed
<1> QED
  BY <1>1, <1>2 DEF Mutations

\* What was executed before stays, and the new checkpoint's results come behind.
LEMMA ResultsBuilt ==
  ASSUME NEW P, Tree(P), NEW c \in DOMAIN P, NEW m \in Mutations, NEW Q, Q = Built(P, c, m),
         NEW new, new = Len(P) + 1
  PROVE  /\ \A e \in DOMAIN P : ResultsOf(Q, e) = ResultsOf(P, e)
         /\ ResultsOf(P, c) \in Seq(ResultSet)
         /\ ResultsOf(Q, new) = ResultsOf(P, c) \o m.results
<1>1. PICK l \in Nat : /\ l = Len(P) /\ DOMAIN P = 1..l
                       /\ \A e \in 1..l : P[e].mutation \in Mutations /\ P[e].depth \in Nat
  BY TreeAt
<1>2. /\ \A e \in DOMAIN P : e \in DOMAIN Q /\ Q[e] = P[e]
      /\ Q[new].mutation = m
  BY <1>1, BuiltIs
<1>3. /\ \A e \in DOMAIN P : HistoryOf(Q, e) = HistoryOf(P, e)
      /\ HistoryOf(Q, new) = Append(HistoryOf(P, c), new)
  BY HistoryBuilt
<1>4. ASSUME NEW e \in DOMAIN P PROVE ResultsOf(Q, e) = ResultsOf(P, e)
  <2>1. PICK h : h = HistoryOf(P, e)
    OBVIOUS
  <2>2. \A i \in DOMAIN h : h[i] \in DOMAIN P
    BY <2>1, HistoryLeads
  <2>3. [i \in DOMAIN h |-> Q[h[i]].mutation.results] = [i \in DOMAIN h |-> P[h[i]].mutation.results]
    BY <1>2, <2>2
  <2> QED
    BY <1>3, <2>1, <2>3 DEF ResultsOf, ResultsIn
<1>5. PICK h : h = HistoryOf(P, c)
  OBVIOUS
<1>6. PICK n \in Nat : DOMAIN h = 1..n /\ Len(h) = n /\ h \in Seq(DOMAIN P) /\ \A i \in 1..n : h[i] \in DOMAIN P
  <2>1. h \in Seq(DOMAIN P)
    BY <1>5, HistoryLeads
  <2> QED
    BY <2>1
<1>7. PICK k : k = Append(h, new)
  OBVIOUS
<1>8. DOMAIN k = 1..(n + 1) /\ k[n + 1] = new /\ \A i \in 1..n : k[i] = h[i]
  BY <1>6, <1>7
<1>9. PICK rs : rs = [i \in DOMAIN h |-> P[h[i]].mutation.results]
  OBVIOUS
<1>10. PICK qs : qs = [i \in DOMAIN k |-> Q[k[i]].mutation.results]
  OBVIOUS
<1>11. \A i \in 1..n : P[h[i]].mutation.results \in Seq(ResultSet)
  BY <1>1, <1>6, MutationParts
<1>12. rs \in Seq(Seq(ResultSet)) /\ Len(rs) = n
  <2>1. rs \in [1..n -> Seq(ResultSet)]
    BY <1>6, <1>9, <1>11
  <2> QED
    BY <2>1
<1>13. m.results \in Seq(ResultSet)
  BY MutationParts
<1>14. qs = Append(rs, m.results)
  <2>1. PICK x : x = m.results
    OBVIOUS
  <2>2. \A i \in 1..n : qs[i] = rs[i]
    <3>1. \A i \in 1..n : i \in 1..(n + 1) /\ Q[h[i]] = P[h[i]]
      BY <1>2, <1>6
    <3> QED
      BY <1>6, <1>8, <1>9, <1>10, <3>1
  <2>3. qs[n + 1] = x
    BY <1>2, <1>8, <1>10, <2>1, <1>6
  <2>4. qs = [i \in 1..(n + 1) |-> qs[i]]
    BY <1>8, <1>10
  <2>5. \A i \in 1..(n + 1) : i \in 1..n \/ i = n + 1
    BY <1>6
  <2>6. PICK as : as = Append(rs, x)
    OBVIOUS
  <2>7. as = [i \in 1..(n + 1) |-> as[i]] /\ as[n + 1] = x /\ \A i \in 1..n : as[i] = rs[i]
    BY <1>12, <1>13, <2>1, <2>6
  <2>8. \A i \in 1..(n + 1) : qs[i] = as[i]
    BY <2>2, <2>3, <2>5, <2>7
  <2>9. qs = as
    BY <2>4, <2>7, <2>8
  <2> QED
    BY <2>1, <2>6, <2>9
<1>15. PICK x : x = m.results
  OBVIOUS
<1>16. /\ FlattenSeq(rs) \in Seq(ResultSet)
       /\ FlattenSeq(Append(rs, x)) = FlattenSeq(rs) \o x
  BY <1>12, <1>13, <1>15, FlattenAppend
<1>17. ResultsOf(P, c) = FlattenSeq(rs)
  BY <1>5, <1>9 DEF ResultsOf, ResultsIn
<1>18. ResultsOf(Q, new) = FlattenSeq(qs)
  BY <1>3, <1>5, <1>7, <1>10 DEF ResultsOf, ResultsIn
<1> QED
  BY <1>4, <1>14, <1>15, <1>16, <1>17, <1>18

(***************************************************************************)
(* All checkpoints are sound                                               *)
(***************************************************************************)

\* A checkpoint has a state that follows from all that was executed up to it.
SoundAt(P, c) ==
  /\ DatabaseOf(P, c) \in StateSet
  /\ ResultsOf(P, c) \in Seq(ResultSet)
  /\ Follows(ResultsOf(P, c), DatabaseOf(P, c))
  /\ RulesOf(P[c].mutation)
  /\ Clear(P[c].mutation) => AlignedIn(P[c].mutation)

Sound(P) == Tree(P) /\ \A c \in DOMAIN P : SoundAt(P, c)

\* The payload that has nothing yet.
LEMMA FirstIsSound ==
  ASSUME NEW P, P = <<[prev |-> NoCheckpoint, depth |-> 0, mutation |-> Barrier]>>
  PROVE  Sound(P)
<1>1. PICK x : x = [prev |-> NoCheckpoint, depth |-> 0, mutation |-> Barrier]
  OBVIOUS
<1>2. x \in CheckpointSet /\ x.depth = 0 /\ x.mutation = Barrier
  BY <1>1 DEF CheckpointSet, Mutations, NoCheckpoint
<1>3. P = <<x>>
  BY <1>1
<1>4. P \in Seq(CheckpointSet) /\ P # << >> /\ P[1] = x /\ DOMAIN P = {1} /\ \A c \in DOMAIN P : c = 1
  BY <1>2, <1>3
<1>5. Tree(P)
  BY <1>2, <1>4 DEF Tree
<1>6. Barrier.results = << >> /\ Barrier.state = NoChanges /\ Barrier.kind = "barrier" /\ DOMAIN NoChanges = {}
  BY DEF Barrier, NoChanges
<1>7. \A a : WithInfo(P, a) = {} /\ WithSlot(P, a) = {}
  BY <1>2, <1>4, <1>6 DEF WithInfo, WithSlot
<1>8. NewestOf(P, 1, {}) = NoCheckpoint
  BY DEF NewestOf, Hits
<1>9. \A a \in Addresses : DatabaseOf(P, 1)[a] = [info |-> Base[a].info, slot |-> Base[a].slot]
  BY <1>7, <1>8 DEF DatabaseOf, InfoOf, SlotOf
<1>10. \A a \in Addresses : Base[a] \in Account /\ [info |-> Base[a].info, slot |-> Base[a].slot] = Base[a]
  BY BaseIsState DEF Account
<1>11. DatabaseOf(P, 1) = Base /\ Base \in StateSet
  <2>1. DatabaseOf(P, 1) = [a \in Addresses |-> DatabaseOf(P, 1)[a]]
    BY DEF DatabaseOf
  <2>2. Base = [a \in Addresses |-> Base[a]]
    BY BaseIsState
  <2>3. \A a \in Addresses : DatabaseOf(P, 1)[a] = Base[a]
    BY <1>9, <1>10
  <2> QED
    BY <1>10, <2>1, <2>2, <2>3 DEF StateSet
<1>12. PICK h : h = HistoryOf(P, 1)
  OBVIOUS
<1>13. DOMAIN h = {1} /\ h[1] = 1
  <2>1. DOMAIN h = 1..(0 + 1) /\ h[1] = 1
    BY <1>2, <1>4, <1>5, <1>12, HistoryLeads
  <2> QED
    BY <2>1
<1>14. ResultsOf(P, 1) = << >>
  <2>1. PICK one : one = [i \in {1} |-> P[h[i]].mutation.results]
    OBVIOUS
  <2>2. one = << << >> >>
    <3>1. one = [i \in {1} |-> << >>]
      BY <1>2, <1>4, <1>6, <1>13, <2>1
    <3>2. 1..1 = {1}
      OBVIOUS
    <3> QED
      BY <3>1, <3>2
  <2>3. << >> \in Seq(Seq({})) /\ << >> \in Seq({}) /\ Append(<< >>, << >>) = << << >> >>
    OBVIOUS
  <2>4. /\ FlattenSeq(<< >>) \in Seq({})
        /\ FlattenSeq(Append(<< >>, << >>)) = FlattenSeq(<< >>) \o << >>
    BY <2>3, FlattenAppend
  <2>5. FlattenSeq(<< >>) = << >>
    BY <2>4
  <2>6. FlattenSeq(one) = << >>
    BY <2>2, <2>3, <2>4, <2>5
  <2> QED
    BY <1>12, <1>13, <2>1, <2>6 DEF ResultsOf, ResultsIn
<1>15. Follows(<< >>, Base)
  <2>1. \A a : Cardinality(SentBy(<< >>, 0, a)) = 0
    <3>1. \A a : SentBy(<< >>, 0, a) = {}
      BY DEF SentBy
    <3> QED
      BY <3>1, FS_EmptySet
  <2>2. \A a \in Signers : Base[a].info = Base[a].info + 0
    BY BaseIsState, SignersAreAccounts
  <2>3. NoncesFollow(<< >>)
    BY DEF NoncesFollow
  <2>4. Len(<< >>) = 0
    OBVIOUS
  <2> QED
    BY <2>1, <2>2, <2>3, <2>4, ReplayEmpty DEF Follows
<1>16. << >> \in Seq(ResultSet)
  OBVIOUS
<1>17. RulesOf(Barrier) /\ (Clear(Barrier) => AlignedIn(Barrier))
  BY <1>11, <1>16, BarrierIsMade DEF Made
<1>18. SoundAt(P, 1)
  BY <1>2, <1>4, <1>11, <1>14, <1>15, <1>16, <1>17 DEF SoundAt
<1> QED
  BY <1>4, <1>5, <1>18 DEF Sound

\* Building on a checkpoint keeps it so.
LEMMA BuiltIsSound ==
  ASSUME NEW P, Sound(P), NEW c \in DOMAIN P, NEW m, NEW Q, Q = Built(P, c, m),
         Made(m, ResultsOf(P, c), DatabaseOf(P, c))
  PROVE  Sound(Q)
<1>1. Tree(P) /\ m \in Mutations /\ RulesOf(m) /\ (Clear(m) => AlignedIn(m))
  BY DEF Sound, Made
<1>2. PICK new : new = Len(P) + 1
  OBVIOUS
<1>3. /\ Tree(Q)
      /\ \A e \in DOMAIN P : Q[e] = P[e]
      /\ Q[new].mutation = m
      /\ DOMAIN P = 1..Len(P) /\ Len(P) \in Nat
      /\ DOMAIN Q = 1..(Len(P) + 1)
  BY <1>1, <1>2, BuiltIs
<1>4. \A e \in DOMAIN Q : e = new \/ e \in DOMAIN P
  BY <1>2, <1>3
<1>5. /\ \A e \in DOMAIN P : ResultsOf(Q, e) = ResultsOf(P, e)
      /\ ResultsOf(P, c) \in Seq(ResultSet)
      /\ ResultsOf(Q, new) = ResultsOf(P, c) \o m.results
  BY <1>1, <1>2, ResultsBuilt
<1>6. \A a \in Addresses :
        /\ \A e \in DOMAIN P : InfoOf(Q, e, a) = InfoOf(P, e, a) /\ SlotOf(Q, e, a) = SlotOf(P, e, a)
        /\ InfoOf(Q, new, a) = IF a \in DOMAIN m.state /\ m.state[a].info # NoAccount
                               THEN m.state[a].info ELSE InfoOf(P, c, a)
        /\ SlotOf(Q, new, a) = IF a \in DOMAIN m.state /\ m.state[a].slot # None
                               THEN m.state[a].slot ELSE SlotOf(P, c, a)
  BY <1>1, <1>2, DatabaseBuilt
<1>7. ASSUME NEW e \in DOMAIN P PROVE SoundAt(Q, e)
  <2>1. DatabaseOf(Q, e) = DatabaseOf(P, e)
    BY <1>6 DEF DatabaseOf
  <2>2. SoundAt(P, e)
    BY DEF Sound
  <2> QED
    BY <1>3, <1>5, <2>1, <2>2 DEF SoundAt
<1>8. SoundAt(Q, new)
  <2>1. PICK res : res = m.results
    OBVIOUS
  <2>2. PICK ch : ch = m.state
    OBVIOUS
  <2>3. res \in Seq(ResultSet) /\ ch \in ChangesSet
    BY <1>1, <2>1, <2>2, MutationParts
  <2>4. PICK db : db = DatabaseOf(P, c)
    OBVIOUS
  <2>5. PICK pre : pre = ResultsOf(P, c)
    OBVIOUS
  <2>6. db \in StateSet /\ Follows(pre, db) /\ pre \in Seq(ResultSet)
    BY <2>4, <2>5 DEF Sound, SoundAt
  <2>7. \A a \in Addresses : InfoOf(P, c, a) = db[a].info /\ SlotOf(P, c, a) = db[a].slot
    BY <2>4 DEF DatabaseOf
  <2>8. \A a \in Addresses :
          DatabaseOf(Q, new)[a] =
            [info |-> IF a \in DOMAIN ch /\ ch[a].info # NoAccount THEN ch[a].info ELSE db[a].info,
             slot |-> IF a \in DOMAIN ch /\ ch[a].slot # None THEN ch[a].slot ELSE db[a].slot]
    BY <1>6, <2>2, <2>7 DEF DatabaseOf
  <2>9. \A a \in Addresses : db[a] \in Account /\ (a \in DOMAIN ch => ch[a] \in Account)
    BY <2>3, <2>6 DEF StateSet, ChangesSet
  <2>10. \A x \in Account : x.info \in Nat \cup {NoAccount} /\ x.slot \in Int /\ x = [info |-> x.info, slot |-> x.slot]
    BY DEF Account
  <2>11. \A i \in Nat \cup {NoAccount}, s \in Int : [info |-> i, slot |-> s] \in Account
    BY DEF Account
  <2>12. \A a \in Addresses : DatabaseOf(Q, new)[a] \in Account
    BY <2>8, <2>9, <2>10, <2>11, ZenonT(40)
  <2>13. DatabaseOf(Q, new) \in StateSet
    <3>1. DatabaseOf(Q, new) = [a \in Addresses |-> DatabaseOf(Q, new)[a]]
      BY DEF DatabaseOf
    <3> QED
      BY <2>12, <3>1 DEF StateSet
  <2>14. PICK all : all = pre \o res
    OBVIOUS
  <2>15. all \in Seq(ResultSet) /\ all = ResultsOf(Q, new)
    BY <1>5, <2>1, <2>3, <2>5, <2>6, <2>14, ConcatProperties
  <2>16. /\ Follows(all, committed(db, ch))
         /\ \A a \in Addresses : Undestroyed(res, a) /\ a \in DOMAIN ch => ch[a].info # NoAccount
    BY <2>1, <2>2, <2>4, <2>5, <2>6, <2>14 DEF Made, Continues
  <2>17. ASSUME NEW a \in Addresses, Undestroyed(all, a)
         PROVE  DatabaseOf(Q, new)[a] = committed(db, ch)[a]
    <3>1. \A i \in DOMAIN res : Len(pre) + i \in DOMAIN all /\ all[Len(pre) + i] = res[i]
      BY <2>3, <2>6, <2>14
    <3>2. Undestroyed(res, a)
      BY <2>17, <3>1 DEF Undestroyed
    <3>3. a \in DOMAIN ch => ch[a].info # NoAccount
      BY <2>16, <3>2
    <3>4. committed(db, ch)[a] = IF a \notin DOMAIN ch THEN db[a]
             ELSE [info |-> ch[a].info, slot |-> IF ch[a].slot = None THEN db[a].slot ELSE ch[a].slot]
      BY <3>3 DEF committed
    <3> QED
      BY <2>8, <2>9, <2>10, <3>3, <3>4
  <2>18. PICK other : other = DatabaseOf(Q, new)
    OBVIOUS
  <2>19. Follows(all, other)
    BY <2>15, <2>16, <2>17, <2>18, FollowsWith
  <2> QED
    BY <1>1, <1>3, <2>13, <2>15, <2>18, <2>19 DEF SoundAt
<1> QED
  BY <1>3, <1>4, <1>7, <1>8 DEF Sound

(***************************************************************************)
(* Spans                                                                   *)
(***************************************************************************)

BarrierAt(P, e) == P[e].mutation.kind = "barrier"

BarriersIn(P, h) == {i \in 1..Len(h) : BarrierAt(P, h[i])}

LastBarrier(P, h) == IF BarriersIn(P, h) # {} THEN Max(BarriersIn(P, h)) ELSE 0

StagingOf(P, c) == SubSeq(HistoryOf(P, c), LastBarrier(P, HistoryOf(P, c)), Len(HistoryOf(P, c)))

SealedOf(P, c) == SubSeq(HistoryOf(P, c), 1, LastBarrier(P, HistoryOf(P, c)))

\* The kinds of mutations.
LEMMA KindOf ==
  ASSUME NEW m \in Mutations
  PROVE  /\ m.kind \in {"barrier", "transaction", "bundle"}
         /\ m.kind = "barrier" <=> m = Barrier
         /\ m.kind = "transaction" <=> m \in Executed("transaction", TxSet)
         /\ m.kind = "bundle" <=> m \in Executed("bundle", BundleSet)
<1>1. Barrier.kind = "barrier"
  BY DEF Barrier
<1>2. \A x \in Executed("transaction", TxSet) : x.kind = "transaction"
  BY DEF Executed
<1>3. \A x \in Executed("bundle", BundleSet) : x.kind = "bundle"
  BY DEF Executed
<1>4. \/ m = Barrier
      \/ m \in Executed("transaction", TxSet)
      \/ m \in Executed("bundle", BundleSet)
  BY DEF Mutations, Orders
<1> QED
  BY <1>1, <1>2, <1>3, <1>4

\* Every history has a last barrier.
LEMMA LastBarrierIs ==
  ASSUME NEW P, Tree(P), NEW c \in DOMAIN P, NEW h, h = HistoryOf(P, c),
         NEW b, b = LastBarrier(P, h)
  PROVE  /\ b \in 1..Len(h)
         /\ BarrierAt(P, h[b])
         /\ \A i \in 1..Len(h) : i > b => ~BarrierAt(P, h[i])
<1>1. PICK l \in Nat : DOMAIN P = 1..l /\ \A e \in 1..l : P[e].depth \in Nat
  BY TreeAt
<1>2. PICK d \in Nat : d = P[c].depth
  BY <1>1
<1>3. Len(h) = d + 1 /\ h[1] = 1
  BY <1>2, HistoryLeads
<1>4. BarrierAt(P, 1)
  BY DEF Tree, Barrier, BarrierAt
<1>5. PICK s : s = BarriersIn(P, h)
  OBVIOUS
<1>6. s = {i \in 1..(d + 1) : BarrierAt(P, h[i])}
  BY <1>3, <1>5 DEF BarriersIn
<1>7. 1 \in s /\ s \in SUBSET (0..(d + 1)) /\ d + 1 \in Nat
  BY <1>2, <1>3, <1>4, <1>6
<1>8. b = Max(s)
  BY <1>5, <1>7 DEF LastBarrier
<1>9. b \in s /\ \A y \in s : y <= b
  BY <1>7, <1>8, MaxOf
<1>10. b \in 1..(d + 1)
  BY <1>6, <1>9
<1>11. \A i \in 1..(d + 1) : i > b => i \notin s
  BY <1>9, <1>10
<1> QED
  BY <1>3, <1>6, <1>9, <1>11

\* The staging history begins with this barrier and has no other.
LEMMA StagingIs ==
  ASSUME NEW P, Tree(P), NEW c \in DOMAIN P, NEW h, h = HistoryOf(P, c),
         NEW b, b = LastBarrier(P, h), NEW s, s = StagingOf(P, c)
  PROVE  /\ s \in Seq(DOMAIN P)
         /\ Len(s) = Len(h) - b + 1
         /\ Len(s) \in Nat
         /\ Len(s) >= 1
         /\ \A i \in 1..Len(s) : s[i] = h[b - 1 + i] /\ b - 1 + i \in 1..Len(h)
         /\ BarrierAt(P, s[1])
         /\ \A i \in 1..Len(s) : i # 1 => ~BarrierAt(P, s[i])
<1>1. PICK n \in Nat : n = Len(h) /\ h \in Seq(DOMAIN P) /\ DOMAIN h = 1..n
  <2>1. h \in Seq(DOMAIN P)
    BY HistoryLeads
  <2> QED
    BY <2>1
<1>2. /\ b \in 1..n
      /\ BarrierAt(P, h[b])
      /\ \A i \in 1..n : i > b => ~BarrierAt(P, h[i])
  BY <1>1, LastBarrierIs
<1>3. s = SubSeq(h, b, n)
  BY <1>1 DEF StagingOf
<1>4. /\ s \in Seq(DOMAIN P)
      /\ Len(s) = n - b + 1
      /\ \A i \in 1..(n - b + 1) : s[i] = h[b - 1 + i]
  <2>1. \A i \in b..n : h[i] \in DOMAIN P
    BY <1>1, <1>2
  <2>2. b \in Nat /\ b <= n
    BY <1>1, <1>2
  <2>3. \A i \in 1..(n - b + 1) : b - 1 + i \in b..n /\ b + i - 1 = b - 1 + i
    BY <1>1, <2>2
  <2> QED
    BY <1>1, <1>2, <1>3, <2>1, <2>2, <2>3
<1>5. n - b + 1 \in Nat /\ n - b + 1 >= 1 /\ 1 \in 1..(n - b + 1) /\ b - 1 + 1 = b
  BY <1>1, <1>2
<1>6. \A i \in 1..(n - b + 1) : b - 1 + i \in 1..n /\ (i # 1 => b - 1 + i > b)
  BY <1>1, <1>2
<1>7. BarrierAt(P, s[1])
  BY <1>2, <1>4, <1>5
<1>8. \A i \in 1..(n - b + 1) : i # 1 => ~BarrierAt(P, s[i])
  BY <1>2, <1>4, <1>6
<1> QED
  BY <1>1, <1>4, <1>5, <1>6, <1>7, <1>8

\* These are the spans of the model.
LEMMA SpansAre ==
  ASSUME Tree(checkpoints), NEW c \in DOMAIN checkpoints
  PROVE  /\ history_staging(c) = StagingOf(checkpoints, c)
         /\ history_sealed(c) = SealedOf(checkpoints, c)
<1>1. history(c) = HistoryOf(checkpoints, c)
  BY ReadsAre
<1>2. \A h : last_barrier(h) = LastBarrier(checkpoints, h)
  BY DEF last_barrier, SelectLastInSeq, is_barrier, LastBarrier, BarriersIn, BarrierAt
<1> QED
  BY <1>1, <1>2 DEF history_staging, history_sealed, StagingOf, SealedOf

(***************************************************************************)
(* Ordering                                                                *)
(***************************************************************************)

TipSum(base, txs) == FoldLeft(LAMBDA sum, tx : IF Tip(tx) \in Nat THEN sum + Tip(tx) ELSE sum, base, txs)

Popped(base, span) == FoldLeft(LAMBDA s, c : pop_best(s), base, span)

\* A score adds one tip after the other.
LEMMA TipFold ==
  ASSUME NEW sq, NEW base, NEW n \in Nat, DOMAIN sq = 1..n
  PROVE  \E g : /\ g[0] = base
                /\ \A k \in 1..n : g[k] = (IF Tip(sq[k]) \in Nat THEN g[k - 1] + Tip(sq[k]) ELSE g[k - 1])
                /\ g[n] = TipSum(base, sq)
<1> DEFINE p == << >>
           seq == sq
           Eq(it) == it = [s \in SUBSET (1..n) |-> IF s = {} THEN base
                             ELSE (IF Tip(seq[Max(s)]) \in Nat THEN it[s \ {Max(s)}] + Tip(seq[Max(s)]) ELSE it[s \ {Max(s)}])]
           itself == CHOOSE it : Eq(it)
<1>1. \A it : Folds("tip", p, base, seq, n, it) <=> Eq(it)
  BY DEF Folds, FoldStep
<1>2. \E it : Eq(it)
  BY <1>1, FoldExists
<1>3. Eq(itself)
  BY <1>2
<1>4. TipSum(base, sq) = itself[1..n]
  BY DEF TipSum, FoldLeft, MapThenFoldSet
<1> HIDE DEF itself, seq, p
<1>5. Folds("tip", p, base, seq, n, itself)
  BY <1>1, <1>3
<1>6. PICK g : Trace("tip", p, base, seq, n, g) /\ g[n] = itself[1..n]
  BY <1>5, FoldTrace
<1>7. \A k \in 1..n : g[k] = (IF Tip(sq[k]) \in Nat THEN g[k - 1] + Tip(sq[k]) ELSE g[k - 1])
  BY <1>6 DEF Trace, FoldStep, p, seq
<1> QED
  BY <1>4, <1>6, <1>7 DEF Trace

\* Orders are popped one after the other.
LEMMA PopFold ==
  ASSUME NEW sq, NEW base, NEW n \in Nat, DOMAIN sq = 1..n
  PROVE  \E g : /\ g[0] = base
                /\ \A k \in 1..n : g[k] = pop_best(g[k - 1])
                /\ g[n] = Popped(base, sq)
<1> DEFINE p == << >>
           seq == sq
           Eq(it) == it = [s \in SUBSET (1..n) |-> IF s = {} THEN base
                             ELSE pop_best(it[s \ {Max(s)}])]
           itself == CHOOSE it : Eq(it)
<1>1. \A it : Folds("pop", p, base, seq, n, it) <=> Eq(it)
  BY DEF Folds, FoldStep
<1>2. \E it : Eq(it)
  BY <1>1, FoldExists
<1>3. Eq(itself)
  BY <1>2
<1>4. Popped(base, sq) = itself[1..n]
  BY DEF Popped, FoldLeft, MapThenFoldSet
<1> HIDE DEF itself, seq, p
<1>5. Folds("pop", p, base, seq, n, itself)
  BY <1>1, <1>3
<1>6. PICK g : Trace("pop", p, base, seq, n, g) /\ g[n] = itself[1..n]
  BY <1>5, FoldTrace
<1>7. \A k \in 1..n : g[k] = pop_best(g[k - 1])
  BY <1>6 DEF Trace, FoldStep, p, seq
<1> QED
  BY <1>4, <1>6, <1>7 DEF Trace

\* A score is a number.
LEMMA ScoreType ==
  ASSUME NEW txs, NEW n \in Nat, DOMAIN txs = 1..n
  PROVE  TipSum(0, txs) \in Nat
<1>1. PICK base : base = 0
  OBVIOUS
<1>2. PICK g : /\ g[0] = base
               /\ \A k \in 1..n : g[k] = (IF Tip(txs[k]) \in Nat THEN g[k - 1] + Tip(txs[k]) ELSE g[k - 1])
               /\ g[n] = TipSum(base, txs)
  BY TipFold
<1> DEFINE T == {k \in Nat : k <= n => g[k] \in Nat}
<1>3. 0 \in T
  BY <1>1, <1>2
<1>4. ASSUME NEW k \in T PROVE k + 1 \in T
  <2>1. k \in Nat /\ k + 1 \in Nat /\ (k + 1) - 1 = k
    OBVIOUS
  <2>2. k + 1 <= n => k + 1 \in 1..n /\ k <= n
    BY <2>1
  <2>3. k + 1 <= n => g[k + 1] = (IF Tip(txs[k + 1]) \in Nat THEN g[k] + Tip(txs[k + 1]) ELSE g[k])
    BY <1>2, <2>1, <2>2
  <2> QED
    BY <2>1, <2>2, <2>3
<1>5. T \in SUBSET Nat
  OBVIOUS
<1>6. n \in T
  <2> HIDE DEF T
  <2> QED
    BY <1>3, <1>4, <1>5, NatSetInduction
<1> QED
  BY <1>1, <1>2, <1>6

\* Of finitely many orders one has the highest score.
LEMMA Best ==
  ASSUME NEW n \in Nat, NEW f, \A c \in 1..n : f[c] \in Nat, NEW S \in SUBSET (1..n), S # {}
  PROVE  \E c \in S : \A d \in S : f[d] <= f[c]
<1> DEFINE Good(Z) == \E c \in Z : \A d \in Z : f[d] <= f[c]
           T == {k \in Nat : k <= n => \A Z \in SUBSET (1..k) : Z # {} => Good(Z)}
<1>1. 0 \in T
  <2>1. \A Z \in SUBSET (1..0) : Z = {}
    OBVIOUS
  <2> HIDE DEF Good
  <2> QED
    BY <2>1
<1>2. ASSUME NEW k \in T PROVE k + 1 \in T
  <2>1. k \in Nat /\ k + 1 \in Nat
    OBVIOUS
  <2> SUFFICES ASSUME k + 1 <= n, NEW Z \in SUBSET (1..(k + 1)), Z # {}
               PROVE  Good(Z)
    BY <2>1
  <2>2. k <= n /\ k + 1 \in 1..n /\ \A x \in 1..(k + 1) : x = k + 1 \/ x \in 1..k
    BY <2>1
  <2>3. \A x \in Z : f[x] \in Nat
    BY <2>1
  <2> DEFINE Y == Z \ {k + 1}
  <2>4. Y \in SUBSET (1..k)
    BY <2>2
  <2>5. Y # {} => Good(Y)
    BY <2>2, <2>4
  <2>6. CASE Y = {}
    <3>1. \A x \in Z : x = k + 1
      BY <2>6
    <3>2. k + 1 \in Z /\ f[k + 1] <= f[k + 1]
      BY <3>1, <2>3
    <3> QED
      BY <3>1, <3>2
  <2>7. CASE Y # {}
    <3>1. PICK c \in Y : \A d \in Y : f[d] <= f[c]
      BY <2>5, <2>7
    <3>2. CASE k + 1 \notin Z
      BY <3>1, <3>2
    <3>3. CASE k + 1 \in Z /\ f[k + 1] <= f[c]
      BY <3>1, <3>3
    <3>4. CASE k + 1 \in Z /\ ~(f[k + 1] <= f[c])
      <4>1. \A d \in Y : f[d] <= f[k + 1]
        BY <2>3, <3>1, <3>4
      <4>2. f[k + 1] <= f[k + 1]
        BY <2>3, <3>4
      <4> QED
        BY <3>4, <4>1, <4>2
    <3> QED
      BY <3>2, <3>3, <3>4
  <2> QED
    BY <2>6, <2>7
<1>3. T \in SUBSET Nat
  OBVIOUS
<1>4. n \in T
  <2> HIDE DEF T
  <2> QED
    BY <1>1, <1>2, <1>3, NatSetInduction
<1> QED
  BY <1>4

\* They are transactions.
LEMMA TxsType ==
  ASSUME NEW m \in Mutations
  PROVE  TxsOf(m) \in Seq(TxSet)
<1>1. CASE m = Barrier
  BY <1>1 DEF Barrier, TxsOf
<1>2. CASE m \in Executed("transaction", TxSet)
  <2>1. m.kind = "transaction" /\ m.source \in TxSet
    BY <1>2 DEF Executed
  <2>2. TxsOf(m) = <<m.source>>
    BY <2>1 DEF TxsOf
  <2>3. \A x \in TxSet : <<x>> \in Seq(TxSet)
    OBVIOUS
  <2> QED
    BY <2>1, <2>2, <2>3
<1>3. CASE m \in Executed("bundle", BundleSet)
  <2>1. m.kind = "bundle" /\ m.source \in BundleSet
    BY <1>3 DEF Executed
  <2>2. TxsOf(m) = m.source.txs
    BY <2>1 DEF TxsOf
  <2>3. \A b \in BundleSet : b.txs \in Seq(TxSet)
    BY DEF BundleSet
  <2> QED
    BY <2>1, <2>2, <2>3
<1> QED
  BY <1>1, <1>2, <1>3 DEF Mutations, Orders

Pops(s, ripe, best, new) ==
  /\ best \in s.left
  /\ \A d \in ripe : score(d) <= score(best)
  /\ new.left = s.left \ {best}
  /\ new.unused = s.unused \ nonces(best)
  /\ new.ordered = Append(s.ordered, best)

\* pop_best: the best of the orders that are ready, if there is any.
LEMMA PopBest ==
  ASSUME Tree(checkpoints), NEW s, s.left \in SUBSET DOMAIN checkpoints,
         NEW ripe, ripe = ready(s.left, s.unused), NEW new, new = pop_best(s)
  PROVE  /\ ripe = {} => new = s
         /\ ripe # {} => \E best \in ripe : Pops(s, ripe, best, new)
<1>1. PICK l \in Nat : DOMAIN checkpoints = 1..l /\ \A c \in 1..l : checkpoints[c].mutation \in Mutations
  BY TreeAt
<1>2. ASSUME NEW c \in 1..l PROVE score(c) \in Nat
  <2>1. transactions(c) = TxsOf(checkpoints[c].mutation)
    BY DEF transactions, TxsOf
  <2>2. transactions(c) \in Seq(TxSet)
    BY <1>1, <2>1, TxsType
  <2>3. PICK n \in Nat : DOMAIN transactions(c) = 1..n
    BY <2>2
  <2>4. TipSum(0, transactions(c)) \in Nat
    BY <2>3, ScoreType
  <2> QED
    BY <2>4 DEF score, TipSum
<1>3. PICK f : f = [c \in 1..l |-> score(c)]
  OBVIOUS
<1>4. \A c \in 1..l : f[c] \in Nat /\ f[c] = score(c)
  BY <1>2, <1>3
<1>5. ripe \in SUBSET (1..l) /\ ripe \subseteq s.left
  BY <1>1 DEF ready
<1>6. ripe # {} => \E c \in ripe : \A d \in ripe : f[d] <= f[c]
  BY <1>4, <1>5, Best
<1>7. ripe # {} => \E c \in ripe : \A d \in ripe : score(d) <= score(c)
  BY <1>4, <1>5, <1>6
<1> DEFINE best == CHOOSE c \in ripe : \A d \in ripe : score(d) <= score(c)
<1>8. new = IF ripe = {} THEN s
            ELSE [left |-> s.left \ {best}, unused |-> s.unused \ nonces(best),
                  ordered |-> Append(s.ordered, best)]
  BY DEF pop_best
<1>9. ripe # {} => best \in ripe /\ \A d \in ripe : score(d) <= score(best)
  BY <1>7
<1> HIDE DEF best
<1>10. ripe # {} => /\ new.left = s.left \ {best}
                    /\ new.unused = s.unused \ nonces(best)
                    /\ new.ordered = Append(s.ordered, best)
  BY <1>8
<1> QED
  BY <1>5, <1>8, <1>9, <1>10 DEF Pops

\* SortedOrders: what is popped was staged.
LEMMA SortedType ==
  ASSUME Tree(checkpoints), NEW span \in Seq(DOMAIN checkpoints),
         NEW O, O = {c \in ToSet(span) : ~is_barrier(c)}
  PROVE  sorted(span) \in Seq(O)
<1>1. PICK n \in Nat : DOMAIN span = 1..n /\ \A i \in 1..n : span[i] \in DOMAIN checkpoints
  OBVIOUS
<1>2. PICK start : start = [left |-> all_orders(span), unused |-> UNION {nonces(c) : c \in all_orders(span)},
                            ordered |-> << >>]
  OBVIOUS
<1>3. start.left = all_orders(span) /\ start.ordered = << >>
  BY <1>2
<1>4. all_orders(span) \subseteq O /\ O \subseteq DOMAIN checkpoints
  BY <1>1 DEF all_orders, ToSet
<1>5. sorted(span) = Popped(start, span).ordered
  BY <1>2 DEF sorted, Popped
<1>6. PICK g : /\ g[0] = start
               /\ \A k \in 1..n : g[k] = pop_best(g[k - 1])
               /\ g[n] = Popped(start, span)
  BY <1>1, PopFold
<1> DEFINE T == {k \in Nat : k <= n => g[k].left \in SUBSET O /\ g[k].ordered \in Seq(O)}
<1>7. 0 \in T
  <2>1. << >> \in Seq(O) /\ start.left \in SUBSET O
    BY <1>3, <1>4
  <2>2. start.ordered \in Seq(O)
    BY <1>3, <2>1
  <2> QED
    BY <1>6, <2>1, <2>2
<1>8. ASSUME NEW k \in T PROVE k + 1 \in T
  <2>1. k \in Nat /\ k + 1 \in Nat /\ (k + 1) - 1 = k
    OBVIOUS
  <2> SUFFICES ASSUME k + 1 <= n PROVE g[k + 1].left \in SUBSET O /\ g[k + 1].ordered \in Seq(O)
    BY <2>1
  <2>2. k + 1 \in 1..n /\ k <= n
    BY <2>1
  <2>3. PICK s : s = g[k]
    OBVIOUS
  <2>4. s.left \in SUBSET O /\ s.ordered \in Seq(O) /\ s.left \in SUBSET DOMAIN checkpoints
    BY <1>4, <2>2, <2>3
  <2>5. PICK new : new = g[k + 1]
    OBVIOUS
  <2>6. new = pop_best(s)
    BY <1>6, <2>1, <2>2, <2>3, <2>5
  <2>7. PICK ripe : ripe = ready(s.left, s.unused)
    OBVIOUS
  <2>8. /\ ripe = {} => new = s
        /\ ripe # {} => \E best \in ripe : Pops(s, ripe, best, new)
    <3> HIDE DEF T
    <3>1. s.left \in SUBSET DOMAIN checkpoints
      BY <2>4
    <3> QED
      BY <2>6, <2>7, <3>1, PopBest
  <2>9. CASE ripe = {}
    BY <2>3, <2>4, <2>5, <2>8, <2>9
  <2>10. CASE ripe # {}
    <3>1. PICK best \in ripe : /\ best \in s.left
                               /\ new.left = s.left \ {best}
                               /\ new.ordered = Append(s.ordered, best)
      BY <2>8, <2>10 DEF Pops
    <3>2. best \in O
      BY <2>4, <3>1
    <3>3. new.left \in SUBSET O
      BY <2>4, <3>1
    <3>4. new.ordered \in Seq(O)
      BY <2>4, <3>1, <3>2
    <3> QED
      BY <2>5, <3>3, <3>4
  <2> QED
    BY <2>9, <2>10
<1>9. T \in SUBSET Nat
  OBVIOUS
<1>10. n \in T
  <2> HIDE DEF T
  <2> QED
    BY <1>7, <1>8, <1>9, NatSetInduction
<1> QED
  BY <1>5, <1>6, <1>10

(***************************************************************************)
(* Steps of the specification                                              *)
(***************************************************************************)

OrdersIn(P) == {c \in DOMAIN P : ~BarrierAt(P, c)}

\* RemoveRevertedTransactions::step
RemovalSet == [pc : {"idle", "running", "done"}, from : Nat, prefix : Nat, remaining : Seq(Mutations)]

RemovalOn(P, r) ==
  /\ r \in RemovalSet
  /\ r.pc # "idle" => r.from \in DOMAIN P /\ r.prefix \in DOMAIN P

\* A combinator at work.
Flows == {"ok", "break", "fail"}

RunRecords ==
  [pc : {"between", "ordering", "prologue", "recording", "ok", "break", "fail", "none", "panic"},
   kind : {"atomic", "chain", "one_step"}, steps : Seq(StepNames), initial : Nat, current : Nat,
   flows : Seq(Flows), gas_limit : GasLimits, work : Seq(TxSet) \cup Seq(Nat), prefix : Nat]

RunOn(P, s) ==
  s # NoRun =>
    /\ s \in RunRecords
    /\ s.current \in DOMAIN P
    /\ s.initial \in DOMAIN P
    /\ s.pc \in {"ordering", "prologue"} => s.prefix \in DOMAIN P
    /\ s.pc = "ordering" => s.work \in Seq(OrdersIn(P))
    /\ s.pc = "prologue" => s.work \in Seq(TxSet)

\* One more checkpoint.
Grows(P, Q) ==
  \E c \in DOMAIN P : \E m : Made(m, ResultsOf(P, c), DatabaseOf(P, c)) /\ Q = Built(P, c, m)

\* All checkpoints stay what they are.
Extends(P, Q) ==
  /\ Len(P) \in Nat
  /\ DOMAIN P = 1..Len(P)
  /\ Len(Q) = Len(P) + 1
  /\ DOMAIN Q = 1..(Len(P) + 1)
  /\ \A e \in DOMAIN P : e \in DOMAIN Q /\ Q[e] = P[e]

\* The tree stays sound, and the new checkpoint is the last one.
LEMMA GrowsIs ==
  ASSUME NEW P, Sound(P), NEW Q, Grows(P, Q)
  PROVE  Sound(Q) /\ Extends(P, Q) /\ Len(Q) \in DOMAIN Q
<1>1. PICK c \in DOMAIN P : \E m : Made(m, ResultsOf(P, c), DatabaseOf(P, c)) /\ Q = Built(P, c, m)
  BY DEF Grows
<1>2. PICK m : Made(m, ResultsOf(P, c), DatabaseOf(P, c)) /\ Q = Built(P, c, m)
  BY <1>1
<1>3. Sound(Q)
  BY <1>2, BuiltIsSound
<1>4. Tree(P) /\ m \in Mutations
  BY <1>2 DEF Sound, Made
<1>5. /\ Len(Q) = Len(P) + 1
      /\ Len(P) \in Nat
      /\ DOMAIN P = 1..Len(P)
      /\ DOMAIN Q = 1..(Len(P) + 1)
      /\ \A e \in DOMAIN P : e \in DOMAIN Q /\ Q[e] = P[e]
  BY <1>2, <1>4, BuiltIs
<1>6. Len(Q) \in DOMAIN Q
  BY <1>5
<1> QED
  BY <1>3, <1>5, <1>6 DEF Extends

\* Orders that could be applied again still can.
LEMMA OrdersStay ==
  ASSUME NEW P, NEW Q, Extends(P, Q)
  PROVE  /\ OrdersIn(P) \subseteq OrdersIn(Q)
         /\ \A s \in Seq(OrdersIn(P)) : s \in Seq(OrdersIn(Q))
<1>1. OrdersIn(P) \subseteq OrdersIn(Q)
  BY DEF OrdersIn, Extends, BarrierAt
<1>2. \A s \in Seq(OrdersIn(P)) : s \in Seq(OrdersIn(Q))
  BY <1>1
<1> QED
  BY <1>1, <1>2

\* Whoever is at work on one payload does not care about others.
LEMMA WorkStays ==
  ASSUME NEW P, NEW Q, Extends(P, Q)
  PROVE  /\ \A s : RunOn(P, s) => RunOn(Q, s)
         /\ \A r : RemovalOn(P, r) => RemovalOn(Q, r)
<1>1. DOMAIN P \subseteq DOMAIN Q
  BY DEF Extends
<1>2. \A s \in Seq(OrdersIn(P)) : s \in Seq(OrdersIn(Q))
  BY OrdersStay
<1>3. ASSUME NEW s, RunOn(P, s) PROVE RunOn(Q, s)
  BY <1>1, <1>2, <1>3 DEF RunOn
<1>4. ASSUME NEW r, RemovalOn(P, r) PROVE RemovalOn(Q, r)
  BY <1>1, <1>4 DEF RemovalOn
<1> QED
  BY <1>3, <1>4

\* Checkpoint::barrier
LEMMA BarrierGrows ==
  ASSUME Sound(checkpoints), NEW c \in DOMAIN checkpoints, NEW Q, Q = apply_with(c, Barrier)
  PROVE  Grows(checkpoints, Q)
<1>1. ResultsOf(checkpoints, c) \in Seq(ResultSet) /\ DatabaseOf(checkpoints, c) \in StateSet
  BY DEF Sound, SoundAt
<1>2. Made(Barrier, ResultsOf(checkpoints, c), DatabaseOf(checkpoints, c))
  BY <1>1, BarrierIsMade
<1>3. Q = Built(checkpoints, c, Barrier)
  BY DEF apply_with, Built, depth
<1> QED
  BY <1>2, <1>3 DEF Grows

\* Checkpoint::apply with a transaction.
LEMMA TransactionGrows ==
  ASSUME Sound(checkpoints), NEW c \in DOMAIN checkpoints, NEW tx \in TxSet, NEW outcome \in Outcomes,
         NEW e, e = execute_transaction(tx, database(c), outcome), e.error = "none",
         NEW Q, Q = apply_with(c, e.mutation)
  PROVE  Grows(checkpoints, Q)
<1>1. PICK pre : pre = ResultsOf(checkpoints, c)
  OBVIOUS
<1>2. PICK state : state = DatabaseOf(checkpoints, c)
  OBVIOUS
<1>3. pre \in Seq(ResultSet) /\ state \in StateSet /\ Tree(checkpoints)
  BY <1>1, <1>2 DEF Sound, SoundAt
<1>4. e = execute_transaction(tx, state, outcome)
  BY <1>2, <1>3, ReadsAre
<1>5. Made(e.mutation, pre, state)
  BY <1>3, <1>4, TransactionIsMade
<1>6. Q = Built(checkpoints, c, e.mutation)
  BY DEF apply_with, Built, depth
<1> QED
  BY <1>1, <1>2, <1>5, <1>6 DEF Grows

\* Checkpoint::apply with a bundle.
LEMMA BundleGrows ==
  ASSUME Sound(checkpoints), NEW c \in DOMAIN checkpoints, NEW b \in BundleSet,
         NEW outcomes \in BundleOutcomes(b),
         NEW e, e = execute_bundle(b, database(c), outcomes), e.error = "none",
         NEW Q, Q = apply_with(c, e.mutation)
  PROVE  Grows(checkpoints, Q)
<1>1. PICK pre : pre = ResultsOf(checkpoints, c)
  OBVIOUS
<1>2. PICK state : state = DatabaseOf(checkpoints, c)
  OBVIOUS
<1>3. pre \in Seq(ResultSet) /\ state \in StateSet /\ Tree(checkpoints)
  BY <1>1, <1>2 DEF Sound, SoundAt
<1>4. e = execute_bundle(b, state, outcomes)
  BY <1>2, <1>3, ReadsAre
<1>5. Made(e.mutation, pre, state)
  BY <1>3, <1>4, BundleIsMade
<1>6. Q = Built(checkpoints, c, e.mutation)
  BY DEF apply_with, Built, depth
<1> QED
  BY <1>1, <1>2, <1>5, <1>6 DEF Grows

\* Types and soundness of everything.
TypeInv ==
  /\ Sound(checkpoints)
  /\ RemovalOn(checkpoints, removal)
  /\ RunOn(checkpoints, run)

\* No checkpoint is ever changed, and every new one is sound.
Moves == checkpoints' = checkpoints \/ Grows(checkpoints, checkpoints')

\* The new checkpoint of a removal that goes on.
Extension(m) ==
  /\ Made(m, ResultsOf(checkpoints, removal.prefix), DatabaseOf(checkpoints, removal.prefix))
  /\ m.kind # "barrier"
  /\ removable(m) = {}
  /\ checkpoints' = Built(checkpoints, removal.prefix, m)
  /\ removal' = [removal EXCEPT !.prefix = Len(checkpoints'), !.remaining = Tail(@)]

\* It stays where it is.
Stays ==
  /\ checkpoints' = checkpoints
  /\ \E q \in Seq(Mutations) : removal' = [removal EXCEPT !.remaining = q]

\* A transaction that is executed again.
LEMMA ReapplyTransactionIs ==
  ASSUME TypeInv, removal.pc = "running", removal.remaining # << >>,
         NEW next, next = Head(removal.remaining), next.kind = "transaction",
         NEW outcome \in Outcomes,
         NEW e, e = execute_transaction(next.source, database(removal.prefix), outcome),
         ReapplyTransaction(e)
  PROVE  (\E m : Extension(m)) \/ Stays
<1>1. removal \in RemovalSet /\ removal.prefix \in DOMAIN checkpoints /\ removal.remaining \in Seq(Mutations)
  BY DEF TypeInv, RemovalOn, RemovalSet
<1>2. next \in Mutations /\ Tail(removal.remaining) \in Seq(Mutations)
  BY <1>1
<1>3. next \in Executed("transaction", TxSet)
  BY <1>2, KindOf
<1>4. PICK tx : tx = next.source
  OBVIOUS
<1>5. tx \in TxSet
  BY <1>3, <1>4 DEF Executed
<1>6. CASE e.error = "none" /\ removable(e.mutation) = {}
  <2>1. PICK c \in DOMAIN checkpoints : c = removal.prefix
    BY <1>1
  <2>2. PICK pre : pre = ResultsOf(checkpoints, c)
    OBVIOUS
  <2>3. PICK state : state = DatabaseOf(checkpoints, c)
    OBVIOUS
  <2>4. pre \in Seq(ResultSet) /\ state \in StateSet /\ Tree(checkpoints)
    BY <2>2, <2>3 DEF TypeInv, Sound, SoundAt
  <2>5. e = execute_transaction(tx, state, outcome)
    BY <1>4, <2>1, <2>3, <2>4, ReadsAre
  <2>6. Made(e.mutation, pre, state) /\ e.mutation.kind = "transaction"
    BY <1>5, <1>6, <2>4, <2>5, TransactionIsMade
  <2>7. /\ checkpoints' = apply_with(c, e.mutation)
        /\ removal' = [removal EXCEPT !.prefix = Len(checkpoints'), !.remaining = Tail(@)]
    BY <1>6, <2>1 DEF ReapplyTransaction, Extend
  <2>8. checkpoints' = Built(checkpoints, c, e.mutation)
    BY <2>7 DEF apply_with, Built, depth
  <2>9. Extension(e.mutation)
    BY <1>6, <2>1, <2>2, <2>3, <2>6, <2>7, <2>8 DEF Extension
  <2> QED
    BY <2>9
<1>7. CASE ~(e.error = "none" /\ removable(e.mutation) = {})
  <2>1. removal' = [removal EXCEPT !.remaining = Tail(@)] /\ checkpoints' = checkpoints
    BY <1>7 DEF ReapplyTransaction, DropNext
  <2> QED
    BY <1>2, <2>1 DEF Stays
<1> QED
  BY <1>6, <1>7

\* A bundle that is executed again, or tried again without what failed.
LEMMA ReapplyBundleIs ==
  ASSUME TypeInv, removal.pc = "running", removal.remaining # << >>,
         NEW next, next = Head(removal.remaining), next.kind = "bundle",
         NEW outcomes \in BundleOutcomes(next.source),
         NEW e, e = execute_bundle(next.source, database(removal.prefix), outcomes),
         ReapplyBundle(next.source, e)
  PROVE  (\E m : Extension(m)) \/ Stays
<1>1. removal \in RemovalSet /\ removal.prefix \in DOMAIN checkpoints /\ removal.remaining \in Seq(Mutations)
  BY DEF TypeInv, RemovalOn, RemovalSet
<1>2. next \in Mutations /\ Tail(removal.remaining) \in Seq(Mutations)
  BY <1>1
<1>3. next \in Executed("bundle", BundleSet)
  BY <1>2, KindOf
<1>4. PICK b : b = next.source
  OBVIOUS
<1>5. b \in BundleSet
  BY <1>3, <1>4 DEF Executed
<1>6. PICK m : m = e.mutation
  OBVIOUS
<1> DEFINE failed == {i \in DOMAIN e.mutation.results :
                       /\ e.mutation.results[i].outcome # "Success"
                       /\ is_optional(next.source, e.mutation.source.txs[i])}
           reduced == Reduced(failed, e.mutation.source.txs, next.source, e.mutation.results)
<1>7. IF e.error # "none" THEN DropNext
      ELSE IF failed = {} THEN Extend(e)
      ELSE /\ removal' = [removal EXCEPT !.remaining[1].source = reduced]
           /\ UNCHANGED checkpoints
  BY Zenon DEF ReapplyBundle, Reduced
<1>8. CASE e.error # "none"
  <2>1. removal' = [removal EXCEPT !.remaining = Tail(@)] /\ checkpoints' = checkpoints
    BY <1>7, <1>8 DEF DropNext
  <2> QED
    BY <1>2, <2>1 DEF Stays
<1>9. CASE e.error = "none"
  <2>1. PICK c \in DOMAIN checkpoints : c = removal.prefix
    BY <1>1
  <2>2. PICK pre : pre = ResultsOf(checkpoints, c)
    OBVIOUS
  <2>3. PICK state : state = DatabaseOf(checkpoints, c)
    OBVIOUS
  <2>4. pre \in Seq(ResultSet) /\ state \in StateSet /\ Tree(checkpoints)
    BY <2>2, <2>3 DEF TypeInv, Sound, SoundAt
  <2>5. e = execute_bundle(b, state, outcomes) /\ outcomes \in BundleOutcomes(b)
    BY <1>4, <2>1, <2>3, <2>4, ReadsAre
  <2> HIDE DEF failed, reduced
  <2>6. Made(m, pre, state) /\ m.kind = "bundle" /\ m.executable = b
    BY <1>5, <1>6, <1>9, <2>4, <2>5, BundleIsMade
  <2>7. RulesOf(m) /\ m \in Mutations
    BY <2>6 DEF Made
  <2>8. CASE failed = {}
    <3>1. removable(m) = {}
      <4>1. m.source.dropping_tx_hashes \subseteq b.dropping_tx_hashes
        BY <2>6, <2>7 DEF RulesOf
      <4>2. removable(m) \subseteq failed
        BY <1>4, <1>6, <2>6, <4>1 DEF removable, failed, is_optional
      <4> QED
        BY <2>8, <4>2
    <3>2. /\ checkpoints' = apply_with(c, m)
          /\ removal' = [removal EXCEPT !.prefix = Len(checkpoints'), !.remaining = Tail(@)]
      BY <1>6, <1>7, <1>9, <2>1, <2>8 DEF Extend
    <3>3. checkpoints' = Built(checkpoints, c, m)
      BY <3>2 DEF apply_with, Built, depth
    <3>4. Extension(m)
      BY <2>1, <2>2, <2>3, <2>6, <3>1, <3>2, <3>3 DEF Extension
    <3> QED
      BY <3>4
  <2>9. CASE failed # {}
    <3>1. PICK results : results = m.results
      OBVIOUS
    <3>2. results \in Seq(ResultSet)
      BY <2>7, <3>1, MutationParts
    <3>3. PICK n \in Nat : DOMAIN results = 1..n
      BY <3>2
    <3>4. PICK txs : txs = m.source.txs
      OBVIOUS
    <3>5. \A i \in failed : txs[i] \in TxSet /\ is_optional(b, txs[i])
      <4>1. b.dropping_tx_hashes \in SUBSET TxSet
        BY <1>5 DEF BundleSet
      <4> QED
        BY <1>4, <1>6, <3>4, <4>1 DEF failed, is_optional
    <3>6. reduced = Reduced(failed, txs, b, results)
      BY <1>4, <1>6, <3>1, <3>4 DEF reduced
    <3>7. /\ reduced \in BundleSet
          /\ reduced.dropping_tx_hashes \subseteq b.dropping_tx_hashes
          /\ LeftOf(b, reduced)
      BY <1>5, <3>3, <3>5, <3>6, ReducedType
    <3>9. PICK new : new = [next EXCEPT !.source = reduced]
      OBVIOUS
    <3>10. new \in Mutations
      BY <1>3, <3>7, <3>9 DEF Executed, Mutations, Orders
    <3>11. PICK q : q = [removal.remaining EXCEPT ![1] = new]
      OBVIOUS
    <3>12. q \in Seq(Mutations)
      BY <1>1, <3>10, <3>11
    <3>13. removal.remaining[1] = next
      BY <1>1
    <3>14. removal' = [removal EXCEPT !.remaining = q] /\ checkpoints' = checkpoints
      BY <1>7, <1>9, <2>9, <3>9, <3>11, <3>13
    <3> QED
      BY <3>12, <3>14 DEF Stays
  <2> QED
    BY <2>8, <2>9
<1> QED
  BY <1>8, <1>9

\* Reapply
LEMMA ReapplyIs ==
  ASSUME TypeInv, Reapply
  PROVE  (\E m : Extension(m)) \/ Stays
<1>1. PICK next : next = Head(removal.remaining)
  OBVIOUS
<1>2. PICK db : db = database(removal.prefix)
  OBVIOUS
<1>3. removal.pc = "running" /\ removal.remaining # << >>
  BY DEF Reapply
<1>4. \/ /\ next.kind = "transaction"
         /\ \E o \in Outcomes : ReapplyTransaction(execute_transaction(next.source, db, o))
      \/ /\ next.kind = "bundle"
         /\ \E o \in BundleOutcomes(next.source) :
              ReapplyBundle(next.source, execute_bundle(next.source, db, o))
  BY <1>1, <1>2 DEF Reapply
<1>5. CASE /\ next.kind = "transaction"
           /\ \E o \in Outcomes : ReapplyTransaction(execute_transaction(next.source, db, o))
  <2>1. PICK o \in Outcomes : ReapplyTransaction(execute_transaction(next.source, db, o))
    BY <1>5
  <2>2. PICK e : e = execute_transaction(next.source, db, o)
    OBVIOUS
  <2> QED
    BY <1>1, <1>2, <1>3, <1>5, <2>1, <2>2, ReapplyTransactionIs
<1>6. CASE /\ next.kind = "bundle"
           /\ \E o \in BundleOutcomes(next.source) :
                ReapplyBundle(next.source, execute_bundle(next.source, db, o))
  <2>1. PICK o \in BundleOutcomes(next.source) :
          ReapplyBundle(next.source, execute_bundle(next.source, db, o))
    BY <1>6
  <2>2. PICK e : e = execute_bundle(next.source, db, o)
    OBVIOUS
  <2> QED
    BY <1>1, <1>2, <1>3, <1>6, <2>1, <2>2, ReapplyBundleIs
<1> QED
  BY <1>4, <1>5, <1>6

FailuresAt(P, c) == removable(P[c].mutation) # {}

\* BeginRemoval: the first failure is behind the barrier.
LEMMA FirstFailure ==
  ASSUME Tree(checkpoints), NEW c \in DOMAIN checkpoints, NEW s, s = StagingOf(checkpoints, c),
         NEW first, first = SelectInSeq(s, has_failures), first # 0
  PROVE  /\ first \in 2..Len(s)
         /\ \A i \in 1..(first - 1) : i \in 1..Len(s) /\ ~FailuresAt(checkpoints, s[i])
<1>1. PICK h : h = HistoryOf(checkpoints, c)
  OBVIOUS
<1>2. PICK b : b = LastBarrier(checkpoints, h)
  OBVIOUS
<1>3. /\ s \in Seq(DOMAIN checkpoints)
      /\ Len(s) \in Nat
      /\ Len(s) >= 1
      /\ BarrierAt(checkpoints, s[1])
  BY <1>1, <1>2, StagingIs
<1>4. PICK n \in Nat : n = Len(s) /\ n >= 1 /\ \A i \in 1..n : s[i] \in DOMAIN checkpoints
  BY <1>3
<1> DEFINE I == {i \in 1..n : has_failures(s[i])}
<1>5. first = IF I # {} THEN Min(I) ELSE 0
  BY <1>4 DEF SelectInSeq
<1>6. I \in SUBSET Nat /\ I # {}
  BY <1>5
<1>7. \A i \in 1..n : i \in I <=> FailuresAt(checkpoints, s[i])
  BY DEF has_failures, FailuresAt
<1>8. I \in SUBSET (1..n)
  OBVIOUS
<1> HIDE DEF I
<1>9. first \in I /\ \A y \in I : first <= y
  BY <1>5, <1>6, MinOf
<1>10. ~FailuresAt(checkpoints, s[1])
  <2>1. PICK m : m = checkpoints[s[1]].mutation
    OBVIOUS
  <2>2. s[1] \in DOMAIN checkpoints
    BY <1>4
  <2>3. m \in Mutations
    BY <2>1, <2>2, TreeAt
  <2>4. m = Barrier
    BY <1>3, <2>1, <2>3, KindOf DEF BarrierAt
  <2>5. DOMAIN m.results = {}
    BY <2>4 DEF Barrier
  <2>6. removable(m) = {}
    BY <2>5 DEF removable
  <2> QED
    BY <2>1, <2>6 DEF FailuresAt
<1>11. first \in 1..n /\ first # 1
  BY <1>4, <1>7, <1>8, <1>9, <1>10
<1>12. \A i \in 1..(first - 1) : i \in 1..n /\ ~(first <= i)
  BY <1>11
<1> QED
  BY <1>4, <1>7, <1>9, <1>11, <1>12

\* What BeginRemoval leaves to do.
Begins(c, s, first) ==
  /\ c \in DOMAIN checkpoints
  /\ removal.pc = "idle"
  /\ s = StagingOf(checkpoints, c)
  /\ s \in Seq(DOMAIN checkpoints)
  /\ first \in 2..Len(s)
  /\ \A i \in 1..(first - 1) : ~FailuresAt(checkpoints, s[i])
  /\ s[first - 1] \in DOMAIN checkpoints
  /\ removal'.pc = "running"
  /\ removal'.from = c
  /\ removal'.prefix = s[first - 1]
  /\ removal' \in RemovalSet
  /\ checkpoints' = checkpoints

\* BeginRemoval
LEMMA BeginRemovalIs ==
  ASSUME TypeInv, NEW c \in DOMAIN checkpoints, BeginRemoval(c)
  PROVE  \E s, first : Begins(c, s, first)
<1>1. Tree(checkpoints)
  BY DEF TypeInv, Sound
<1>2. PICK s : s = StagingOf(checkpoints, c)
  OBVIOUS
<1>3. PICK first : first = SelectInSeq(s, has_failures)
  OBVIOUS
<1>4. PICK again : again = SubSeq(s, first, Len(s))
  OBVIOUS
<1>5. PICK remaining : remaining = [i \in DOMAIN again |-> checkpoints[again[i]].mutation]
  OBVIOUS
<1>6. s = history_staging(c)
  BY <1>1, <1>2, SpansAre
<1>7. /\ removal.pc = "idle"
      /\ first # 0
      /\ removal' = [pc |-> "running", from |-> c, prefix |-> s[first - 1], remaining |-> remaining]
      /\ checkpoints' = checkpoints
  BY <1>3, <1>4, <1>5, <1>6 DEF BeginRemoval
<1>8. /\ first \in 2..Len(s)
      /\ \A i \in 1..(first - 1) : i \in 1..Len(s) /\ ~FailuresAt(checkpoints, s[i])
  BY <1>1, <1>2, <1>3, <1>7, FirstFailure
<1>9. PICK h : h = HistoryOf(checkpoints, c)
  OBVIOUS
<1>10. PICK b : b = LastBarrier(checkpoints, h)
  OBVIOUS
<1>11. s \in Seq(DOMAIN checkpoints) /\ Len(s) \in Nat
  BY <1>1, <1>2, <1>9, <1>10, StagingIs
<1>12. PICK n \in Nat : n = Len(s) /\ \A i \in 1..n : s[i] \in DOMAIN checkpoints
  BY <1>11
<1>13. first \in Nat /\ first - 1 \in 1..n /\ first \in 1..n
  BY <1>8, <1>12
<1>14. s[first - 1] \in DOMAIN checkpoints
  BY <1>12, <1>13
<1>15. PICK l \in Nat : DOMAIN checkpoints = 1..l /\ \A e \in 1..l : checkpoints[e].mutation \in Mutations
  BY <1>1, TreeAt
<1>16. again \in Seq(DOMAIN checkpoints)
  <2>1. \A i \in first..n : s[i] \in DOMAIN checkpoints
    BY <1>12, <1>13
  <2> QED
    BY <1>4, <1>11, <1>12, <1>13, <2>1
<1>17. remaining \in Seq(Mutations)
  <2>1. PICK k \in Nat : DOMAIN again = 1..k /\ \A i \in 1..k : again[i] \in DOMAIN checkpoints
    BY <1>16
  <2>2. \A i \in 1..k : checkpoints[again[i]].mutation \in Mutations
    BY <1>15, <2>1
  <2>3. remaining \in [1..k -> Mutations]
    BY <1>5, <2>1, <2>2
  <2> QED
    BY <2>1, <2>3
<1>18. c \in Nat /\ s[first - 1] \in Nat
  BY <1>14, <1>15
<1>19. removal' \in RemovalSet /\ removal'.pc = "running" /\ removal'.from = c /\ removal'.prefix = s[first - 1]
  BY <1>7, <1>17, <1>18 DEF RemovalSet
<1> QED
  BY <1>2, <1>7, <1>8, <1>11, <1>14, <1>19 DEF Begins

\* Steps on checkpoints.
LEMMA CheckpointStep ==
  ASSUME TypeInv, Next
  PROVE  Moves /\ RemovalOn(checkpoints', removal')
<1>1. Sound(checkpoints) /\ RemovalOn(checkpoints, removal) /\ Tree(checkpoints)
  BY DEF TypeInv, Sound
<1>2. ASSUME UNCHANGED removal, Grows(checkpoints, checkpoints')
      PROVE  Moves /\ RemovalOn(checkpoints', removal')
  <2>1. Extends(checkpoints, checkpoints')
    BY <1>1, <1>2, GrowsIs
  <2>2. RemovalOn(checkpoints', removal)
    BY <1>1, <2>1, WorkStays
  <2> QED
    BY <1>2, <2>2 DEF Moves
<1>3. ASSUME NEW c \in DOMAIN checkpoints, NEW tx \in Transactions, NEW outcome \in Outcomes,
             ApplyTransaction(c, tx, outcome)
      PROVE  Moves /\ RemovalOn(checkpoints', removal')
  <2>1. PICK e : e = execute_transaction(tx, database(c), outcome)
    OBVIOUS
  <2>2. e.error = "none" /\ checkpoints' = apply_with(c, e.mutation) /\ UNCHANGED removal
    BY <1>3, <2>1 DEF ApplyTransaction, Apply
  <2>3. tx \in TxSet
    BY OrdersAreOrders
  <2>4. Grows(checkpoints, checkpoints')
    BY <1>1, <2>1, <2>2, <2>3, TransactionGrows
  <2> QED
    BY <1>2, <2>2, <2>4
<1>4. ASSUME NEW c \in DOMAIN checkpoints, NEW b \in Bundles, NEW outcomes \in BundleOutcomes(b),
             ApplyBundle(c, b, outcomes)
      PROVE  Moves /\ RemovalOn(checkpoints', removal')
  <2>1. PICK e : e = execute_bundle(b, database(c), outcomes)
    OBVIOUS
  <2>2. e.error = "none" /\ checkpoints' = apply_with(c, e.mutation) /\ UNCHANGED removal
    BY <1>4, <2>1 DEF ApplyBundle, Apply
  <2>3. b \in BundleSet
    BY OrdersAreOrders
  <2>4. Grows(checkpoints, checkpoints')
    BY <1>1, <2>1, <2>2, <2>3, BundleGrows
  <2> QED
    BY <1>2, <2>2, <2>4
<1>5. ASSUME NEW c \in DOMAIN checkpoints, MakeBarrier(c)
      PROVE  Moves /\ RemovalOn(checkpoints', removal')
  <2>1. checkpoints' = apply_with(c, Barrier) /\ UNCHANGED removal
    BY <1>5 DEF MakeBarrier
  <2>2. Grows(checkpoints, checkpoints')
    BY <1>1, <2>1, BarrierGrows
  <2> QED
    BY <1>2, <2>1, <2>2
<1>6. ASSUME NEW c \in DOMAIN checkpoints, BeginRemoval(c)
      PROVE  Moves /\ RemovalOn(checkpoints', removal')
  <2>1. PICK s, first : Begins(c, s, first)
    BY <1>6, BeginRemovalIs
  <2> QED
    BY <2>1 DEF Begins, Moves, RemovalOn
<1>7. ASSUME Reapply PROVE Moves /\ RemovalOn(checkpoints', removal')
  <2>1. removal \in RemovalSet /\ removal.prefix \in DOMAIN checkpoints /\ removal.from \in DOMAIN checkpoints
        /\ removal.remaining \in Seq(Mutations) /\ removal.pc = "running" /\ removal.remaining # << >>
    BY <1>1, <1>7 DEF RemovalOn, RemovalSet, Reapply
  <2>2. CASE Stays
    <3>1. PICK q \in Seq(Mutations) : removal' = [removal EXCEPT !.remaining = q]
      BY <2>2 DEF Stays
    <3>2. removal' \in RemovalSet /\ removal'.prefix = removal.prefix /\ removal'.from = removal.from
      BY <2>1, <3>1 DEF RemovalSet
    <3> QED
      BY <2>1, <2>2, <3>2 DEF Stays, Moves, RemovalOn
  <2>3. CASE \E m : Extension(m)
    <3>1. PICK m : Extension(m)
      BY <2>3
    <3>2. Grows(checkpoints, checkpoints')
      BY <2>1, <3>1 DEF Extension, Grows
    <3>3. Extends(checkpoints, checkpoints') /\ Len(checkpoints') \in DOMAIN checkpoints'
      BY <1>1, <3>2, GrowsIs
    <3>4. PICK k : k = Len(checkpoints')
      OBVIOUS
    <3>5. k \in Nat /\ removal.from \in DOMAIN checkpoints' /\ k \in DOMAIN checkpoints'
      BY <2>1, <3>3, <3>4 DEF Extends
    <3>6. Tail(removal.remaining) \in Seq(Mutations)
      BY <2>1
    <3>7. removal' = [removal EXCEPT !.prefix = k, !.remaining = Tail(@)]
      BY <3>1, <3>4 DEF Extension
    <3>8. removal' \in RemovalSet /\ removal'.prefix = k /\ removal'.from = removal.from
      BY <2>1, <3>5, <3>6, <3>7 DEF RemovalSet
    <3> QED
      BY <3>2, <3>5, <3>8 DEF Moves, RemovalOn
  <2> QED
    BY <1>7, <2>2, <2>3, ReapplyIs
<1>8. ASSUME EndRemoval PROVE Moves /\ RemovalOn(checkpoints', removal')
  <2>1. removal' = [removal EXCEPT !.pc = "done"] /\ checkpoints' = checkpoints /\ removal.pc = "running"
    BY <1>8 DEF EndRemoval
  <2>2. removal' \in RemovalSet /\ removal'.prefix = removal.prefix /\ removal'.from = removal.from
    BY <1>1, <2>1 DEF RemovalOn, RemovalSet
  <2> QED
    BY <1>1, <2>1, <2>2 DEF Moves, RemovalOn
<1> QED
  BY <1>3, <1>4, <1>5, <1>6, <1>7, <1>8 DEF Next

(***************************************************************************)
(* Combinators                                                             *)
(***************************************************************************)

AllOk(s) ==
  /\ Len(s.flows) <= Len(s.steps)
  /\ \A i \in DOMAIN s.flows : s.flows[i] = "ok"
  /\ s.pc # "between" => Len(s.flows) < Len(s.steps)
  /\ s.kind = "one_step" => s.flows = << >>

\* AllOrNothing, for a run.
AllOrNothingOf(s) ==
  \/ s.kind = "atomic" /\ s.current = s.initial
  \/ s.flows = [i \in DOMAIN s.steps |-> "ok"]

\* What has returned while a combinator is at work, and when it has returned.
Control(s) ==
  s # NoRun =>
    /\ s.kind = "one_step" => Len(s.steps) = 1
    /\ s.pc \in {"between", "ordering", "prologue"} => AllOk(s)
    /\ s.pc = "recording" => s.kind = "one_step" /\ Len(s.flows) = 1
    /\ s.pc = "ok" => AllOrNothingOf(s)
    /\ s.kind = "one_step" /\ s.pc \in {"ok", "break", "fail", "none"} =>
         s.pc = Head(s.flows) \/ (s.pc = "fail" /\ Head(s.flows) = "break")

\* A step returns, and the combinator with it or not.
Returned(pc, payload, flow) ==
  [run EXCEPT !.pc = pc, !.current = payload, !.work = << >>, !.prefix = NoCheckpoint,
              !.flows = Append(@, flow)]

\* Where a step is.
AtStep(s) ==
  /\ s \in RunRecords
  /\ s # NoRun
  /\ s.pc \in {"between", "ordering", "prologue"}
  /\ Len(s.flows) < Len(s.steps)

\* What the three combinators make of it.
LEMMA StepReturnsIs ==
  ASSUME AtStep(run), NEW flow \in Flows, NEW payload, StepReturns(flow, payload)
  PROVE  \/ run.kind \in {"atomic", "chain"} /\ flow = "ok" /\ run' = Returned("between", payload, flow)
         \/ run.kind = "atomic" /\ flow # "ok" /\ run' = Returned("ok", run.initial, flow)
         \/ run.kind = "chain" /\ flow # "ok" /\ run' = Returned(flow, payload, flow)
         \/ run.kind = "one_step" /\ run' = Returned("recording", payload, flow)
<1>1. run \in RunRecords /\ run.kind \in {"atomic", "chain", "one_step"}
  BY DEF AtStep, RunRecords
<1>2. \A pc, p : [returned(pc, p) EXCEPT !.flows = Append(@, flow)] = Returned(pc, p, flow)
  BY <1>1 DEF returned, Returned, RunRecords
<1>3. CASE run.kind = "atomic"
  <2>1. run' = atomic(flow, payload)
    BY <1>3 DEF StepReturns
  <2> QED
    BY <1>2, <1>3, <2>1 DEF atomic
<1>4. CASE run.kind = "chain"
  <2>1. run' = chain(flow, payload)
    BY <1>4 DEF StepReturns
  <2> QED
    BY <1>2, <1>4, <2>1 DEF chain
<1>5. CASE run.kind = "one_step"
  <2>1. run' = one_step(flow, payload)
    BY <1>5 DEF StepReturns
  <2> QED
    BY <1>2, <1>5, <2>1 DEF one_step
<1> QED
  BY <1>1, <1>3, <1>4, <1>5

\* The fields of what is returned.
LEMMA ReturnedIs ==
  ASSUME run \in RunRecords, NEW flow \in Flows, NEW payload \in Nat,
         NEW pc \in {"between", "ok", "break", "fail", "recording"},
         NEW new, new = Returned(pc, payload, flow)
  PROVE  /\ new \in RunRecords
         /\ new.pc = pc /\ new.current = payload /\ new.initial = run.initial
         /\ new.kind = run.kind /\ new.steps = run.steps
         /\ new.flows = Append(run.flows, flow)
<1>1. /\ Append(run.flows, flow) \in Seq(Flows)
      /\ << >> \in Seq(TxSet) /\ NoCheckpoint \in Nat
  BY DEF RunRecords, NoCheckpoint
<1>2. new = [run EXCEPT !.pc = pc, !.current = payload, !.work = << >>, !.prefix = NoCheckpoint,
                        !.flows = Append(run.flows, flow)]
  BY DEF Returned, RunRecords
<1>3. new \in RunRecords
  BY <1>1, <1>2 DEF RunRecords
<1> QED
  BY <1>2, <1>3 DEF RunRecords

\* A run stays one of the known kind.
LEMMA StepReturnsType ==
  ASSUME AtStep(run), RunOn(checkpoints, run), NEW flow \in Flows, NEW Q,
         \A e \in DOMAIN checkpoints : e \in DOMAIN Q,
         NEW payload \in Nat, payload \in DOMAIN Q, StepReturns(flow, payload)
  PROVE  RunOn(Q, run')
<1>1. run \in RunRecords /\ run.initial \in DOMAIN checkpoints /\ run.initial \in Nat
  BY DEF AtStep, RunOn, RunRecords
<1>2. \E pc \in {"between", "ok", "break", "fail", "recording"}, p \in {payload, run.initial} :
        run' = Returned(pc, p, flow)
  BY StepReturnsIs DEF Flows
<1>3. PICK pc \in {"between", "ok", "break", "fail", "recording"}, p \in {payload, run.initial} :
        run' = Returned(pc, p, flow)
  BY <1>2
<1>4. p \in Nat /\ p \in DOMAIN Q
  BY <1>1, <1>3
<1>5. /\ run' \in RunRecords
      /\ run'.pc = pc /\ run'.current = p /\ run'.initial = run.initial
  BY <1>1, <1>3, <1>4, ReturnedIs
<1> QED
  BY <1>1, <1>4, <1>5 DEF RunOn

\* And the combinator returns only what it may.
LEMMA StepReturnsControl ==
  ASSUME AtStep(run), Control(run), NEW flow \in Flows,
         NEW payload \in Nat, StepReturns(flow, payload)
  PROVE  Control(run')
<1>1. run \in RunRecords /\ run.initial \in Nat /\ run # NoRun /\ run.flows \in Seq(Flows) /\ run.steps \in Seq(StepNames)
  BY DEF AtStep, RunRecords
<1>2. AllOk(run) /\ Len(run.flows) < Len(run.steps) /\ (run.kind = "one_step" => Len(run.steps) = 1)
  BY DEF AtStep, Control
<1>3. PICK fl : fl = run.flows
  OBVIOUS
<1>4. PICK more : more = Append(fl, flow)
  OBVIOUS
<1>5. PICK n \in Nat : n = Len(fl) /\ DOMAIN fl = 1..n /\ \A i \in 1..n : fl[i] = "ok"
  BY <1>1, <1>2, <1>3 DEF AllOk
<1>6. Len(more) = n + 1 /\ DOMAIN more = 1..(n + 1) /\ more[n + 1] = flow /\ \A i \in 1..n : more[i] = fl[i]
  BY <1>1, <1>3, <1>4, <1>5
<1>7. flow = "ok" => \A i \in 1..(n + 1) : more[i] = "ok"
  <2>1. \A i \in 1..(n + 1) : i = n + 1 \/ i \in 1..n
    BY <1>5
  <2> QED
    BY <1>5, <1>6, <2>1
<1>8. Len(more) <= Len(run.steps)
  BY <1>1, <1>2, <1>3, <1>5, <1>6
<1>9. CASE run.kind \in {"atomic", "chain"} /\ flow = "ok" /\ run' = Returned("between", payload, flow)
  <2>1. run'.pc = "between" /\ run'.kind = run.kind /\ run'.steps = run.steps /\ run'.flows = more
    BY <1>1, <1>3, <1>4, <1>9, ReturnedIs
  <2>2. AllOk(run')
    BY <1>6, <1>7, <1>8, <1>9, <2>1 DEF AllOk
  <2> QED
    BY <1>9, <2>1, <2>2 DEF Control
<1>10. CASE run.kind = "atomic" /\ flow # "ok" /\ run' = Returned("ok", run.initial, flow)
  <2>1. run'.pc = "ok" /\ run'.kind = run.kind /\ run'.current = run.initial /\ run'.initial = run.initial
    BY <1>1, <1>10, ReturnedIs
  <2> QED
    BY <1>10, <2>1 DEF Control, AllOrNothingOf
<1>11. CASE run.kind = "chain" /\ flow # "ok" /\ run' = Returned(flow, payload, flow)
  <2>1. flow \in {"break", "fail"}
    BY <1>11 DEF Flows
  <2>2. run'.pc = flow /\ run'.kind = run.kind
    BY <1>1, <1>11, <2>1, ReturnedIs
  <2> QED
    BY <1>11, <2>1, <2>2 DEF Control
<1>12. CASE run.kind = "one_step" /\ run' = Returned("recording", payload, flow)
  <2>1. run'.pc = "recording" /\ run'.kind = run.kind /\ run'.steps = run.steps /\ run'.flows = more
    BY <1>1, <1>3, <1>4, <1>12, ReturnedIs
  <2>2. n = 0
    BY <1>2, <1>3, <1>5, <1>12 DEF AllOk
  <2>3. Len(run'.flows) = 1
    BY <1>6, <2>1, <2>2
  <2> QED
    BY <1>2, <1>12, <2>1, <2>3 DEF Control
<1> QED
  BY <1>9, <1>10, <1>11, <1>12, StepReturnsIs

(***************************************************************************)
(* Steps of a combinator                                                   *)
(***************************************************************************)

\* What a step of any kind leaves behind.
Safe ==
  /\ Moves
  /\ RemovalOn(checkpoints', removal')
  /\ RunOn(checkpoints', run')
  /\ Control(run')

\* What holds of checkpoints holds after every step.
LEMMA MovesIs ==
  ASSUME Sound(checkpoints), Moves
  PROVE  /\ Sound(checkpoints')
         /\ \A e \in DOMAIN checkpoints : e \in DOMAIN checkpoints' /\ checkpoints'[e] = checkpoints[e]
         /\ \A s : RunOn(checkpoints, s) => RunOn(checkpoints', s)
         /\ \A r : RemovalOn(checkpoints, r) => RemovalOn(checkpoints', r)
         /\ \A s \in Seq(OrdersIn(checkpoints)) : s \in Seq(OrdersIn(checkpoints'))
<1>1. PICK Q : Q = checkpoints'
  OBVIOUS
<1>2. CASE Q = checkpoints
  BY <1>1, <1>2
<1>3. CASE Grows(checkpoints, Q)
  <2>1. Sound(Q) /\ Extends(checkpoints, Q)
    BY <1>3, GrowsIs
  <2>2. /\ \A s : RunOn(checkpoints, s) => RunOn(Q, s)
        /\ \A r : RemovalOn(checkpoints, r) => RemovalOn(Q, r)
    BY <2>1, WorkStays
  <2>3. \A s \in Seq(OrdersIn(checkpoints)) : s \in Seq(OrdersIn(Q))
    BY <2>1, OrdersStay
  <2>4. \A e \in DOMAIN checkpoints : e \in DOMAIN Q /\ Q[e] = checkpoints[e]
    BY <2>1 DEF Extends
  <2> QED
    BY <1>1, <2>1, <2>2, <2>3, <2>4
<1> QED
  BY <1>1, <1>2, <1>3 DEF Moves

\* The last checkpoint is there, and its number is one.
LEMMA NewIsThere ==
  ASSUME Sound(checkpoints), Moves
  PROVE  /\ \A e \in DOMAIN checkpoints' : e \in Nat
         /\ Grows(checkpoints, checkpoints') => Len(checkpoints') \in DOMAIN checkpoints'
<1>1. PICK Q : Q = checkpoints'
  OBVIOUS
<1>2. Sound(Q)
  BY <1>1, MovesIs
<1>3. \E n \in Nat : n >= 1 /\ DOMAIN Q = 1..n /\ Len(Q) = n
  BY <1>2, TreeAt DEF Sound
<1> QED
  BY <1>1, <1>3

\* A step of the combinator returns.
LEMMA Return ==
  ASSUME TypeInv, Control(run), AtStep(run), Moves, UNCHANGED removal,
         NEW flow \in Flows, NEW payload, payload \in DOMAIN checkpoints', StepReturns(flow, payload)
  PROVE  Safe
<1>1. Sound(checkpoints) /\ RemovalOn(checkpoints, removal) /\ RunOn(checkpoints, run)
  BY DEF TypeInv
<1>2. PICK Q : Q = checkpoints'
  OBVIOUS
<1>3. /\ \A e \in DOMAIN checkpoints : e \in DOMAIN Q
      /\ RemovalOn(Q, removal)
  BY <1>1, <1>2, MovesIs
<1>4. payload \in Nat
  BY <1>1, NewIsThere
<1>5. RunOn(Q, run')
  BY <1>1, <1>2, <1>3, <1>4, StepReturnsType
<1>6. Control(run')
  BY <1>4, StepReturnsControl
<1> QED
  BY <1>2, <1>3, <1>5, <1>6 DEF Safe

\* Where a step has got to.
Goes(pc, prefix, work) == [run EXCEPT !.pc = pc, !.prefix = prefix, !.work = work]

\* A step goes on.
LEMMA GoOn ==
  ASSUME TypeInv, Control(run), AtStep(run), Moves, UNCHANGED removal,
         NEW pc \in {"ordering", "prologue"}, NEW prefix, prefix \in DOMAIN checkpoints', NEW work,
         pc = "ordering" => work \in Seq(OrdersIn(checkpoints')),
         pc = "prologue" => work \in Seq(TxSet),
         run' = Goes(pc, prefix, work)
  PROVE  Safe
<1>1. Sound(checkpoints) /\ RemovalOn(checkpoints, removal) /\ RunOn(checkpoints, run)
  BY DEF TypeInv
<1>2. PICK Q : Q = checkpoints'
  OBVIOUS
<1>3. /\ \A e \in DOMAIN checkpoints : e \in DOMAIN Q
      /\ RemovalOn(Q, removal)
  BY <1>1, <1>2, MovesIs
<1>4. prefix \in Nat /\ \A e \in DOMAIN Q : e \in Nat
  BY <1>1, <1>2, NewIsThere
<1>5. run \in RunRecords /\ run.current \in DOMAIN checkpoints /\ run.initial \in DOMAIN checkpoints
  BY <1>1 DEF AtStep, RunOn
<1>6. work \in Seq(TxSet) \cup Seq(Nat)
  <2>1. OrdersIn(Q) \subseteq Nat
    BY <1>4 DEF OrdersIn
  <2>2. \A s \in Seq(OrdersIn(Q)) : s \in Seq(Nat)
    BY <2>1
  <2> QED
    BY <1>2, <2>2
<1>7. /\ run' \in RunRecords
      /\ run'.pc = pc /\ run'.prefix = prefix /\ run'.work = work
      /\ run'.current = run.current /\ run'.initial = run.initial
      /\ run'.kind = run.kind /\ run'.steps = run.steps /\ run'.flows = run.flows
  BY <1>4, <1>5, <1>6 DEF Goes, RunRecords
<1>8. RunOn(Q, run')
  BY <1>2, <1>3, <1>5, <1>7 DEF RunOn
<1>9. AllOk(run) /\ Len(run.flows) < Len(run.steps) /\ (run.kind = "one_step" => Len(run.steps) = 1)
  BY DEF AtStep, Control
<1>10. AllOk(run')
  BY <1>7, <1>9 DEF AllOk
<1>11. Control(run')
  BY <1>7, <1>9, <1>10 DEF Control
<1> QED
  BY <1>2, <1>3, <1>8, <1>11 DEF Safe

\* When a step is called, or is at work.
LEMMA AtWork ==
  ASSUME TypeInv, Control(run),
         run.pc \in {"ordering", "prologue"} \/ \E step : Calls(step)
  PROVE  /\ AtStep(run) /\ Running /\ run.current \in DOMAIN checkpoints
         /\ run.pc \in {"ordering", "prologue"} => run.prefix \in DOMAIN checkpoints
<1>1. run.pc \in {"between", "ordering", "prologue"}
  BY DEF Calls
<1>2. run # NoRun
  BY <1>1 DEF NoRun
<1>3. /\ run \in RunRecords /\ run.current \in DOMAIN checkpoints
      /\ run.pc \in {"ordering", "prologue"} => run.prefix \in DOMAIN checkpoints
  BY <1>2 DEF TypeInv, RunOn
<1>4. run.pc \in {"ordering", "prologue"} => Len(run.flows) < Len(run.steps)
  BY <1>2 DEF Control, AllOk
<1>5. run.pc = "between" => Len(run.flows) < Len(run.steps)
  BY DEF Calls
<1> QED
  BY <1>1, <1>2, <1>3, <1>4, <1>5 DEF AtStep, Running

\* OrderBy::step
LEMMA OrderByIsSafe ==
  ASSUME TypeInv, Control(run), OrderBy
  PROVE  Safe
<1>1. AtStep(run) /\ run.current \in DOMAIN checkpoints /\ Sound(checkpoints) /\ Tree(checkpoints)
  BY AtWork DEF OrderBy, TypeInv, Sound
<1>2. Moves /\ UNCHANGED removal /\ checkpoints' = checkpoints
  BY DEF OrderBy, Moves, vars
<1>3. PICK c \in DOMAIN checkpoints : c = run.current
  BY <1>1
<1>4. PICK s : s = StagingOf(checkpoints, c)
  OBVIOUS
<1>5. s = history_staging(run.current)
  BY <1>1, <1>3, <1>4, SpansAre
<1>6. PICK ordered : ordered = sorted(s)
  OBVIOUS
<1>7. IF ordered = << >> THEN StepReturns("ok", run.current)
      ELSE run' = [run EXCEPT !.pc = "ordering", !.prefix = Head(s), !.work = ordered]
  BY <1>5, <1>6 DEF OrderBy
<1>8. CASE ordered = << >>
  <2>1. StepReturns("ok", c) /\ c \in DOMAIN checkpoints' /\ "ok" \in Flows
    BY <1>2, <1>3, <1>7, <1>8 DEF Flows
  <2> QED
    BY <1>1, <1>2, <2>1, Return
<1>9. CASE ordered # << >>
  <2>1. PICK h : h = HistoryOf(checkpoints, c)
    OBVIOUS
  <2>2. PICK b : b = LastBarrier(checkpoints, h)
    OBVIOUS
  <2>3. s \in Seq(DOMAIN checkpoints) /\ Len(s) \in Nat /\ Len(s) >= 1
    BY <1>1, <1>4, <2>1, <2>2, StagingIs
  <2>4. Head(s) \in DOMAIN checkpoints'
    BY <1>2, <2>3
  <2>5. PICK O : O = {e \in ToSet(s) : ~is_barrier(e)}
    OBVIOUS
  <2>6. ordered \in Seq(O)
    BY <1>1, <1>6, <2>3, <2>5, SortedType
  <2>7. O \subseteq OrdersIn(checkpoints)
    <3>1. \A e \in ToSet(s) : e \in DOMAIN checkpoints
      BY <2>3 DEF ToSet
    <3> QED
      BY <2>5, <3>1 DEF OrdersIn, is_barrier, BarrierAt
  <2>8. ordered \in Seq(OrdersIn(checkpoints'))
    BY <1>2, <2>6, <2>7
  <2>9. run' = Goes("ordering", Head(s), ordered)
    BY <1>7, <1>9 DEF Goes
  <2> QED
    BY <1>1, <1>2, <2>4, <2>8, <2>9, GoOn
<1> QED
  BY <1>8, <1>9

\* Of an order that is in the payload already.
LEMMA OrderGrows ==
  ASSUME Sound(checkpoints), NEW c \in OrdersIn(checkpoints), NEW on \in DOMAIN checkpoints,
         NEW e \in executions(c, on), e.error = "none", NEW Q, Q = apply_with(on, e.mutation)
  PROVE  Grows(checkpoints, Q)
<1>1. PICK m : m = checkpoints[c].mutation
  OBVIOUS
<1>2. Tree(checkpoints) /\ c \in DOMAIN checkpoints
  BY DEF Sound, OrdersIn
<1>3. m \in Mutations
  BY <1>1, <1>2, TreeAt
<1>4. m.kind # "barrier"
  BY <1>1 DEF OrdersIn, BarrierAt
<1>5. CASE m.kind = "transaction"
  <2>1. PICK tx : tx = m.source
    OBVIOUS
  <2>2. tx \in TxSet
    <3>1. m \in Executed("transaction", TxSet)
      BY <1>3, <1>5, KindOf
    <3> QED
      BY <2>1, <3>1 DEF Executed
  <2>3. PICK o \in Outcomes : e = execute_transaction(tx, database(on), o)
    BY <1>1, <1>5, <2>1 DEF executions
  <2> QED
    BY <2>2, <2>3, TransactionGrows
<1>6. CASE m.kind # "transaction"
  <2>1. PICK b : b = m.source
    OBVIOUS
  <2>2. b \in BundleSet
    <3>1. m \in Executed("bundle", BundleSet)
      BY <1>3, <1>4, <1>6, KindOf
    <3> QED
      BY <2>1, <3>1 DEF Executed
  <2>3. PICK o \in BundleOutcomes(b) : e = execute_bundle(b, database(on), o)
    BY <1>1, <1>6, <2>1 DEF executions
  <2> QED
    BY <2>2, <2>3, BundleGrows
<1> QED
  BY <1>5, <1>6

\* OrderBy::step applies the orders again.
LEMMA ApplyOrderedIsSafe ==
  ASSUME TypeInv, Control(run), ApplyOrdered
  PROVE  Safe
<1>1. run.pc = "ordering" /\ run.work # << >> /\ UNCHANGED removal
  BY DEF ApplyOrdered
<1>2. /\ AtStep(run) /\ run \in RunRecords /\ run.current \in DOMAIN checkpoints
      /\ run.prefix \in DOMAIN checkpoints /\ Sound(checkpoints)
  BY <1>1, AtWork DEF TypeInv, AtStep
<1>3. run.work \in Seq(OrdersIn(checkpoints))
  BY <1>1, <1>2 DEF TypeInv, RunOn, AtStep
<1>4. PICK c : c = Head(run.work)
  OBVIOUS
<1>5. c \in OrdersIn(checkpoints) /\ Tail(run.work) \in Seq(OrdersIn(checkpoints))
  BY <1>1, <1>3, <1>4
<1>6. PICK on \in DOMAIN checkpoints : on = run.prefix
  BY <1>2
<1>7. PICK e \in executions(c, on) :
        IF e.error # "none"
        THEN StepReturns("fail", run.current) /\ UNCHANGED checkpoints
        ELSE /\ checkpoints' = apply_with(on, e.mutation)
             /\ run' = [run EXCEPT !.prefix = Len(checkpoints'), !.work = Tail(@)]
  BY <1>4, <1>6 DEF ApplyOrdered
<1>8. CASE e.error # "none"
  <2>1. Moves /\ run.current \in DOMAIN checkpoints' /\ "fail" \in Flows /\ StepReturns("fail", run.current)
    BY <1>2, <1>7, <1>8 DEF Moves, Flows
  <2> QED
    BY <1>1, <1>2, <2>1, Return
<1>9. CASE e.error = "none"
  <2>1. Grows(checkpoints, checkpoints')
    BY <1>2, <1>5, <1>7, <1>9, OrderGrows
  <2>2. Moves
    BY <2>1 DEF Moves
  <2>3. Len(checkpoints') \in DOMAIN checkpoints'
    BY <1>2, <2>1, <2>2, NewIsThere
  <2>4. Tail(run.work) \in Seq(OrdersIn(checkpoints'))
    BY <1>2, <1>5, <2>2, MovesIs
  <2>5. PICK k : k = Len(checkpoints')
    OBVIOUS
  <2>6. run' = [run EXCEPT !.prefix = k, !.work = Tail(@)]
    BY <1>7, <1>9, <2>5
  <2>7. run' = Goes("ordering", k, Tail(run.work))
    BY <1>1, <1>2, <2>6 DEF Goes, RunRecords
  <2> QED
    BY <1>1, <1>2, <2>2, <2>3, <2>4, <2>5, <2>7, GoOn
<1> QED
  BY <1>8, <1>9

\* OrderBy::step ends, or its assertion fails.
LEMMA EndOrderByIsSafe ==
  ASSUME TypeInv, Control(run), EndOrderBy
  PROVE  Safe
<1>1. run.pc = "ordering" /\ UNCHANGED removal /\ checkpoints' = checkpoints /\ Moves
  BY DEF EndOrderBy, vars, Moves
<1>2. /\ AtStep(run) /\ run \in RunRecords /\ run.current \in DOMAIN checkpoints
      /\ run.prefix \in DOMAIN checkpoints /\ run.initial \in DOMAIN checkpoints
  BY <1>1, AtWork DEF TypeInv, AtStep, RunOn
<1>3. CASE StepReturns("ok", run.prefix)
  <2>1. "ok" \in Flows /\ run.prefix \in DOMAIN checkpoints'
    BY <1>1, <1>2 DEF Flows
  <2> QED
    BY <1>1, <1>2, <1>3, <2>1, Return
<1>4. CASE run' = [run EXCEPT !.pc = "panic"]
  <2>1. /\ run' \in RunRecords /\ run'.pc = "panic" /\ run'.current = run.current
        /\ run'.initial = run.initial /\ run'.kind = run.kind /\ run'.steps = run.steps
    BY <1>2, <1>4 DEF RunRecords
  <2>2. run.kind = "one_step" => Len(run.steps) = 1
    BY <1>2 DEF Control, AtStep
  <2>3. RunOn(checkpoints', run') /\ Control(run')
    BY <1>1, <1>2, <2>1, <2>2 DEF RunOn, Control
  <2> QED
    BY <1>1, <2>3 DEF Safe, TypeInv
<1> QED
  BY <1>3, <1>4 DEF EndOrderBy

\* OptimismPrologue::step
LEMMA PrologueIsSafe ==
  ASSUME TypeInv, Control(run), Prologue
  PROVE  Safe
<1>1. UNCHANGED removal /\ checkpoints' = checkpoints /\ Moves
  BY DEF Prologue, vars, Moves
<1>2. AtStep(run) /\ run.current \in DOMAIN checkpoints' /\ "fail" \in Flows
  BY <1>1, AtWork DEF Prologue, Flows
<1>3. CASE StepReturns("fail", run.current)
  BY <1>1, <1>2, <1>3, Return
<1>4. CASE run' = [run EXCEPT !.pc = "prologue", !.prefix = run.current, !.work = Sequencer]
  <2>1. run' = Goes("prologue", run.current, Sequencer)
    BY <1>4 DEF Goes
  <2> QED
    BY <1>1, <1>2, <2>1, SendersAreSenders, GoOn
<1> QED
  BY <1>3, <1>4 DEF Prologue

\* The prologue applies the transactions of the sequencer.
LEMMA ApplySequencerIsSafe ==
  ASSUME TypeInv, Control(run), ApplySequencer
  PROVE  Safe
<1>1. run.pc = "prologue" /\ run.work # << >> /\ UNCHANGED removal
  BY DEF ApplySequencer
<1>2. /\ AtStep(run) /\ run \in RunRecords /\ run.current \in DOMAIN checkpoints
      /\ run.prefix \in DOMAIN checkpoints /\ Sound(checkpoints)
  BY <1>1, AtWork DEF TypeInv, AtStep
<1>3. run.work \in Seq(TxSet)
  BY <1>1, <1>2 DEF TypeInv, RunOn, AtStep
<1>4. PICK tx : tx = Head(run.work)
  OBVIOUS
<1>5. tx \in TxSet /\ Tail(run.work) \in Seq(TxSet)
  BY <1>1, <1>3, <1>4
<1>6. PICK on \in DOMAIN checkpoints : on = run.prefix
  BY <1>2
<1>7. PICK o \in Outcomes : \E e \in {execute_transaction(tx, database(on), o)} :
        IF e.error # "none" THEN StepReturns("fail", run.current) /\ UNCHANGED checkpoints
        ELSE /\ checkpoints' = apply_with(on, e.mutation)
             /\ IF Len(Sequencer) - Len(run.work) + 1 > run.gas_limit
                THEN StepReturns("fail", run.current)
                ELSE run' = [run EXCEPT !.prefix = Len(checkpoints'), !.work = Tail(@)]
  BY <1>4, <1>6 DEF ApplySequencer
<1>8. PICK e : e = execute_transaction(tx, database(on), o)
  OBVIOUS
<1>9. IF e.error # "none" THEN StepReturns("fail", run.current) /\ UNCHANGED checkpoints
      ELSE /\ checkpoints' = apply_with(on, e.mutation)
           /\ \/ StepReturns("fail", run.current)
              \/ run' = [run EXCEPT !.prefix = Len(checkpoints'), !.work = Tail(@)]
  BY <1>7, <1>8
<1>10. e.error = "none" => Grows(checkpoints, checkpoints')
  BY <1>2, <1>5, <1>8, <1>9, TransactionGrows
<1>11. Moves
  BY <1>9, <1>10 DEF Moves
<1>12. CASE StepReturns("fail", run.current)
  <2>1. run.current \in DOMAIN checkpoints' /\ "fail" \in Flows
    BY <1>2, <1>11, MovesIs DEF Flows
  <2> QED
    BY <1>1, <1>2, <1>11, <1>12, <2>1, Return
<1>13. CASE e.error = "none" /\ run' = [run EXCEPT !.prefix = Len(checkpoints'), !.work = Tail(@)]
  <2>1. PICK k : k = Len(checkpoints')
    OBVIOUS
  <2>2. k \in DOMAIN checkpoints'
    BY <1>2, <1>10, <1>11, <1>13, <2>1, NewIsThere
  <2>3. run' = [run EXCEPT !.prefix = k, !.work = Tail(@)]
    BY <1>13, <2>1
  <2>4. run' = Goes("prologue", k, Tail(run.work))
    BY <1>1, <1>2, <2>3 DEF Goes, RunRecords
  <2> QED
    BY <1>1, <1>2, <1>5, <1>11, <2>2, <2>4, GoOn
<1> QED
  BY <1>9, <1>12, <1>13

\* The prologue ends.
LEMMA EndPrologueIsSafe ==
  ASSUME TypeInv, Control(run), EndPrologue
  PROVE  Safe
<1>1. run.pc = "prologue" /\ UNCHANGED removal
  BY DEF EndPrologue
<1>2. AtStep(run) /\ run.prefix \in DOMAIN checkpoints /\ Sound(checkpoints) /\ "ok" \in Flows
  BY <1>1, AtWork DEF TypeInv, Flows
<1>3. CASE checkpoints' = apply_with(run.prefix, Barrier) /\ StepReturns("ok", Len(checkpoints'))
  <2>1. Grows(checkpoints, checkpoints')
    BY <1>2, <1>3, BarrierGrows
  <2>2. Moves
    BY <2>1 DEF Moves
  <2>3. PICK k : k = Len(checkpoints')
    OBVIOUS
  <2>4. k \in DOMAIN checkpoints' /\ StepReturns("ok", k)
    BY <1>2, <1>3, <2>1, <2>2, <2>3, NewIsThere
  <2> QED
    BY <1>1, <1>2, <2>2, <2>4, Return
<1>4. CASE StepReturns("ok", run.prefix) /\ UNCHANGED checkpoints
  <2>1. Moves /\ run.prefix \in DOMAIN checkpoints'
    BY <1>2, <1>4 DEF Moves
  <2> QED
    BY <1>1, <1>2, <1>4, <2>1, Return
<1> QED
  BY <1>3, <1>4 DEF EndPrologue

\* A step that adds one transaction.
LEMMA OneTransactionIsSafe ==
  ASSUME TypeInv, Control(run), AtStep(run), UNCHANGED removal, run.current \in DOMAIN checkpoints,
         NEW tx \in TxSet, NEW o \in Outcomes, NEW e,
         e = execute_transaction(tx, database(run.current), o), e.error = "none",
         checkpoints' = apply_with(run.current, e.mutation), StepReturns("ok", Len(checkpoints'))
  PROVE  Safe
<1>1. Sound(checkpoints) /\ "ok" \in Flows
  BY DEF TypeInv, Flows
<1>2. PICK c \in DOMAIN checkpoints : c = run.current
  OBVIOUS
<1>3. Grows(checkpoints, checkpoints')
  BY <1>1, <1>2, TransactionGrows
<1>4. Moves
  BY <1>3 DEF Moves
<1>5. PICK k : k = Len(checkpoints')
  OBVIOUS
<1>6. k \in DOMAIN checkpoints' /\ StepReturns("ok", k)
  BY <1>1, <1>3, <1>4, <1>5, NewIsThere
<1> QED
  BY <1>1, <1>4, <1>6, Return

\* The epilogue has a transaction that can be signed.
LEMMA BuilderTxType ==
  ASSUME Sound(checkpoints), run.current \in DOMAIN checkpoints
  PROVE  builder_tx \in TxSet
<1>1. PICK c \in DOMAIN checkpoints : c = run.current
  OBVIOUS
<1>2. PICK all : all = ResultsOf(checkpoints, c)
  OBVIOUS
<1>3. Tree(checkpoints) /\ Follows(all, DatabaseOf(checkpoints, c)) /\ all \in Seq(ResultSet)
  BY <1>2 DEF Sound, SoundAt
<1>4. PICK n \in Nat : n = Len(all)
  BY <1>3
<1>5. Builder \in Signers /\ Builder \in Addresses /\ Base[Builder].info \in Nat
  BY SendersAreSenders, SignersAreAccounts, BaseIsState
<1>6. Cardinality(SentBy(all, n, Builder)) \in Nat
  BY <1>4, SentByFinite
<1>7. DatabaseOf(checkpoints, c)[Builder].info \in Nat
  <2>1. DatabaseOf(checkpoints, c)[Builder].info = Base[Builder].info + Cardinality(SentBy(all, n, Builder))
    BY <1>3, <1>4, <1>5 DEF Follows
  <2> QED
    BY <1>5, <1>6, <2>1
<1>8. basic_ref(c, Builder) = DatabaseOf(checkpoints, c)[Builder].info
  <2>1. database(c) = DatabaseOf(checkpoints, c)
    BY <1>3, ReadsAre
  <2>2. database(c)[Builder].info = basic_ref(c, Builder)
    BY <1>5 DEF database
  <2> QED
    BY <2>1, <2>2
<1>9. PICK nonce \in Nat : nonce = basic_ref(run.current, Builder)
  BY <1>1, <1>7, <1>8
<1>10. builder_tx = [signer |-> Builder, nonce |-> nonce, target |-> Builder, write |-> 0]
  BY <1>9 DEF builder_tx, Tx
<1> QED
  BY <1>5, <1>10 DEF TxSet, None

\* BuilderEpilogue::step
LEMMA EpilogueIsSafe ==
  ASSUME TypeInv, Control(run), NEW required \in BOOLEAN, Epilogue(required)
  PROVE  Safe
<1>1. AtStep(run) /\ run.current \in DOMAIN checkpoints /\ Sound(checkpoints) /\ UNCHANGED removal
  BY AtWork DEF Epilogue, TypeInv
<1>2. PICK tx : tx = builder_tx
  OBVIOUS
<1>3. tx \in TxSet
  BY <1>1, <1>2, BuilderTxType
<1>4. PICK o \in Outcomes : \E e \in {execute_transaction(tx, database(run.current), o)} :
        IF e.error # "none"
        THEN /\ StepReturns(IF required THEN "fail" ELSE "ok", run.current)
             /\ UNCHANGED checkpoints
        ELSE /\ checkpoints' = apply_with(run.current, e.mutation)
             /\ StepReturns("ok", Len(checkpoints'))
  BY <1>2 DEF Epilogue
<1>5. PICK e : e = execute_transaction(tx, database(run.current), o)
  OBVIOUS
<1>6. CASE e.error # "none"
  <2>1. PICK flow \in Flows : flow = IF required THEN "fail" ELSE "ok"
    BY DEF Flows
  <2>2. StepReturns(flow, run.current) /\ UNCHANGED checkpoints
    BY <1>4, <1>5, <1>6, <2>1
  <2>3. Moves /\ run.current \in DOMAIN checkpoints'
    BY <1>1, <2>2 DEF Moves
  <2> QED
    BY <1>1, <2>2, <2>3, Return
<1>7. CASE e.error = "none"
  <2>1. checkpoints' = apply_with(run.current, e.mutation) /\ StepReturns("ok", Len(checkpoints'))
    BY <1>4, <1>5, <1>7
  <2> QED
    BY <1>1, <1>3, <1>5, <1>7, <2>1, OneTransactionIsSafe
<1> QED
  BY <1>6, <1>7

\* A score that fails, and AppendOrders::step
LEMMA AppendIsSafe ==
  ASSUME TypeInv, Control(run), ScoreFails \/ AppendNothing \/ \E tx \in Transactions : AppendOrder(tx)
  PROVE  Safe
<1>1. AtStep(run) /\ run.current \in DOMAIN checkpoints /\ Sound(checkpoints)
  BY AtWork DEF ScoreFails, AppendNothing, AppendOrder, TypeInv
<1>2. CASE ScoreFails \/ AppendNothing
  <2>1. PICK flow \in Flows : StepReturns(flow, run.current)
    BY <1>2 DEF ScoreFails, AppendNothing, Flows
  <2>2. checkpoints' = checkpoints /\ UNCHANGED removal
    BY <1>2 DEF ScoreFails, AppendNothing, vars
  <2>3. Moves /\ run.current \in DOMAIN checkpoints'
    BY <1>1, <2>2 DEF Moves
  <2> QED
    BY <1>1, <2>1, <2>2, <2>3, Return
<1>3. ASSUME NEW tx \in Transactions, AppendOrder(tx) PROVE Safe
  <2>1. PICK o \in Outcomes : \E e \in {execute_transaction(tx, database(run.current), o)} :
          /\ e.error = "none"
          /\ checkpoints' = apply_with(run.current, e.mutation)
    BY <1>3 DEF AppendOrder
  <2>2. PICK e : e = execute_transaction(tx, database(run.current), o)
    OBVIOUS
  <2>3. e.error = "none" /\ checkpoints' = apply_with(run.current, e.mutation)
    BY <2>1, <2>2
  <2>4. StepReturns("ok", Len(checkpoints')) /\ UNCHANGED removal
    BY <1>3 DEF AppendOrder
  <2>5. tx \in TxSet
    BY OrdersAreOrders
  <2> QED
    BY <1>1, <2>2, <2>3, <2>4, <2>5, OneTransactionIsSafe
<1> QED
  BY <1>2, <1>3

\* A combinator starts.
LEMMA StartIsSafe ==
  ASSUME TypeInv, NEW comb \in Combinators, NEW limit \in GasLimits, Start(comb, limit)
  PROVE  Safe
<1>1. checkpoints' = checkpoints /\ UNCHANGED removal /\ Moves
  BY DEF Start, vars, Moves
<1>2. PICK k : k = Len(checkpoints)
  OBVIOUS
<1>3. k \in Nat /\ k \in DOMAIN checkpoints
  <2>1. \E n \in Nat : n >= 1 /\ DOMAIN checkpoints = 1..n /\ Len(checkpoints) = n
    BY TreeAt DEF TypeInv, Sound
  <2> QED
    BY <1>2, <2>1
<1>4. run' = [pc |-> "between", kind |-> comb.kind, steps |-> comb.steps,
              initial |-> k, current |-> k, flows |-> << >>,
              gas_limit |-> limit, work |-> << >>, prefix |-> NoCheckpoint]
  BY <1>2 DEF Start
<1>5. /\ comb.kind \in {"atomic", "chain", "one_step"} /\ comb.steps \in Seq(StepNames)
      /\ comb.kind = "one_step" => Len(comb.steps) = 1
  BY CombinatorsHaveSteps
<1>6. << >> \in Seq(Flows) /\ << >> \in Seq(TxSet) /\ NoCheckpoint \in Nat
  BY DEF NoCheckpoint
<1>7. /\ run' \in RunRecords
      /\ run'.pc = "between" /\ run'.kind = comb.kind /\ run'.steps = comb.steps
      /\ run'.flows = << >> /\ run'.current = k /\ run'.initial = k
  BY <1>3, <1>4, <1>5, <1>6 DEF RunRecords
<1>8. RunOn(checkpoints, run')
  BY <1>3, <1>7 DEF RunOn
<1>9. AllOk(run')
  <2>1. Len(comb.steps) \in Nat /\ Len(<< >>) = 0 /\ DOMAIN << >> = {}
    BY <1>5
  <2> QED
    BY <1>7, <2>1 DEF AllOk
<1>10. Control(run')
  BY <1>5, <1>7, <1>9 DEF Control
<1> QED
  BY <1>1, <1>8, <1>10 DEF Safe, TypeInv

\* The fields of what a combinator returns by itself.
LEMMA EndedIs ==
  ASSUME run \in RunRecords, NEW payload \in Nat, NEW pc \in {"ok", "break"}, NEW new, new = returned(pc, payload)
  PROVE  /\ new \in RunRecords
         /\ new.pc = pc /\ new.current = payload /\ new.initial = run.initial
         /\ new.kind = run.kind /\ new.steps = run.steps /\ new.flows = run.flows
<1>1. << >> \in Seq(TxSet) /\ NoCheckpoint \in Nat
  BY DEF NoCheckpoint
<1> QED
  BY <1>1 DEF returned, RunRecords

\* The deadline, and the end of a combinator.
LEMMA EndIsSafe ==
  ASSUME TypeInv, Control(run), DeadlineReached \/ Finish
  PROVE  Safe
<1>1. run.pc = "between" /\ UNCHANGED removal /\ checkpoints' = checkpoints /\ Moves
  BY DEF DeadlineReached, Finish, vars, Moves
<1>2. run # NoRun
  BY <1>1 DEF NoRun
<1>3. /\ run \in RunRecords /\ run.current \in DOMAIN checkpoints /\ run.initial \in DOMAIN checkpoints
      /\ AllOk(run) /\ (run.kind = "one_step" => Len(run.steps) = 1)
  BY <1>1, <1>2 DEF TypeInv, RunOn, Control
<1>4. /\ run.current \in Nat /\ run.initial \in Nat /\ run.flows \in Seq(Flows)
      /\ run.steps \in Seq(StepNames) /\ run.kind \in {"atomic", "chain", "one_step"}
  BY <1>3 DEF RunRecords
<1>5. ASSUME NEW pc \in {"ok", "break"}, NEW p \in {run.current, run.initial}, run' = returned(pc, p),
             run.kind # "one_step", pc = "ok" => AllOrNothingOf(run')
      PROVE  Safe
  <2>1. /\ run' \in RunRecords
        /\ run'.pc = pc /\ run'.current = p /\ run'.initial = run.initial
        /\ run'.kind = run.kind /\ run'.steps = run.steps
    BY <1>3, <1>4, <1>5, EndedIs
  <2>2. RunOn(checkpoints', run') /\ Control(run')
    BY <1>1, <1>3, <1>5, <2>1 DEF RunOn, Control
  <2> QED
    BY <1>1, <2>2 DEF Safe, TypeInv
<1>6. CASE DeadlineReached
  <2>1. run.kind # "one_step"
    BY <1>6 DEF DeadlineReached
  <2>2. CASE run.kind = "atomic"
    <3>1. run' = returned("ok", run.initial)
      BY <1>6, <2>2 DEF DeadlineReached
    <3>2. run'.kind = "atomic" /\ run'.current = run.initial /\ run'.initial = run.initial
      BY <1>3, <1>4, <2>2, <3>1, EndedIs
    <3>3. AllOrNothingOf(run')
      BY <3>2 DEF AllOrNothingOf
    <3> QED
      BY <1>5, <2>1, <3>1, <3>3
  <2>3. CASE run.kind # "atomic"
    <3>1. run' = returned("break", run.current)
      BY <1>6, <2>3 DEF DeadlineReached
    <3> QED
      BY <1>5, <2>1, <3>1
  <2> QED
    BY <2>2, <2>3
<1>7. CASE Finish
  <2>1. run' = returned("ok", run.current) /\ Len(run.flows) = Len(run.steps)
    BY <1>7 DEF Finish
  <2>2. run.kind # "one_step"
    <3>1. run.kind = "one_step" => run.flows = << >> /\ Len(run.steps) = 1
      BY <1>3 DEF AllOk
    <3> QED
      BY <2>1, <3>1, SMTT(30)
  <2>3. run.flows = [i \in DOMAIN run.steps |-> "ok"]
    <3>1. DOMAIN run.flows = DOMAIN run.steps
      BY <1>4, <2>1
    <3>2. \A i \in DOMAIN run.flows : run.flows[i] = "ok"
      BY <1>3 DEF AllOk
    <3>3. run.flows = [i \in DOMAIN run.flows |-> run.flows[i]]
      BY <1>4
    <3> QED
      BY <3>1, <3>2, <3>3
  <2>4. run'.flows = run.flows /\ run'.steps = run.steps
    BY <1>3, <1>4, <2>1, EndedIs
  <2>5. AllOrNothingOf(run')
    BY <2>3, <2>4 DEF AllOrNothingOf
  <2> QED
    BY <1>5, <2>1, <2>2, <2>5
<1> QED
  BY <1>6, <1>7

\* OneStep reports what the step returned.
LEMMA EndOneStepIsSafe ==
  ASSUME TypeInv, Control(run), EndOneStep
  PROVE  Safe
<1>1. run.pc = "recording" /\ UNCHANGED removal /\ checkpoints' = checkpoints /\ Moves
  BY DEF EndOneStep, vars, Moves
<1>2. run # NoRun
  BY <1>1 DEF NoRun
<1>3. /\ run \in RunRecords /\ run.current \in DOMAIN checkpoints /\ run.initial \in DOMAIN checkpoints
      /\ run.kind = "one_step" /\ Len(run.flows) = 1 /\ Len(run.steps) = 1
  BY <1>1, <1>2 DEF TypeInv, RunOn, Control
<1>4. run.flows \in Seq(Flows) /\ run.steps \in Seq(StepNames)
  BY <1>3 DEF RunRecords
<1>5. PICK f \in Flows : f = Head(run.flows) /\ f = run.flows[1]
  BY <1>3, <1>4
<1>6. PICK built \in {"ok", "err"} :
        run' = [run EXCEPT !.pc = reported(RecordOk(f) \cup RecordBreakAndFail(f, built))]
  BY <1>5 DEF EndOneStep
<1>7. PICK pc : pc = reported(RecordOk(f) \cup RecordBreakAndFail(f, built))
  OBVIOUS
<1>8. pc = f \/ (pc = "fail" /\ f = "break")
  <2>1. CASE f = "ok"
    <3>1. "ok" \in RecordOk(f) \cup RecordBreakAndFail(f, built)
      BY <2>1 DEF RecordOk
    <3> QED
      BY <1>7, <2>1, <3>1 DEF reported
  <2>2. CASE f = "break"
    <3>1. RecordOk(f) \cup RecordBreakAndFail(f, built) \in {{"break"}, {"break", "fail"}}
      BY <2>2 DEF RecordOk, RecordBreakAndFail
    <3> QED
      BY <1>7, <2>2, <3>1 DEF reported
  <2>3. CASE f = "fail"
    <3>1. RecordOk(f) \cup RecordBreakAndFail(f, built) = {"fail"}
      BY <2>3 DEF RecordOk, RecordBreakAndFail
    <3> QED
      BY <1>7, <2>3, <3>1 DEF reported
  <2> QED
    BY <2>1, <2>2, <2>3 DEF Flows
<1>9. pc \in Flows
  BY <1>8 DEF Flows
<1>10. /\ run' \in RunRecords
       /\ run'.pc = pc /\ run'.current = run.current /\ run'.initial = run.initial
       /\ run'.kind = run.kind /\ run'.steps = run.steps /\ run'.flows = run.flows
  BY <1>3, <1>6, <1>7, <1>9 DEF RunRecords, Flows
<1>11. f = "ok" => run.flows = [i \in DOMAIN run.steps |-> "ok"]
  <2>1. DOMAIN run.flows = {1} /\ DOMAIN run.steps = {1}
    BY <1>3, <1>4
  <2>2. run.flows = [i \in DOMAIN run.flows |-> run.flows[i]]
    BY <1>4
  <2> QED
    BY <1>5, <2>1, <2>2
<1>12. pc = "ok" => AllOrNothingOf(run')
  BY <1>8, <1>10, <1>11 DEF AllOrNothingOf
<1>13. RunOn(checkpoints', run')
  BY <1>1, <1>3, <1>9, <1>10 DEF RunOn, Flows
<1>14. Control(run')
  BY <1>3, <1>5, <1>8, <1>9, <1>10, <1>12 DEF Control, Flows
<1> QED
  BY <1>1, <1>13, <1>14 DEF Safe, TypeInv

(***************************************************************************)
(* RemoveRevertedTransactions::step                                        *)
(***************************************************************************)

\* The history of an ancestor is the beginning of that of its descendant.
LEMMA EarlierHistory ==
  ASSUME NEW P, Tree(P), NEW c \in DOMAIN P, NEW h, h = HistoryOf(P, c), NEW k \in DOMAIN h,
         NEW e, e = h[k]
  PROVE  HistoryOf(P, e) = [i \in 1..k |-> h[i]]
<1>1. PICK l \in Nat : DOMAIN P = 1..l /\ \A x \in 1..l : P[x].depth \in Nat
  BY TreeAt
<1>2. PICK d \in Nat : d = P[c].depth
  BY <1>1
<1>3. PICK f : f = Path(P, c)
  OBVIOUS
<1>4. h = [i \in 1..(d + 1) |-> f[d + 1 - i]]
  BY <1>2, <1>3 DEF HistoryOf
<1>5. k \in 1..(d + 1) /\ e \in DOMAIN P /\ P[e].depth = k - 1
  <2>1. DOMAIN h = 1..(d + 1)
    BY <1>4
  <2>2. \A i \in DOMAIN h : h[i] \in DOMAIN P /\ P[h[i]].depth = i - 1
    BY HistoryLeads
  <2> QED
    BY <2>1, <2>2
<1>6. WayBack(P, c, d, f)
  BY <1>2, <1>3, PathIs
<1>7. \A n \in 0..d : f[n] = IF n = 0 THEN c ELSE P[f[n - 1]].prev
  BY <1>6 DEF WayBack
<1>8. PICK j \in Nat : j = d + 1 - k /\ j \in 0..d /\ k - 1 \in Nat /\ d - j = k - 1
  BY <1>2, <1>5
<1>9. e = f[j]
  BY <1>4, <1>5, <1>8
<1>10. PICK g : g = [n \in 0..(k - 1) |-> f[j + n]]
  OBVIOUS
<1>11. \A n \in 0..(k - 1) : j + n \in 0..d /\ (n # 0 => j + n # 0 /\ j + n - 1 = j + (n - 1) /\ n - 1 \in 0..(k - 1))
  BY <1>2, <1>5, <1>8
<1>12. ASSUME NEW n \in 0..(k - 1) PROVE g[n] = IF n = 0 THEN e ELSE P[g[n - 1]].prev
  <2>1. CASE n = 0
    <3>1. j + 0 = j
      BY <1>8
    <3> QED
      BY <1>9, <1>10, <2>1, <3>1
  <2>2. CASE n # 0
    <3>1. g[n] = f[j + n] /\ g[n - 1] = f[j + (n - 1)]
      BY <1>10, <1>11, <2>2
    <3>2. f[j + n] = P[f[j + n - 1]].prev
      BY <1>7, <1>11, <2>2
    <3> QED
      BY <1>11, <2>2, <3>1, <3>2
  <2> QED
    BY <2>1, <2>2
<1>13. WayBack(P, e, k - 1, g)
  <2>1. g = [n \in 0..(k - 1) |-> g[n]]
    BY <1>10
  <2> QED
    BY <1>12, <2>1 DEF WayBack
<1>14. g = Path(P, e)
  BY <1>5, <1>8, <1>13, PathIs
<1>15. HistoryOf(P, e) = [i \in 1..k |-> g[k - i]]
  <2>1. k - 1 + 1 = k
    BY <1>5
  <2> QED
    BY <1>5, <1>14, <2>1 DEF HistoryOf
<1>16. ASSUME NEW i \in 1..k PROVE g[k - i] = h[i]
  <2>1. k - i \in 0..(k - 1) /\ i \in 1..(d + 1) /\ j + (k - i) = d + 1 - i
    BY <1>2, <1>5, <1>8
  <2> QED
    BY <1>4, <1>10, <2>1
<1> QED
  BY <1>15, <1>16

\* What is sealed is the history up to the last barrier.
LEMMA SealedIs ==
  ASSUME NEW P, Tree(P), NEW c \in DOMAIN P, NEW h, h = HistoryOf(P, c),
         NEW b, b = LastBarrier(P, h)
  PROVE  SealedOf(P, c) = [i \in 1..b |-> h[i]]
<1>1. PICK n \in Nat : n = Len(h) /\ h \in Seq(DOMAIN P) /\ DOMAIN h = 1..n
  <2>1. h \in Seq(DOMAIN P)
    BY HistoryLeads
  <2> QED
    BY <2>1
<1>2. b \in 1..n
  BY <1>1, LastBarrierIs
<1>3. SealedOf(P, c) = SubSeq(h, 1, b)
  BY DEF SealedOf
<1> QED
  BY <1>1, <1>2, <1>3

\* The second payload is the first one up to its last barrier, and has no other after it.
SameUpTo(h, b, Q, g) ==
  /\ Len(g) \in Nat
  /\ b <= Len(g)
  /\ \A i \in 1..b : g[i] = h[i]
  /\ BarrierAt(Q, g[b])
  /\ \A i \in 1..Len(g) : i > b => ~BarrierAt(Q, g[i])

\* Then it has the same sealed history.
LEMMA SameSealed ==
  ASSUME NEW P, Tree(P), NEW c \in DOMAIN P, NEW h, h = HistoryOf(P, c),
         NEW b, b = LastBarrier(P, h),
         NEW Q, Tree(Q), NEW e \in DOMAIN Q, NEW g, g = HistoryOf(Q, e),
         SameUpTo(h, b, Q, g)
  PROVE  LastBarrier(Q, g) = b /\ SealedOf(Q, e) = SealedOf(P, c)
<1>0. PICK n \in Nat : /\ n = Len(g) /\ b <= n /\ BarrierAt(Q, g[b])
                       /\ \A i \in 1..b : g[i] = h[i]
                       /\ \A i \in 1..n : i > b => ~BarrierAt(Q, g[i])
  BY DEF SameUpTo
<1>1. b \in Nat /\ b >= 1
  <2>1. h \in Seq(DOMAIN P)
    BY HistoryLeads
  <2>2. b \in 1..Len(h)
    BY LastBarrierIs
  <2> QED
    BY <2>1, <2>2
<1>2. PICK x : x = LastBarrier(Q, g)
  OBVIOUS
<1>3. /\ x \in 1..n
      /\ BarrierAt(Q, g[x])
      /\ \A i \in 1..n : i > x => ~BarrierAt(Q, g[i])
  BY <1>0, <1>2, LastBarrierIs
<1>4. b \in 1..n
  BY <1>0, <1>1
<1>5. ~(x > b) /\ ~(b > x)
  BY <1>0, <1>3, <1>4
<1>6. x = b
  BY <1>1, <1>3, <1>5
<1>7. SealedOf(Q, e) = [i \in 1..b |-> g[i]] /\ SealedOf(P, c) = [i \in 1..b |-> h[i]]
  <2>1. SealedOf(Q, e) = [i \in 1..x |-> g[i]]
    BY <1>2, SealedIs
  <2>2. SealedOf(P, c) = [i \in 1..b |-> h[i]]
    BY SealedIs
  <2> QED
    BY <1>6, <2>1, <2>2
<1>8. [i \in 1..b |-> g[i]] = [i \in 1..b |-> h[i]]
  BY <1>0
<1> QED
  BY <1>2, <1>6, <1>7, <1>8

\* Nothing in the staging history can be removed.
CleanFrom(P, h, b) == \A i \in 1..Len(h) : i >= b => ~FailuresAt(P, h[i])

Clean(P, c) == CleanFrom(P, HistoryOf(P, c), LastBarrier(P, HistoryOf(P, c)))

\* What is sealed stays, and so does what has been cleaned, when checkpoints are made.
LEMMA SpansStay ==
  ASSUME NEW P, Tree(P), NEW c \in DOMAIN P, NEW m \in Mutations, NEW Q, Q = Built(P, c, m),
         NEW e \in DOMAIN P
  PROVE  SealedOf(Q, e) = SealedOf(P, e) /\ (Clean(P, e) => Clean(Q, e))
<1>1. /\ Tree(Q)
      /\ \A x \in DOMAIN P : x \in DOMAIN Q /\ Q[x] = P[x]
  BY BuiltIs
<1>2. PICK h : h = HistoryOf(P, e)
  OBVIOUS
<1>3. h = HistoryOf(Q, e)
  BY <1>2, HistoryBuilt
<1>4. PICK n \in Nat : n = Len(h) /\ \A i \in 1..n : h[i] \in DOMAIN P
  <2>1. h \in Seq(DOMAIN P)
    BY <1>2, HistoryLeads
  <2> QED
    BY <2>1
<1>5. PICK b : b = LastBarrier(P, h)
  OBVIOUS
<1>6. /\ b \in 1..n
      /\ BarrierAt(P, h[b])
      /\ \A i \in 1..n : i > b => ~BarrierAt(P, h[i])
  BY <1>2, <1>4, <1>5, LastBarrierIs
<1>7. \A i \in 1..n : /\ BarrierAt(Q, h[i]) <=> BarrierAt(P, h[i])
                      /\ FailuresAt(Q, h[i]) <=> FailuresAt(P, h[i])
  BY <1>1, <1>4 DEF BarrierAt, FailuresAt
<1>8. SameUpTo(h, b, Q, h)
  BY <1>4, <1>6, <1>7 DEF SameUpTo
<1>9. LastBarrier(Q, h) = b /\ SealedOf(Q, e) = SealedOf(P, e)
  <2>1. Tree(Q) /\ e \in DOMAIN Q
    BY <1>1
  <2>2. PICK g : g = HistoryOf(Q, e)
    OBVIOUS
  <2>3. SameUpTo(h, b, Q, g)
    BY <1>3, <1>8, <2>2
  <2>4. LastBarrier(Q, g) = b /\ SealedOf(Q, e) = SealedOf(P, e)
    BY <1>2, <1>5, <2>1, <2>2, <2>3, SameSealed
  <2> QED
    BY <1>3, <2>2, <2>4
<1>10. CleanFrom(P, h, b) => CleanFrom(Q, h, b)
  BY <1>4, <1>7 DEF CleanFrom
<1> QED
  BY <1>2, <1>3, <1>5, <1>9, <1>10 DEF Clean

\* An order that is added changes nothing that is sealed; it is clean if it has no failure.
LEMMA SpansBuilt ==
  ASSUME NEW P, Tree(P), NEW c \in DOMAIN P, NEW m \in Mutations, m.kind # "barrier",
         NEW Q, Q = Built(P, c, m), NEW new, new = Len(P) + 1
  PROVE  SealedOf(Q, new) = SealedOf(P, c) /\ (Clean(P, c) /\ removable(m) = {} => Clean(Q, new))
<1>1. /\ Tree(Q)
      /\ new \in DOMAIN Q
      /\ \A x \in DOMAIN P : x \in DOMAIN Q /\ Q[x] = P[x]
      /\ Q[new].mutation = m
  <2>1. /\ Tree(Q)
        /\ Len(P) \in Nat
        /\ DOMAIN Q = 1..(Len(P) + 1)
        /\ \A x \in DOMAIN P : x \in DOMAIN Q /\ Q[x] = P[x]
        /\ Q[Len(P) + 1].mutation = m
    BY BuiltIs
  <2> QED
    BY <2>1
<1>2. PICK h : h = HistoryOf(P, c)
  OBVIOUS
<1>3. PICK g : g = Append(h, new)
  OBVIOUS
<1>4. g = HistoryOf(Q, new)
  BY <1>2, <1>3, HistoryBuilt
<1>5. PICK n \in Nat : n = Len(h) /\ h \in Seq(DOMAIN P) /\ \A i \in 1..n : h[i] \in DOMAIN P
  <2>1. h \in Seq(DOMAIN P)
    BY <1>2, HistoryLeads
  <2> QED
    BY <2>1
<1>6. Len(g) = n + 1 /\ g[n + 1] = new /\ \A i \in 1..n : g[i] = h[i]
  BY <1>3, <1>5
<1>7. PICK b : b = LastBarrier(P, h)
  OBVIOUS
<1>8. /\ b \in 1..n
      /\ BarrierAt(P, h[b])
      /\ \A i \in 1..n : i > b => ~BarrierAt(P, h[i])
  BY <1>2, <1>5, <1>7, LastBarrierIs
<1>9. \A i \in 1..n : /\ BarrierAt(Q, g[i]) <=> BarrierAt(P, h[i])
                      /\ FailuresAt(Q, g[i]) <=> FailuresAt(P, h[i])
  BY <1>1, <1>5, <1>6 DEF BarrierAt, FailuresAt
<1>10. ~BarrierAt(Q, g[n + 1]) /\ (removable(m) = {} => ~FailuresAt(Q, g[n + 1]))
  BY <1>1, <1>6 DEF BarrierAt, FailuresAt
<1>11. \A i \in 1..(n + 1) : i \in 1..n \/ i = n + 1
  BY <1>5
<1>12. /\ n + 1 \in Nat /\ b <= n + 1 /\ b \in 1..n
       /\ \A i \in 1..b : i \in 1..n
  BY <1>5, <1>8
<1>13. SameUpTo(h, b, Q, g)
  <2>1. /\ BarrierAt(Q, g[b])
        /\ \A i \in 1..(n + 1) : i > b => ~BarrierAt(Q, g[i])
        /\ \A i \in 1..b : g[i] = h[i]
    BY <1>6, <1>8, <1>9, <1>10, <1>11, <1>12
  <2> QED
    BY <1>6, <1>12, <2>1 DEF SameUpTo
<1>14. LastBarrier(Q, g) = b /\ SealedOf(Q, new) = SealedOf(P, c)
  BY <1>1, <1>2, <1>4, <1>7, <1>13, SameSealed
<1>15. CleanFrom(P, h, b) /\ removable(m) = {} => CleanFrom(Q, g, b)
  BY <1>5, <1>6, <1>9, <1>10, <1>11 DEF CleanFrom
<1> QED
  BY <1>2, <1>4, <1>7, <1>14, <1>15 DEF Clean

\* What is before the first failure is clean, and nothing that is sealed is behind it.
LEMMA SpansBegin ==
  ASSUME NEW P, Tree(P), NEW c \in DOMAIN P, NEW s, s = StagingOf(P, c), NEW first \in 2..Len(s),
         \A i \in 1..(first - 1) : ~FailuresAt(P, s[i]), NEW e, e = s[first - 1]
  PROVE  SealedOf(P, e) = SealedOf(P, c) /\ Clean(P, e)
<1>1. PICK h : h = HistoryOf(P, c)
  OBVIOUS
<1>2. PICK b : b = LastBarrier(P, h)
  OBVIOUS
<1>3. PICK n \in Nat : n = Len(h) /\ h \in Seq(DOMAIN P) /\ DOMAIN h = 1..n /\ \A i \in 1..n : h[i] \in DOMAIN P
  <2>1. h \in Seq(DOMAIN P)
    BY <1>1, HistoryLeads
  <2> QED
    BY <2>1
<1>4. /\ b \in 1..n
      /\ BarrierAt(P, h[b])
      /\ \A i \in 1..n : i > b => ~BarrierAt(P, h[i])
  BY <1>1, <1>2, <1>3, LastBarrierIs
<1>5. /\ Len(s) = n - b + 1
      /\ \A i \in 1..Len(s) : s[i] = h[b - 1 + i]
  <2>1. s = SubSeq(h, b, n)
    BY <1>1, <1>2, <1>3 DEF StagingOf
  <2>2. \A i \in 1..(n - b + 1) : b - 1 + i \in b..n /\ b + i - 1 = b - 1 + i
    BY <1>3, <1>4
  <2>3. Len(s) = n - b + 1 /\ \A i \in 1..(n - b + 1) : s[i] = h[b - 1 + i]
    BY <1>3, <1>4, <2>1, <2>2
  <2> QED
    BY <2>3
<1>6. PICK k \in Nat : k = b - 1 + (first - 1) /\ k \in b..n /\ k \in 1..n /\ first - 1 \in 1..Len(s)
  BY <1>3, <1>4, <1>5
<1>7. e = h[k] /\ k \in DOMAIN h /\ e \in DOMAIN P
  BY <1>3, <1>5, <1>6
<1>8. PICK g : g = [i \in 1..k |-> h[i]]
  OBVIOUS
<1>9. g = HistoryOf(P, e)
  BY <1>1, <1>7, <1>8, EarlierHistory
<1>10. Len(g) = k /\ \A i \in 1..k : g[i] = h[i] /\ i \in 1..n
  <2>1. \A i \in 1..k : i \in 1..n
    BY <1>3, <1>6
  <2>2. g \in [1..k -> DOMAIN P]
    BY <1>3, <1>8, <2>1
  <2>3. Len(g) = k
    BY <1>6, <2>2
  <2> QED
    BY <1>8, <2>1, <2>3
<1>11. b <= k /\ b \in 1..k /\ \A i \in 1..b : i \in 1..k
  BY <1>3, <1>4, <1>6
<1>12. SameUpTo(h, b, P, g)
  <2>1. /\ \A i \in 1..b : g[i] = h[i]
        /\ BarrierAt(P, g[b])
        /\ \A i \in 1..k : i > b => ~BarrierAt(P, g[i])
    BY <1>4, <1>10, <1>11
  <2> QED
    BY <1>6, <1>10, <1>11, <2>1 DEF SameUpTo
<1>13. LastBarrier(P, g) = b /\ SealedOf(P, e) = SealedOf(P, c)
  BY <1>1, <1>2, <1>7, <1>9, <1>12, SameSealed
<1>14. ASSUME NEW i \in 1..k, i >= b PROVE ~FailuresAt(P, g[i])
  <2>1. PICK j \in Nat : j = i - b + 1 /\ j \in 1..(first - 1) /\ j \in 1..Len(s) /\ b - 1 + j = i
    BY <1>3, <1>4, <1>5, <1>6, <1>14
  <2>2. s[j] = h[i]
    BY <1>5, <2>1
  <2> QED
    BY <1>10, <2>1, <2>2
<1>15. CleanFrom(P, g, b)
  BY <1>10, <1>14 DEF CleanFrom
<1> QED
  BY <1>9, <1>13, <1>15 DEF Clean

\* While the step is at work, and when it has ended.
Kept(P, r) ==
  r.pc # "idle" => SealedOf(P, r.prefix) = SealedOf(P, r.from) /\ Clean(P, r.prefix)

\* Checkpoints that others make do not disturb it.
LEMMA KeptStays ==
  ASSUME Sound(checkpoints), Moves, NEW r, RemovalOn(checkpoints, r), Kept(checkpoints, r)
  PROVE  Kept(checkpoints', r)
<1>1. PICK Q : Q = checkpoints'
  OBVIOUS
<1>2. ASSUME Grows(checkpoints, Q), r.pc # "idle"
      PROVE  SealedOf(Q, r.prefix) = SealedOf(Q, r.from) /\ Clean(Q, r.prefix)
  <2>1. PICK c \in DOMAIN checkpoints :
          \E m : Made(m, ResultsOf(checkpoints, c), DatabaseOf(checkpoints, c)) /\ Q = Built(checkpoints, c, m)
    BY <1>2 DEF Grows
  <2>2. PICK m : Made(m, ResultsOf(checkpoints, c), DatabaseOf(checkpoints, c)) /\ Q = Built(checkpoints, c, m)
    BY <2>1
  <2>3. m \in Mutations /\ Tree(checkpoints)
    BY <2>2 DEF Made, Sound
  <2>4. r.prefix \in DOMAIN checkpoints /\ r.from \in DOMAIN checkpoints
    BY <1>2 DEF RemovalOn
  <2>5. \A e \in DOMAIN checkpoints :
          SealedOf(Q, e) = SealedOf(checkpoints, e) /\ (Clean(checkpoints, e) => Clean(Q, e))
    BY <2>2, <2>3, SpansStay
  <2> QED
    BY <1>2, <2>4, <2>5 DEF Kept
<1>3. CASE Grows(checkpoints, Q)
  BY <1>1, <1>2, <1>3 DEF Kept
<1>4. CASE Q = checkpoints
  BY <1>1, <1>4
<1> QED
  BY <1>1, <1>3, <1>4 DEF Moves

\* Steps of the removal keep what is sealed, and add nothing that failed.
LEMMA RemovalKeeps ==
  ASSUME TypeInv, Kept(checkpoints, removal), Next
  PROVE  Kept(checkpoints', removal')
<1>1. Sound(checkpoints) /\ RemovalOn(checkpoints, removal) /\ Tree(checkpoints)
  BY DEF TypeInv, Sound
<1>2. CASE removal.pc = "idle" /\ UNCHANGED removal
  BY <1>2 DEF Kept
<1>3. ASSUME NEW c \in DOMAIN checkpoints, BeginRemoval(c)
      PROVE  Kept(checkpoints', removal')
  <2>1. PICK s, first : Begins(c, s, first)
    BY <1>3, BeginRemovalIs
  <2>2. PICK e : e = s[first - 1]
    OBVIOUS
  <2>3. /\ s = StagingOf(checkpoints, c) /\ first \in 2..Len(s)
        /\ \A i \in 1..(first - 1) : ~FailuresAt(checkpoints, s[i])
    BY <2>1 DEF Begins
  <2>4. SealedOf(checkpoints, e) = SealedOf(checkpoints, c) /\ Clean(checkpoints, e)
    BY <1>1, <2>2, <2>3, SpansBegin
  <2>5. removal'.from = c /\ removal'.prefix = e /\ checkpoints' = checkpoints
    BY <2>1, <2>2 DEF Begins
  <2> QED
    BY <2>4, <2>5 DEF Kept
<1>4. ASSUME Reapply PROVE Kept(checkpoints', removal')
  <2>1. /\ removal \in RemovalSet /\ removal.prefix \in DOMAIN checkpoints
        /\ removal.from \in DOMAIN checkpoints /\ removal.pc = "running"
    BY <1>1, <1>4 DEF RemovalOn, Reapply
  <2>2. /\ SealedOf(checkpoints, removal.prefix) = SealedOf(checkpoints, removal.from)
        /\ Clean(checkpoints, removal.prefix)
    BY <2>1 DEF Kept
  <2>3. CASE Stays
    <3>1. PICK q \in Seq(Mutations) : removal' = [removal EXCEPT !.remaining = q]
      BY <2>3 DEF Stays
    <3>2. removal'.prefix = removal.prefix /\ removal'.from = removal.from /\ checkpoints' = checkpoints
      BY <2>1, <2>3, <3>1 DEF RemovalSet, Stays
    <3> QED
      BY <2>2, <3>2 DEF Kept
  <2>4. CASE \E m : Extension(m)
    <3>1. PICK m : Extension(m)
      BY <2>4
    <3>2. PICK Q : Q = checkpoints'
      OBVIOUS
    <3>3. PICK c \in DOMAIN checkpoints : c = removal.prefix
      BY <2>1
    <3>4. PICK new : new = Len(checkpoints) + 1
      OBVIOUS
    <3>5. /\ m \in Mutations /\ m.kind # "barrier" /\ removable(m) = {}
          /\ Q = Built(checkpoints, c, m)
      BY <3>1, <3>2, <3>3 DEF Extension, Made
    <3>6. SealedOf(Q, new) = SealedOf(checkpoints, c) /\ Clean(Q, new)
      <4>1. SealedOf(Q, new) = SealedOf(checkpoints, c)
            /\ (Clean(checkpoints, c) /\ removable(m) = {} => Clean(Q, new))
        BY <1>1, <3>4, <3>5, SpansBuilt
      <4> QED
        BY <2>2, <3>3, <3>5, <4>1
    <3>7. SealedOf(Q, removal.from) = SealedOf(checkpoints, removal.from)
      BY <1>1, <2>1, <3>5, SpansStay
    <3>8. Len(Q) = new
      BY <1>1, <3>4, <3>5, BuiltIs
    <3>9. removal' = [removal EXCEPT !.prefix = new, !.remaining = Tail(@)]
      BY <3>1, <3>2, <3>8 DEF Extension
    <3>10. removal'.prefix = new /\ removal'.from = removal.from
      BY <2>1, <3>9 DEF RemovalSet
    <3> QED
      BY <2>2, <3>2, <3>3, <3>6, <3>7, <3>10 DEF Kept
  <2> QED
    BY <1>4, <2>3, <2>4, ReapplyIs
<1>5. ASSUME EndRemoval PROVE Kept(checkpoints', removal')
  <2>1. removal' = [removal EXCEPT !.pc = "done"] /\ checkpoints' = checkpoints /\ removal.pc = "running"
    BY <1>5 DEF EndRemoval
  <2>2. removal'.prefix = removal.prefix /\ removal'.from = removal.from
    BY <1>1, <2>1 DEF RemovalOn, RemovalSet
  <2> QED
    BY <2>1, <2>2 DEF Kept
<1>6. ASSUME NEW c \in DOMAIN checkpoints, NEW tx \in Transactions, NEW outcome \in Outcomes,
             ApplyTransaction(c, tx, outcome)
      PROVE  removal.pc = "idle" /\ UNCHANGED removal
  BY <1>6 DEF ApplyTransaction, Apply, Building
<1>7. ASSUME NEW c \in DOMAIN checkpoints, NEW b \in Bundles, NEW outcomes \in BundleOutcomes(b),
             ApplyBundle(c, b, outcomes)
      PROVE  removal.pc = "idle" /\ UNCHANGED removal
  BY <1>7 DEF ApplyBundle, Apply, Building
<1>8. ASSUME NEW c \in DOMAIN checkpoints, MakeBarrier(c)
      PROVE  removal.pc = "idle" /\ UNCHANGED removal
  BY <1>8 DEF MakeBarrier, Building
<1> QED
  BY <1>2, <1>3, <1>4, <1>5, <1>6, <1>7, <1>8 DEF Next

(***************************************************************************)
(* The inductive invariant                                                 *)
(***************************************************************************)

IInv == TypeInv /\ Control(run) /\ Kept(checkpoints, removal)

\* Every step, whoever takes it.
LEMMA EveryStep ==
  ASSUME IInv, StepsNext
  PROVE  Safe /\ Kept(checkpoints', removal')
<1>1. TypeInv /\ Control(run) /\ Kept(checkpoints, removal) /\ Sound(checkpoints)
      /\ RemovalOn(checkpoints, removal) /\ RunOn(checkpoints, run)
  BY DEF IInv, TypeInv
<1>2. ASSUME Safe, UNCHANGED removal PROVE Kept(checkpoints', removal')
  <2>1. Kept(checkpoints', removal)
    BY <1>1, <1>2, KeptStays DEF Safe
  <2> QED
    BY <1>2, <2>1
<1>3. ASSUME Next, UNCHANGED run PROVE Safe /\ Kept(checkpoints', removal')
  <2>1. Moves /\ RemovalOn(checkpoints', removal')
    BY <1>1, <1>3, CheckpointStep
  <2>2. RunOn(checkpoints', run)
    BY <1>1, <2>1, MovesIs
  <2>3. Kept(checkpoints', removal')
    BY <1>1, <1>3, RemovalKeeps
  <2> QED
    BY <1>1, <1>3, <2>1, <2>2, <2>3 DEF Safe
<1>4. ASSUME NEW c \in Combinators, NEW limit \in GasLimits, Start(c, limit) PROVE Safe /\ UNCHANGED removal
  BY <1>1, <1>4, StartIsSafe DEF Start, vars
<1>5. CASE DeadlineReached \/ Finish
  <2>1. Safe
    BY <1>1, <1>5, EndIsSafe
  <2> QED
    BY <1>2, <1>5, <2>1 DEF DeadlineReached, Finish, vars
<1>6. CASE EndOneStep
  <2>1. Safe
    BY <1>1, <1>6, EndOneStepIsSafe
  <2> QED
    BY <1>2, <1>6, <2>1 DEF EndOneStep, vars
<1>7. CASE OrderBy
  <2>1. Safe
    BY <1>1, <1>7, OrderByIsSafe
  <2> QED
    BY <1>2, <1>7, <2>1 DEF OrderBy, vars
<1>8. CASE ApplyOrdered
  <2>1. Safe
    BY <1>1, <1>8, ApplyOrderedIsSafe
  <2> QED
    BY <1>2, <1>8, <2>1 DEF ApplyOrdered
<1>9. CASE EndOrderBy
  <2>1. Safe
    BY <1>1, <1>9, EndOrderByIsSafe
  <2> QED
    BY <1>2, <1>9, <2>1 DEF EndOrderBy, vars
<1>10. CASE Prologue
  <2>1. Safe
    BY <1>1, <1>10, PrologueIsSafe
  <2> QED
    BY <1>2, <1>10, <2>1 DEF Prologue, vars
<1>11. CASE ApplySequencer
  <2>1. Safe
    BY <1>1, <1>11, ApplySequencerIsSafe
  <2> QED
    BY <1>2, <1>11, <2>1 DEF ApplySequencer
<1>12. CASE EndPrologue
  <2>1. Safe
    BY <1>1, <1>12, EndPrologueIsSafe
  <2> QED
    BY <1>2, <1>12, <2>1 DEF EndPrologue
<1>13. ASSUME NEW required \in BOOLEAN, Epilogue(required) PROVE Safe /\ UNCHANGED removal
  BY <1>1, <1>13, EpilogueIsSafe DEF Epilogue
<1>14. CASE ScoreFails \/ AppendNothing \/ \E tx \in Transactions : AppendOrder(tx)
  <2>1. Safe
    BY <1>1, <1>14, AppendIsSafe
  <2> QED
    BY <1>2, <1>14, <2>1 DEF ScoreFails, AppendNothing, AppendOrder, vars
<1> QED
  BY <1>2, <1>3, <1>4, <1>5, <1>6, <1>7, <1>8, <1>9, <1>10, <1>11, <1>12, <1>13, <1>14 DEF StepsNext

\* Payloads, the removal of failures and combinators always are what they should be:
\* every checkpoint of every payload is sound (its state follows from all that was
\* executed up to it), whatever is applied, removed, ordered or taken back.
THEOREM Invariance == StepsSpec => []IInv
<1>1. StepsInit => IInv
  <2> SUFFICES ASSUME StepsInit PROVE IInv
    OBVIOUS
  <2>1. Sound(checkpoints)
    BY FirstIsSound DEF StepsInit, Init
  <2>2. removal = NoRemoval /\ run = NoRun
    BY DEF StepsInit, Init
  <2>3. removal \in RemovalSet /\ removal.pc = "idle"
    <3>1. << >> \in Seq(Mutations)
      OBVIOUS
    <3> QED
      BY <2>2, <3>1 DEF NoRemoval, RemovalSet, NoCheckpoint
  <2> QED
    BY <2>1, <2>2, <2>3 DEF IInv, TypeInv, RemovalOn, RunOn, Control, Kept
<1>2. IInv /\ [StepsNext]_stepVars => IInv'
  <2>1. ASSUME IInv, StepsNext PROVE IInv'
    <3>1. Safe /\ Kept(checkpoints', removal')
      BY <2>1, EveryStep
    <3>2. Sound(checkpoints')
      BY <2>1, <3>1, MovesIs DEF IInv, TypeInv, Safe
    <3> QED
      BY <3>1, <3>2 DEF IInv, TypeInv, Safe
  <2>2. ASSUME IInv, UNCHANGED stepVars PROVE IInv'
    BY <2>2 DEF IInv, TypeInv, stepVars, vars
  <2> QED
    BY <2>1, <2>2
<1> QED
  BY <1>1, <1>2, PTL DEF StepsSpec

(***************************************************************************)
(* What follows for checkpoints                                            *)
(***************************************************************************)

\* Checkpoint::basic_ref and storage_ref, which look for the newest change, find what
\* executing the whole history one transaction after the other gives, for every account
\* that nothing in the history destroys, in all payloads of any size.
THEOREM LookupsCorrect == StepsSpec => []LookupsAreTheState
<1>1. IInv => LookupsAreTheState
  <2> SUFFICES ASSUME IInv, NEW c \in DOMAIN checkpoints, NEW a \in Addresses,
                      \A r \in ToSet(executed(c)) :
                        r.tx.target = a /\ r.outcome = "Success" => r.tx.write # None
               PROVE  database(c)[a] = replayed(c)[a]
    BY DEF LookupsAreTheState
  <2>1. Sound(checkpoints) /\ Tree(checkpoints)
    BY DEF IInv, TypeInv, Sound
  <2>2. PICK all : all = executed(c)
    OBVIOUS
  <2>3. all = ResultsOf(checkpoints, c) /\ database(c) = DatabaseOf(checkpoints, c)
    BY <2>1, <2>2, ReadsAre
  <2>4. Follows(all, database(c))
    BY <2>1, <2>3 DEF Sound, SoundAt
  <2>5. Undestroyed(all, a)
    BY <2>2 DEF Undestroyed, Spares, ToSet
  <2>6. database(c)[a] = Replay(all)[a]
    BY <2>4, <2>5 DEF Follows
  <2>7. replayed(c) = Replay(executed(c))
    BY Zenon DEF replayed, Replay
  <2> QED
    BY <2>2, <2>6, <2>7
<1> QED
  BY <1>1, Invariance, PTL

\* Executable::execute_bundle: what is in a payload of a bundle that was sent is in its
\* order, without optional transactions only, and what failed was allowed to.
THEOREM BundlesCorrect == StepsSpec => []BundleRules
<1>1. IInv => BundleRules
  <2> SUFFICES ASSUME IInv PROVE BundleRules
    OBVIOUS
  <2>1. Sound(checkpoints)
    BY DEF IInv, TypeInv
  <2>2. ASSUME NEW c \in DOMAIN checkpoints, NEW m, m = checkpoints[c].mutation, m.kind = "bundle"
        PROVE  /\ LeftOf(m.executable, m.source)
               /\ \A r \in ToSet(m.results) : r.outcome = "Success" \/ is_allowed_to_fail(m.executable, r.tx)
    BY <2>1, <2>2 DEF Sound, SoundAt, RulesOf, ToSet
  <2> QED
    BY <2>2 DEF BundleRules, is_bundle, LeftOf
<1> QED
  BY <1>1, Invariance, PTL

\* RemoveRevertedTransactions leaves nothing that failed and could be removed.
THEOREM FailuresRemoved == StepsSpec => []RevertsAreRemoved
<1>1. IInv => RevertsAreRemoved
  <2> SUFFICES ASSUME IInv, removal.pc = "done", NEW e \in ToSet(history_staging(removal.prefix))
               PROVE  ~has_failures(e)
    BY DEF RevertsAreRemoved
  <2>1. Tree(checkpoints) /\ removal.prefix \in DOMAIN checkpoints /\ Clean(checkpoints, removal.prefix)
    BY DEF IInv, TypeInv, Sound, RemovalOn, Kept
  <2>2. PICK c \in DOMAIN checkpoints : c = removal.prefix
    BY <2>1
  <2>3. PICK s : s = StagingOf(checkpoints, c)
    OBVIOUS
  <2>4. PICK h : h = HistoryOf(checkpoints, c)
    OBVIOUS
  <2>5. PICK b : b = LastBarrier(checkpoints, h)
    OBVIOUS
  <2>6. s = history_staging(removal.prefix)
    BY <2>1, <2>2, <2>3, SpansAre
  <2>7. PICK n \in Nat : n = Len(h) /\ h \in Seq(DOMAIN checkpoints)
    <3>1. h \in Seq(DOMAIN checkpoints)
      BY <2>1, <2>4, HistoryLeads
    <3> QED
      BY <3>1
  <2>8. b \in 1..n
    BY <2>1, <2>4, <2>5, <2>7, LastBarrierIs
  <2>9. s = SubSeq(h, b, n)
    BY <2>3, <2>4, <2>5, <2>7 DEF StagingOf
  <2>10. PICK i \in b..n : e = h[i]
    <3>1. PICK k \in DOMAIN s : e = s[k]
      BY <2>6 DEF ToSet
    <3>2. \A j \in 1..(n - b + 1) : b + j - 1 \in b..n
      BY <2>7, <2>8
    <3>3. Len(s) = n - b + 1 /\ DOMAIN s = 1..(n - b + 1) /\ \A j \in 1..(n - b + 1) : s[j] = h[b + j - 1]
      BY <2>7, <2>8, <2>9
    <3> QED
      BY <3>1, <3>2, <3>3
  <2>11. CleanFrom(checkpoints, h, b)
    BY <2>1, <2>2, <2>4, <2>5 DEF Clean
  <2>12. i \in 1..n /\ i >= b
    BY <2>7, <2>8, <2>10
  <2>13. ~FailuresAt(checkpoints, h[i])
    BY <2>7, <2>11, <2>12 DEF CleanFrom
  <2> QED
    BY <2>10, <2>13 DEF has_failures, FailuresAt
<1> QED
  BY <1>1, Invariance, PTL

\* And it never touches what was sealed before it began.
THEOREM SealedKept == StepsSpec => []SealedHistoryIsKept
<1>1. IInv => SealedHistoryIsKept
  <2> SUFFICES ASSUME IInv, removal.pc # "idle"
               PROVE  history_sealed(removal.prefix) = history_sealed(removal.from)
    BY DEF SealedHistoryIsKept
  <2>1. /\ Tree(checkpoints) /\ removal.prefix \in DOMAIN checkpoints /\ removal.from \in DOMAIN checkpoints
        /\ SealedOf(checkpoints, removal.prefix) = SealedOf(checkpoints, removal.from)
    BY DEF IInv, TypeInv, Sound, RemovalOn, Kept
  <2>2. \A c \in DOMAIN checkpoints : history_sealed(c) = SealedOf(checkpoints, c)
    BY <2>1, SpansAre
  <2> QED
    BY <2>1, <2>2
<1> QED
  BY <1>1, Invariance, PTL

(***************************************************************************)
(* What follows for combinators                                            *)
(***************************************************************************)

\* Atomic returns Ok with all of its steps done or with the payload it was given, and
\* Chain only after all of its steps, whatever they return and whenever the deadline is.
THEOREM CombinatorsCorrect == StepsSpec => []AllOrNothing
<1>1. IInv => AllOrNothing
  <2> SUFFICES ASSUME IInv, run.pc = "ok" PROVE AllOrNothingOf(run)
    BY DEF AllOrNothing, AllOrNothingOf
  <2>1. run # NoRun
    BY DEF NoRun
  <2> QED
    BY <2>1 DEF IInv, Control
<1> QED
  BY <1>1, Invariance, PTL

\* OneStep reports to the test what the step returned.
THEOREM OneStepCorrect == StepsSpec => []OneStepReportsTheStep
<1>1. IInv => OneStepReportsTheStep
  <2> SUFFICES ASSUME IInv, Running, run.kind = "one_step", run.pc \in {"ok", "break", "fail", "none"}
               PROVE  run.pc = Head(run.flows) \/ (run.pc = "fail" /\ Head(run.flows) = "break")
    BY DEF OneStepReportsTheStep
  <2>1. run # NoRun
    BY DEF NoRun
  <2> QED
    BY <2>1 DEF IInv, Control
<1> QED
  BY <1>1, Invariance, PTL

(***************************************************************************)
(* What follows for payloads                                               *)
(***************************************************************************)

\* The transactions that results are for.
SentIn(all) == [i \in DOMAIN all |-> all[i].tx]

\* Putting sequences of results in a row puts their transactions in a row.
LEMMA FlattenSent ==
  ASSUME NEW n \in Nat, NEW q \in [1..n -> Seq(ResultSet)], NEW p,
         p = [i \in 1..n |-> SentIn(q[i])]
  PROVE  FlattenSeq(q) \in Seq(ResultSet) /\ FlattenSeq(p) = SentIn(FlattenSeq(q))
<1> DEFINE qs(k) == [i \in 1..k |-> q[i]]
           ps(k) == [i \in 1..k |-> p[i]]
           T == {k \in Nat : k <= n => /\ FlattenSeq(qs(k)) \in Seq(ResultSet)
                                      /\ FlattenSeq(ps(k)) = SentIn(FlattenSeq(qs(k)))}
<1>1. \A s \in Seq(ResultSet) : SentIn(s) \in Seq(TxSet) /\ Len(SentIn(s)) = Len(s)
  <2> SUFFICES ASSUME NEW s \in Seq(ResultSet) PROVE SentIn(s) \in Seq(TxSet) /\ Len(SentIn(s)) = Len(s)
    OBVIOUS
  <2>1. PICK l \in Nat : l = Len(s) /\ DOMAIN s = 1..l /\ \A i \in 1..l : s[i] \in ResultSet
    OBVIOUS
  <2>2. \A i \in 1..l : s[i].tx \in TxSet
    BY <2>1 DEF ResultSet
  <2>3. PICK w : w = SentIn(s)
    OBVIOUS
  <2>4. w \in [1..l -> TxSet]
    BY <2>1, <2>2, <2>3 DEF SentIn
  <2>5. w \in Seq(TxSet) /\ Len(w) = l
    BY <2>4
  <2> QED
    BY <2>1, <2>3, <2>5
<1>2. \A k \in Nat : k <= n => qs(k) \in Seq(Seq(ResultSet)) /\ ps(k) \in Seq(Seq(TxSet))
  <2> SUFFICES ASSUME NEW k \in Nat, k <= n PROVE qs(k) \in Seq(Seq(ResultSet)) /\ ps(k) \in Seq(Seq(TxSet))
    OBVIOUS
  <2>1. \A i \in 1..k : i \in 1..n
    OBVIOUS
  <2>2. qs(k) \in [1..k -> Seq(ResultSet)]
    BY <2>1
  <2>3. ps(k) \in [1..k -> Seq(TxSet)]
    BY <1>1, <2>1
  <2> HIDE DEF qs, ps
  <2>4. qs(k) \in Seq(Seq(ResultSet))
    BY <2>2
  <2>5. ps(k) \in Seq(Seq(TxSet))
    BY <2>3
  <2> QED
    BY <2>4, <2>5
<1>3. 0 \in T
  <2>1. qs(0) = << >> /\ ps(0) = << >>
    OBVIOUS
  <2>2. FlattenSeq(<< >>) = << >>
    <3>1. << >> \in Seq(Seq({})) /\ << >> \in Seq({})
      OBVIOUS
    <3>2. FlattenSeq(<< >>) \in Seq({})
      BY <3>1, FlattenAppend
    <3> QED
      BY <3>2
  <2>3. SentIn(<< >>) = << >> /\ << >> \in Seq(ResultSet)
    BY DEF SentIn
  <2> QED
    BY <2>1, <2>2, <2>3
<1>4. ASSUME NEW k \in T PROVE k + 1 \in T
  <2> SUFFICES ASSUME k + 1 <= n
               PROVE  /\ FlattenSeq(qs(k + 1)) \in Seq(ResultSet)
                      /\ FlattenSeq(ps(k + 1)) = SentIn(FlattenSeq(qs(k + 1)))
    OBVIOUS
  <2>1. k \in Nat /\ k <= n /\ k + 1 \in 1..n
    OBVIOUS
  <2>2. PICK x : x = q[k + 1]
    OBVIOUS
  <2>3. x \in Seq(ResultSet) /\ p[k + 1] = SentIn(x) /\ SentIn(x) \in Seq(TxSet)
    BY <1>1, <2>1, <2>2
  <2>4. qs(k + 1) = Append(qs(k), x) /\ ps(k + 1) = Append(ps(k), SentIn(x))
    <3>1. \A i \in 1..(k + 1) : i \in 1..k \/ i = k + 1
      BY <2>1
    <3>2. Len(qs(k)) = k /\ Len(ps(k)) = k
      BY <1>2, <2>1
    <3>3. qs(k + 1) = Append(qs(k), x)
      BY <1>2, <2>1, <2>2, <3>1, <3>2
    <3>4. ps(k + 1) = Append(ps(k), SentIn(x))
      BY <1>2, <2>1, <2>3, <3>1, <3>2
    <3> QED
      BY <3>3, <3>4
  <2>5. qs(k) \in Seq(Seq(ResultSet)) /\ ps(k) \in Seq(Seq(TxSet))
    BY <1>2, <2>1
  <2>6. /\ FlattenSeq(qs(k)) \in Seq(ResultSet)
        /\ FlattenSeq(ps(k)) = SentIn(FlattenSeq(qs(k)))
    BY <2>1
  <2> HIDE DEF qs, ps, T
  <2>7. FlattenSeq(Append(qs(k), x)) = FlattenSeq(qs(k)) \o x
    BY <2>3, <2>5, FlattenAppend
  <2>8. FlattenSeq(Append(ps(k), SentIn(x))) = FlattenSeq(ps(k)) \o SentIn(x)
    BY <2>3, <2>5, FlattenAppend
  <2>9. PICK u : u = FlattenSeq(qs(k))
    OBVIOUS
  <2>10. u \in Seq(ResultSet) /\ SentIn(u) \in Seq(TxSet) /\ Len(SentIn(u)) = Len(u) /\ Len(SentIn(x)) = Len(x)
    BY <1>1, <2>3, <2>6, <2>9
  <2>11. SentIn(u) \o SentIn(x) = SentIn(u \o x)
    <3>1. PICK l \in Nat : l = Len(u)
      BY <2>10
    <3>2. PICK r \in Nat : r = Len(x)
      BY <2>3
    <3>3. PICK w : w = u \o x
      OBVIOUS
    <3>4. DOMAIN w = 1..(l + r) /\ \A i \in 1..(l + r) : w[i] = IF i <= l THEN u[i] ELSE x[i - l]
      BY <2>3, <2>10, <3>1, <3>2, <3>3
    <3>5. PICK v : v = SentIn(u) \o SentIn(x)
      OBVIOUS
    <3>6. DOMAIN v = 1..(l + r) /\ v = [i \in 1..(l + r) |-> v[i]]
          /\ \A i \in 1..(l + r) : v[i] = IF i <= l THEN SentIn(u)[i] ELSE SentIn(x)[i - l]
      <4>1. PICK su \in Seq(TxSet) : su = SentIn(u) /\ Len(su) = l
        BY <2>10, <3>1
      <4>2. PICK sx \in Seq(TxSet) : sx = SentIn(x) /\ Len(sx) = r
        BY <2>3, <2>10, <3>2
      <4>3. v = su \o sx
        BY <3>5, <4>1, <4>2
      <4>4. /\ su \o sx \in Seq(TxSet)
            /\ Len(su \o sx) = Len(su) + Len(sx)
            /\ \A i \in 1 .. Len(su) + Len(sx) : (su \o sx)[i] =
                        IF i <= Len(su) THEN su[i] ELSE sx[i - Len(su)]
        BY ConcatProperties
      <4>5. Len(su) = l /\ Len(sx) = r
        BY <4>1, <4>2
      <4>6. v \in Seq(TxSet) /\ Len(v) = l + r
        BY <4>3, <4>4, <4>5
      <4>7. v \in Seq(TxSet) /\ DOMAIN v = 1..(l + r)
        BY <4>6
      <4>8. \A i \in 1..(l + r) : v[i] = IF i <= l THEN su[i] ELSE sx[i - l]
        BY <4>3, <4>4, <4>5
      <4>9. v = [i \in 1..(l + r) |-> v[i]]
        BY <4>7
      <4> QED
        BY <4>1, <4>2, <4>7, <4>8, <4>9
    <3>7. DOMAIN u = 1..l /\ DOMAIN x = 1..r
      BY <2>3, <2>10, <3>1, <3>2
    <3>8. \A i \in 1..(l + r) : IF i <= l THEN i \in DOMAIN u ELSE i - l \in DOMAIN x
      BY <3>1, <3>2, <3>7
    <3>9. \A i \in 1..(l + r) : v[i] = w[i].tx
      BY <3>4, <3>6, <3>8 DEF SentIn
    <3>10. SentIn(w) = [i \in 1..(l + r) |-> w[i].tx]
      BY <3>4 DEF SentIn
    <3> QED
      BY <3>3, <3>5, <3>6, <3>9, <3>10
  <2>12. u \o x \in Seq(ResultSet)
    BY <2>3, <2>10
  <2> QED
    BY <2>4, <2>6, <2>7, <2>8, <2>9, <2>11, <2>12
<1>5. T \in SUBSET Nat
  OBVIOUS
<1>6. n \in T
  <2> HIDE DEF T
  <2> QED
    BY <1>3, <1>4, <1>5, NatSetInduction
<1>7. qs(n) = q /\ ps(n) = p
  OBVIOUS
<1>8. FlattenSeq(qs(n)) \in Seq(ResultSet) /\ FlattenSeq(ps(n)) = SentIn(FlattenSeq(qs(n)))
  <2> HIDE DEF qs, ps
  <2> QED
    BY <1>6
<1> HIDE DEF qs, ps, T
<1> QED
  BY <1>7, <1>8

\* Each transaction of a payload has its own result.
LEMMA PayloadAligned ==
  ASSUME Sound(checkpoints), NEW c \in DOMAIN checkpoints, OnceIn(c)
  PROVE  /\ payload_transactions(c) = SentIn(executed(c))
         /\ executed(c) \in Seq(ResultSet)
<1>1. Tree(checkpoints)
  BY DEF Sound
<1>2. PICK h : h = HistoryOf(checkpoints, c)
  OBVIOUS
<1>3. h = history(c)
  BY <1>1, <1>2, ReadsAre
<1>4. PICK n \in Nat : DOMAIN h = 1..n /\ \A i \in 1..n : h[i] \in DOMAIN checkpoints
  <2>1. h \in Seq(DOMAIN checkpoints)
    BY <1>1, <1>2, HistoryLeads
  <2> QED
    BY <2>1
<1>5. PICK q : q = [i \in 1..n |-> checkpoints[h[i]].mutation.results]
  OBVIOUS
<1>6. PICK p : p = [i \in 1..n |-> transactions(h[i])]
  OBVIOUS
<1>7. ASSUME NEW e \in DOMAIN checkpoints, e \in ToSet(h)
      PROVE  /\ checkpoints[e].mutation.results \in Seq(ResultSet)
             /\ transactions(e) = SentIn(checkpoints[e].mutation.results)
  <2>1. checkpoints[e].mutation \in Mutations
    BY <1>1, TreeAt
  <2>2. checkpoints[e].mutation.results \in Seq(ResultSet)
    BY <2>1, MutationParts
  <2>3. AlignedIn(checkpoints[e].mutation)
    <3>1. Clear(checkpoints[e].mutation)
      BY <1>3, <1>7 DEF OnceIn, is_bundle, Clear
    <3> QED
      BY <3>1 DEF Sound, SoundAt
  <2>4. transactions(e) = TxsOf(checkpoints[e].mutation)
    BY DEF transactions, TxsOf
  <2> QED
    BY <2>2, <2>3, <2>4 DEF AlignedIn, SentIn
<1>8. q \in [1..n -> Seq(ResultSet)] /\ \A i \in 1..n : p[i] = SentIn(q[i])
  <2>1. \A i \in 1..n : h[i] \in ToSet(h)
    BY <1>4 DEF ToSet
  <2> QED
    BY <1>4, <1>5, <1>6, <1>7, <2>1
<1>9. p = [i \in 1..n |-> SentIn(q[i])]
  BY <1>6, <1>8
<1>10. FlattenSeq(q) \in Seq(ResultSet) /\ FlattenSeq(p) = SentIn(FlattenSeq(q))
  BY <1>8, <1>9, FlattenSent
<1>11. executed(c) = FlattenSeq(q)
  BY <1>3, <1>4, <1>5 DEF executed
<1>12. payload_transactions(c) = FlattenSeq(p)
  BY <1>3, <1>4, <1>6 DEF payload_transactions
<1> QED
  BY <1>10, <1>11, <1>12

\* Along every history all transactions have the nonce that their signer has then.
NoncesAreNext == \A c \in DOMAIN checkpoints : NoncesFollow(executed(c))

\* Whatever is discarded, removed, ordered or taken back, what was executed could be
\* executed in this order on the parent block.
THEOREM NoncesCorrect == StepsSpec => []NoncesAreNext
<1>1. IInv => NoncesAreNext
  <2> SUFFICES ASSUME IInv, NEW c \in DOMAIN checkpoints PROVE NoncesFollow(executed(c))
    BY DEF NoncesAreNext
  <2>1. Sound(checkpoints) /\ Tree(checkpoints)
    BY DEF IInv, TypeInv, Sound
  <2>2. executed(c) = ResultsOf(checkpoints, c)
    BY <2>1, ReadsAre
  <2> QED
    BY <2>1, <2>2 DEF Sound, SoundAt, Follows
<1> QED
  BY <1>1, Invariance, PTL

\* Checkpoints are always valid block payloads: all nonces follow, and each transaction has
\* its own result in every payload that has no bundle with an optional transaction twice.
THEOREM PayloadsCorrect == StepsSpec => []PayloadsAreValid
<1>1. IInv => PayloadsAreValid
  <2> SUFFICES ASSUME IInv, NEW c \in DOMAIN checkpoints, NEW all, all = executed(c), NEW h, h = history(c)
               PROVE  /\ \A i \in DOMAIN all :
                           all[i].tx.nonce = Base[all[i].tx.signer].info
                               + Cardinality({j \in 1..(i - 1) : all[j].tx.signer = all[i].tx.signer})
                      /\ OnceIn(c) => FlattenSeq([i \in DOMAIN h |-> transactions(h[i])])
                                        = [i \in DOMAIN all |-> all[i].tx]
    BY DEF PayloadsAreValid
  <2>1. Sound(checkpoints) /\ Tree(checkpoints)
    BY DEF IInv, TypeInv, Sound
  <2>2. OnceIn(c) => payload_transactions(c) = SentIn(executed(c))
    BY <2>1, PayloadAligned
  <2>3. executed(c) = ResultsOf(checkpoints, c)
    BY <2>1, ReadsAre
  <2>4. NoncesFollow(all)
    BY <2>1, <2>3 DEF Sound, SoundAt, Follows
  <2>5. \A i \in DOMAIN all :
          all[i].tx.nonce = Base[all[i].tx.signer].info
              + Cardinality({j \in 1..(i - 1) : all[j].tx.signer = all[i].tx.signer})
    BY <2>4 DEF NoncesFollow, SentBy
  <2>6. OnceIn(c) => FlattenSeq([i \in DOMAIN h |-> transactions(h[i])]) = [i \in DOMAIN all |-> all[i].tx]
    BY <2>2 DEF payload_transactions, SentIn
  <2> QED
    BY <2>5, <2>6
<1> QED
  BY <1>1, Invariance, PTL

(***************************************************************************)
(* Blocks                                                                  *)
(***************************************************************************)

OptimismBlock(base, txs) == FoldLeft(optimism_step, base, txs)

\* The payload builder takes one transaction after the other.
LEMMA OptimismFold ==
  ASSUME NEW sq, NEW base, NEW n \in Nat, DOMAIN sq = 1..n
  PROVE  \E g : /\ g[0] = base
                /\ \A k \in 1..n : g[k] = optimism_step(g[k - 1], sq[k])
                /\ g[n] = OptimismBlock(base, sq)
<1> DEFINE p == << >>
           seq == sq
           Eq(it) == it = [s \in SUBSET (1..n) |-> IF s = {} THEN base
                             ELSE optimism_step(it[s \ {Max(s)}], seq[Max(s)])]
           itself == CHOOSE it : Eq(it)
<1>1. \A it : Folds("optimism", p, base, seq, n, it) <=> Eq(it)
  BY DEF Folds, FoldStep
<1>2. \E it : Eq(it)
  BY <1>1, FoldExists
<1>3. Eq(itself)
  BY <1>2
<1>4. OptimismBlock(base, sq) = itself[1..n]
  BY DEF OptimismBlock, FoldLeft, MapThenFoldSet
<1> HIDE DEF itself, seq, p
<1>5. Folds("optimism", p, base, seq, n, itself)
  BY <1>1, <1>3
<1>6. PICK g : Trace("optimism", p, base, seq, n, g) /\ g[n] = itself[1..n]
  BY <1>5, FoldTrace
<1>7. \A k \in 1..n : g[k] = optimism_step(g[k - 1], sq[k])
  BY <1>6 DEF Trace, FoldStep, p, seq
<1> QED
  BY <1>4, <1>6, <1>7 DEF Trace

BlockSet == [nonces : [Addresses -> Int], txs : Seq(TxSet)]

\* The block after the first k transactions of a payload.
Offered(all, k, b) ==
  /\ b \in BlockSet
  /\ b.txs = [i \in 1..k |-> all[i].tx]
  /\ \A a \in Signers : b.nonces[a] = Base[a].info + Cardinality(SentBy(all, k, a))

\* Nothing has been offered.
LEMMA NothingOffered ==
  ASSUME NEW all
  PROVE  Offered(all, 0, NoBlock)
<1>1. NoBlock.txs = << >> /\ \A a \in Addresses : NoBlock.nonces[a] = Base[a].info
  BY DEF NoBlock
<1>2. \A a \in Addresses : Base[a].info \in Int /\ Base[a].info \in Nat
  BY BaseIsState
<1>3. NoBlock \in BlockSet
  <2>1. << >> \in Seq(TxSet)
    OBVIOUS
  <2> QED
    BY <1>2, <2>1 DEF NoBlock, BlockSet
<1>4. \A a : Cardinality(SentBy(all, 0, a)) = 0
  <2>1. \A a : SentBy(all, 0, a) = {}
    BY DEF SentBy
  <2> QED
    BY <2>1, FS_EmptySet
<1>5. \A a \in Signers : NoBlock.nonces[a] = Base[a].info + 0
  BY <1>1, <1>2, SignersAreAccounts
<1>6. NoBlock.txs = [i \in 1..0 |-> all[i].tx]
  BY <1>1
<1> QED
  BY <1>3, <1>4, <1>5, <1>6 DEF Offered

\* One more transaction of a signer.
LEMMA SentByNext ==
  ASSUME NEW all, NEW k \in Nat, NEW a
  PROVE  Cardinality(SentBy(all, k + 1, a)) =
           Cardinality(SentBy(all, k, a)) + IF all[k + 1].tx.signer = a THEN 1 ELSE 0
<1>1. k + 1 \in 1..(k + 1) /\ k + 1 \notin 1..k
  OBVIOUS
<1>2. \A j : j \in 1..(k + 1) <=> j \in 1..k \/ j = k + 1
  OBVIOUS
<1>3. SentBy(all, k + 1, a) = SentBy(all, k, a) \cup (IF all[k + 1].tx.signer = a THEN {k + 1} ELSE {})
  BY <1>1, <1>2 DEF SentBy
<1>4. k + 1 \notin SentBy(all, k, a)
  BY <1>1 DEF SentBy
<1>5. IsFiniteSet(SentBy(all, k, a)) /\ Cardinality(SentBy(all, k, a)) \in Nat
  BY SentByFinite
<1>6. CASE all[k + 1].tx.signer = a
  <2>1. Cardinality(SentBy(all, k, a) \cup {k + 1}) = Cardinality(SentBy(all, k, a)) + 1
    BY <1>4, <1>5, FS_AddElement
  <2> QED
    BY <1>3, <1>6, <2>1
<1>7. CASE all[k + 1].tx.signer # a
  <2>1. SentBy(all, k + 1, a) = SentBy(all, k, a)
    BY <1>3, <1>7
  <2> QED
    BY <1>5, <1>7, <2>1
<1> QED
  BY <1>6, <1>7

\* The next transaction has the nonce of its signer, so that the builder includes it.
LEMMA OfferNext ==
  ASSUME NEW all \in Seq(ResultSet), NoncesFollow(all), NEW k \in Nat, k + 1 \in DOMAIN all,
         NEW b, Offered(all, k, b), NEW tx, tx = all[k + 1].tx, NEW new, new = include(b, tx)
  PROVE  optimism_step(b, tx) = new /\ Offered(all, k + 1, new)
<1>1. /\ tx \in TxSet /\ tx.signer \in Signers /\ tx.nonce \in Nat
  <2>1. all[k + 1] \in ResultSet
    OBVIOUS
  <2> QED
    BY <2>1 DEF ResultSet, TxSet
<1>2. tx.signer \in Addresses
  BY <1>1, SignersAreAccounts
<1>3. k + 1 - 1 = k
  OBVIOUS
<1>4. tx.nonce = Base[tx.signer].info + Cardinality(SentBy(all, k, tx.signer))
  BY <1>3 DEF NoncesFollow
<1>5. tx.nonce = b.nonces[tx.signer]
  BY <1>1, <1>4 DEF Offered
<1>6. b \in BlockSet
  BY DEF Offered
<1>8. optimism_step(b, tx) = new
  BY <1>5 DEF optimism_step
<1>9. PICK more : more = Append(b.txs, tx)
  OBVIOUS
<1>10. b.txs \in Seq(TxSet) /\ b.txs = [i \in 1..k |-> all[i].tx]
  BY DEF Offered, BlockSet
<1>11. more \in Seq(TxSet)
  BY <1>1, <1>9, <1>10
<1>12. PICK nn : nn = [b.nonces EXCEPT ![tx.signer] = tx.nonce + 1]
  OBVIOUS
<1>13. /\ nn \in [Addresses -> Int]
       /\ \A a \in Addresses : nn[a] = IF a = tx.signer THEN tx.nonce + 1 ELSE b.nonces[a]
  <2>1. tx.nonce + 1 \in Int /\ b.nonces \in [Addresses -> Int]
    BY <1>1, <1>6 DEF BlockSet
  <2> QED
    BY <1>12, <2>1
<1>17. new = [b EXCEPT !.nonces = nn, !.txs = more]
  BY <1>6, <1>9, <1>12 DEF include, BlockSet
<1>18. new.nonces = nn
  BY <1>6, <1>17 DEF BlockSet
<1>14. /\ new \in BlockSet
       /\ new.txs = more
       /\ \A a \in Addresses : new.nonces[a] = IF a = tx.signer THEN tx.nonce + 1 ELSE b.nonces[a]
  <2>1. new \in BlockSet
    BY <1>6, <1>11, <1>13, <1>17 DEF BlockSet
  <2>2. new.txs = more
    BY <1>6, <1>17 DEF BlockSet
  <2> QED
    BY <1>13, <1>18, <2>1, <2>2
<1>15. more = [i \in 1..(k + 1) |-> all[i].tx]
  <2>1. Len(b.txs) = k
    BY <1>10
  <2>2. DOMAIN more = 1..(k + 1) /\ more[k + 1] = tx /\ \A i \in 1..k : more[i] = b.txs[i]
    BY <1>1, <1>9, <1>10, <2>1
  <2>3. \A i \in 1..(k + 1) : i \in 1..k \/ i = k + 1
    OBVIOUS
  <2>4. \A i \in 1..(k + 1) : more[i] = all[i].tx
    BY <1>10, <2>2, <2>3
  <2>5. more = [i \in 1..(k + 1) |-> more[i]]
    BY <1>11, <2>2
  <2> QED
    BY <2>4, <2>5
<1>16. ASSUME NEW a \in Signers
       PROVE  new.nonces[a] = Base[a].info + Cardinality(SentBy(all, k + 1, a))
  <2>1. Cardinality(SentBy(all, k + 1, a)) =
          Cardinality(SentBy(all, k, a)) + IF all[k + 1].tx.signer = a THEN 1 ELSE 0
    BY SentByNext
  <2>2. b.nonces[a] = Base[a].info + Cardinality(SentBy(all, k, a))
    BY DEF Offered
  <2>3. a \in Addresses /\ Base[a].info \in Nat /\ Cardinality(SentBy(all, k, a)) \in Nat
    BY SentByFinite, SignersAreAccounts, BaseIsState
  <2>4. CASE a = tx.signer
    BY <1>5, <1>14, <2>1, <2>2, <2>3, <2>4
  <2>5. CASE a # tx.signer
    BY <1>14, <2>1, <2>2, <2>3, <2>5
  <2> QED
    BY <2>4, <2>5
<1> QED
  BY <1>8, <1>14, <1>15, <1>16 DEF Offered

\* A payload whose nonces follow is a block.
LEMMA BlockIs ==
  ASSUME NEW all \in Seq(ResultSet), NoncesFollow(all), NEW txs, txs = SentIn(all)
  PROVE  OptimismBlock(NoBlock, txs).txs = txs
<1>1. PICK n \in Nat : n = Len(all) /\ DOMAIN all = 1..n
  OBVIOUS
<1>2. DOMAIN txs = 1..n /\ (\A k \in 1..n : txs[k] = all[k].tx) /\ txs = [k \in 1..n |-> all[k].tx]
  BY <1>1 DEF SentIn
<1>3. PICK base : base = NoBlock
  OBVIOUS
<1>4. PICK g : /\ g[0] = base
               /\ \A k \in 1..n : g[k] = optimism_step(g[k - 1], txs[k])
               /\ g[n] = OptimismBlock(base, txs)
  BY <1>2, OptimismFold
<1> DEFINE T == {k \in Nat : k <= n => Offered(all, k, g[k])}
<1>5. 0 \in T
  BY <1>3, <1>4, NothingOffered
<1>6. ASSUME NEW k \in T PROVE k + 1 \in T
  <2> SUFFICES ASSUME k + 1 <= n PROVE Offered(all, k + 1, g[k + 1])
    OBVIOUS
  <2>1. k \in Nat /\ k <= n /\ k + 1 \in 1..n /\ (k + 1) - 1 = k
    BY <1>1
  <2>2. Offered(all, k, g[k])
    BY <2>1
  <2> HIDE DEF T
  <2>3. PICK tx : tx = all[k + 1].tx
    OBVIOUS
  <2>4. g[k + 1] = optimism_step(g[k], tx) /\ k + 1 \in DOMAIN all
    BY <1>1, <1>2, <1>4, <2>1, <2>3
  <2>5. PICK b : b = g[k]
    OBVIOUS
  <2>6. optimism_step(b, tx) = include(b, tx) /\ Offered(all, k + 1, include(b, tx))
    BY <2>1, <2>2, <2>3, <2>4, <2>5, OfferNext
  <2> QED
    BY <2>4, <2>5, <2>6
<1>7. T \in SUBSET Nat
  OBVIOUS
<1>8. n \in T
  <2> HIDE DEF T
  <2> QED
    BY <1>5, <1>6, <1>7, NatSetInduction
<1>9. Offered(all, n, g[n])
  BY <1>8
<1> QED
  BY <1>2, <1>3, <1>4, <1>9 DEF Offered

(***************************************************************************)
(* Payloads of a rollup                                                    *)
(***************************************************************************)

\* The transactions that some checkpoints bring into a payload.
Brought(P, h) == FlattenSeq([i \in DOMAIN h |-> TxsOf(P[h[i]].mutation)])

FirstOf(h, k) == [i \in 1..k |-> h[i]]

\* The transactions of a mutation.
LEMMA TxsOfType ==
  ASSUME NEW m \in Mutations
  PROVE  TxsOf(m) \in Seq(TxSet) /\ (m.kind = "barrier" => TxsOf(m) = << >>)
<1>1. CASE m.kind = "barrier"
  <2>1. TxsOf(m) = << >>
    BY <1>1 DEF TxsOf
  <2> QED
    BY <2>1
<1>2. CASE m.kind = "transaction"
  <2>1. m \in Executed("transaction", TxSet)
    BY <1>2, KindOf
  <2>2. m.source \in TxSet
    BY <2>1 DEF Executed
  <2>3. TxsOf(m) = <<m.source>>
    BY <1>2 DEF TxsOf
  <2> QED
    BY <1>2, <2>2, <2>3
<1>3. CASE m.kind = "bundle"
  <2>1. m \in Executed("bundle", BundleSet)
    BY <1>3, KindOf
  <2>2. m.source \in BundleSet
    BY <2>1 DEF Executed
  <2>3. m.source.txs \in Seq(TxSet)
    BY <2>2 DEF BundleSet
  <2>4. TxsOf(m) = m.source.txs
    BY <1>3 DEF TxsOf
  <2> QED
    BY <1>3, <2>3, <2>4
<1> QED
  BY <1>1, <1>2, <1>3, KindOf

\* One more checkpoint brings its transactions.
Brings(P, h, k) ==
  /\ TxsOf(P[h[k + 1]].mutation) \in Seq(TxSet)
  /\ Brought(P, FirstOf(h, k)) \in Seq(TxSet)
  /\ Brought(P, FirstOf(h, k + 1)) = Brought(P, FirstOf(h, k)) \o TxsOf(P[h[k + 1]].mutation)

InTree(P, h, n) == \A i \in 1..n : h[i] \in DOMAIN P

\* A sequence that has one more element.
LEMMA OneLonger ==
  ASSUME NEW S, NEW r \in Seq(S), NEW x \in S, NEW q \in Seq(S), Len(q) = Len(r) + 1,
         q[Len(r) + 1] = x, \A i \in 1..Len(r) : q[i] = r[i]
  PROVE  q = Append(r, x)
<1>1. PICK a : a = Append(r, x)
  OBVIOUS
<1>2. a \in Seq(S)
  BY <1>1, AppendProperties
<1>3. Len(a) = Len(r) + 1
  BY <1>1, AppendProperties
<1>4. \A i \in 1..Len(r) : a[i] = r[i]
  BY <1>1, AppendProperties
<1>5. a[Len(r) + 1] = x
  BY <1>1, AppendProperties
<1>6. PICK k \in Nat : k = Len(r)
  OBVIOUS
<1>7. \A i \in 1..(k + 1) : i \in 1..k \/ i = k + 1
  OBVIOUS
<1>8. \A i \in 1..(k + 1) : a[i] = q[i]
  BY <1>4, <1>5, <1>6, <1>7
<1> QED
  BY <1>1, <1>2, <1>3, <1>6, <1>8

\* One more checkpoint brings its transactions behind all others.
LEMMA BroughtNext ==
  ASSUME NEW P, Tree(P), NEW h, NEW k \in Nat, InTree(P, h, k + 1)
  PROVE  Brings(P, h, k)
<1>0. PICK x : x = TxsOf(P[h[k + 1]].mutation)
  OBVIOUS
<1>1. PICK l \in Nat : DOMAIN P = 1..l /\ \A e \in 1..l : P[e].mutation \in Mutations
  BY TreeAt
<1>2. \A i \in 1..(k + 1) : TxsOf(P[h[i]].mutation) \in Seq(TxSet)
  BY <1>1, TxsOfType DEF InTree
<1>3. k + 1 \in 1..(k + 1) /\ \A i \in 1..(k + 1) : i \in 1..k \/ i = k + 1
  OBVIOUS
<1>4. \A i \in 1..k : i \in 1..(k + 1)
  OBVIOUS
<1>5. PICK rs : rs = [i \in 1..k |-> TxsOf(P[h[i]].mutation)]
  OBVIOUS
<1>6. PICK qs : qs = [i \in 1..(k + 1) |-> TxsOf(P[h[i]].mutation)]
  OBVIOUS
<1>7. rs \in Seq(Seq(TxSet)) /\ Len(rs) = k
  <2>1. rs \in [1..k -> Seq(TxSet)]
    BY <1>2, <1>4, <1>5
  <2> QED
    BY <2>1
<1>8. x \in Seq(TxSet)
  BY <1>0, <1>2, <1>3
<1>9. qs = Append(rs, x)
  <2>1. PICK S : S = Seq(TxSet)
    OBVIOUS
  <2>2. rs \in Seq(S) /\ x \in S
    BY <1>7, <1>8, <2>1
  <2>3. qs \in [1..(k + 1) -> S]
    BY <1>2, <1>6, <2>1
  <2>4. qs \in Seq(S) /\ Len(qs) = k + 1
    BY <2>3
  <2>5. qs[k + 1] = x
    BY <1>0, <1>3, <1>6
  <2>6. \A i \in 1..k : qs[i] = rs[i]
    BY <1>4, <1>5, <1>6
  <2>7. Len(rs) = k
    BY <1>7
  <2> HIDE <1>5, <1>6, <1>0
  <2> QED
    BY <2>2, <2>4, <2>5, <2>6, <2>7, OneLonger
<1>10. /\ FlattenSeq(rs) \in Seq(TxSet)
       /\ FlattenSeq(Append(rs, x)) = FlattenSeq(rs) \o x
  BY <1>7, <1>8, FlattenAppend
<1>11. Brought(P, FirstOf(h, k)) = FlattenSeq(rs)
  <2>1. DOMAIN FirstOf(h, k) = 1..k /\ \A i \in 1..k : FirstOf(h, k)[i] = h[i]
    BY DEF FirstOf
  <2>2. [i \in DOMAIN FirstOf(h, k) |-> TxsOf(P[FirstOf(h, k)[i]].mutation)] = rs
    BY <1>5, <2>1
  <2> QED
    BY <2>2 DEF Brought
<1>12. Brought(P, FirstOf(h, k + 1)) = FlattenSeq(qs)
  <2>1. DOMAIN FirstOf(h, k + 1) = 1..(k + 1) /\ \A i \in 1..(k + 1) : FirstOf(h, k + 1)[i] = h[i]
    BY DEF FirstOf
  <2>2. [i \in DOMAIN FirstOf(h, k + 1) |-> TxsOf(P[FirstOf(h, k + 1)[i]].mutation)] = qs
    BY <1>6, <2>1
  <2> QED
    BY <2>2 DEF Brought
<1>13. /\ Brought(P, FirstOf(h, k)) \in Seq(TxSet)
       /\ Brought(P, FirstOf(h, k + 1)) = Brought(P, FirstOf(h, k)) \o x
  BY <1>9, <1>10, <1>11, <1>12
<1> QED
  BY <1>0, <1>8, <1>13 DEF Brings

\* Three pieces in a row.
LEMMA Regrouped ==
  ASSUME NEW S, NEW p \in Seq(S), NEW q \in Seq(S), NEW r \in Seq(S)
  PROVE  (p \o q) \o r = p \o (q \o r)
<1>1. PICK a \in Nat, b \in Nat, c \in Nat : a = Len(p) /\ b = Len(q) /\ c = Len(r)
  OBVIOUS
<1>2. PICK x \in Seq(S) : x = p \o q
  BY ConcatProperties
<1>3. PICK y \in Seq(S) : y = q \o r
  BY ConcatProperties
<1>4. /\ Len(x) = a + b
      /\ \A i \in 1..(a + b) : x[i] = IF i <= a THEN p[i] ELSE q[i - a]
  BY <1>1, <1>2
<1>5. /\ Len(y) = b + c
      /\ \A i \in 1..(b + c) : y[i] = IF i <= b THEN q[i] ELSE r[i - b]
  BY <1>1, <1>3
<1>6. PICK u \in Seq(S) : u = x \o r
  BY ConcatProperties
<1>7. PICK v \in Seq(S) : v = p \o y
  BY ConcatProperties
<1>8. PICK n \in Nat : n = a + b + c /\ Len(u) = n /\ Len(v) = n
  <2>1. Len(x \o r) = Len(x) + Len(r)
    BY ConcatProperties
  <2>2. Len(p \o y) = Len(p) + Len(y)
    BY ConcatProperties
  <2>3. Len(u) = (a + b) + c /\ Len(v) = a + (b + c)
    BY <1>1, <1>4, <1>5, <1>6, <1>7, <2>1, <2>2
  <2> QED
    BY <1>1, <2>3
<1>9. \A i \in 1..n : u[i] = IF i <= a + b THEN x[i] ELSE r[i - (a + b)]
  BY <1>1, <1>4, <1>6, <1>8
<1>10. \A i \in 1..n : v[i] = IF i <= a THEN p[i] ELSE y[i - a]
  BY <1>1, <1>5, <1>7, <1>8
<1>11. ASSUME NEW i \in 1..n PROVE u[i] = v[i]
  <2>1. CASE i <= a
    <3>1. i <= a + b /\ i \in 1..(a + b)
      BY <1>1, <2>1
    <3> QED
      BY <1>4, <1>9, <1>10, <2>1, <3>1
  <2>2. CASE i > a /\ i <= a + b
    <3>1. i - a \in 1..(b + c) /\ i - a <= b /\ i \in 1..(a + b) /\ ~(i <= a)
      BY <1>1, <2>2
    <3>2. u[i] = q[i - a]
      BY <1>4, <1>9, <2>2, <3>1
    <3>3. v[i] = q[i - a]
      BY <1>5, <1>10, <3>1
    <3> QED
      BY <3>2, <3>3
  <2>3. CASE i > a + b
    <3>1. i - a \in 1..(b + c) /\ ~(i - a <= b) /\ (i - a) - b = i - (a + b) /\ ~(i <= a)
      BY <1>1, <1>8, <2>3
    <3>2. u[i] = r[i - (a + b)]
      BY <1>1, <1>9, <2>3
    <3>3. v[i] = r[i - (a + b)]
      BY <1>5, <1>10, <3>1
    <3> QED
      BY <3>2, <3>3
  <2> QED
    BY <1>1, <2>1, <2>2, <2>3
<1>12. u = v
  BY <1>8, <1>11
<1> QED
  BY <1>2, <1>3, <1>6, <1>7, <1>12

BeginsWith(P, h, n, first) == \E rest \in Seq(TxSet) : Brought(P, FirstOf(h, n)) = first \o rest

\* What the first of them bring stays the beginning.
LEMMA BroughtBegins ==
  ASSUME NEW P, Tree(P), NEW n \in Nat, NEW h, InTree(P, h, n),
         NEW k \in 0..n, NEW first \in Seq(TxSet), first = Brought(P, FirstOf(h, k))
  PROVE  BeginsWith(P, h, n, first)
<1> DEFINE T == {j \in Nat : k + j <= n =>
                   \E rest \in Seq(TxSet) : Brought(P, FirstOf(h, k + j)) = first \o rest}
<1>1. 0 \in T
  <2>1. k + 0 = k /\ << >> \in Seq(TxSet) /\ first \o << >> = first
    BY ConcatEmptySeq
  <2> QED
    BY <2>1
<1>2. ASSUME NEW j \in T PROVE j + 1 \in T
  <2>0. j \in Nat /\ j + 1 \in Nat
    OBVIOUS
  <2> SUFFICES ASSUME k + (j + 1) <= n
               PROVE  \E rest \in Seq(TxSet) : Brought(P, FirstOf(h, k + (j + 1))) = first \o rest
    BY <2>0
  <2>1. PICK z \in Nat : z = k + j /\ z + 1 = k + (j + 1) /\ z <= n /\ \A i \in 1..(z + 1) : i \in 1..n
    OBVIOUS
  <2>2. PICK rest \in Seq(TxSet) : Brought(P, FirstOf(h, z)) = first \o rest
    BY <2>1
  <2> HIDE DEF T
  <2>3. InTree(P, h, z + 1)
    BY <2>1 DEF InTree
  <2>4. Brings(P, h, z)
    BY <2>3, BroughtNext
  <2>5. PICK x \in Seq(TxSet) : Brought(P, FirstOf(h, z + 1)) = Brought(P, FirstOf(h, z)) \o x
    BY <2>4 DEF Brings
  <2>6. rest \o x \in Seq(TxSet)
    BY <2>5, ConcatProperties
  <2>7. (first \o rest) \o x = first \o (rest \o x)
    BY <2>2, <2>5, Regrouped, SMTT(30)
  <2> QED
    BY <2>1, <2>2, <2>5, <2>6, <2>7
<1>3. T \in SUBSET Nat
  OBVIOUS
<1>4. PICK d \in Nat : d = n - k /\ k + d = n
  OBVIOUS
<1>5. d \in T
  <2> HIDE DEF T
  <2> QED
    BY <1>1, <1>2, <1>3, NatSetInduction
<1>6. \E rest \in Seq(TxSet) : Brought(P, FirstOf(h, n)) = first \o rest
  <2>1. k + d <= n => \E rest \in Seq(TxSet) : Brought(P, FirstOf(h, k + d)) = first \o rest
    BY <1>5
  <2>2. k + d <= n
    BY <1>4
  <2> QED
    BY <1>4, <2>1, <2>2
<1> QED
  BY <1>6 DEF BeginsWith

\* Nothing is brought by nothing.
LEMMA BroughtNothing ==
  ASSUME NEW P, NEW h, NEW n \in Nat, DOMAIN h = 1..n, \A i \in 1..n : TxsOf(P[h[i]].mutation) = << >>
  PROVE  Brought(P, h) = << >>
<1>1. PICK rs : rs = [i \in 1..n |-> TxsOf(P[h[i]].mutation)]
  OBVIOUS
<1>2. << >> \in Seq({})
  OBVIOUS
<1>3. rs \in [1..n -> Seq({})]
  BY <1>1, <1>2
<1>4. rs \in Seq(Seq({}))
  BY <1>3
<1>5. FlattenSeq(rs) \in Seq({})
  BY <1>2, <1>4, FlattenAppend
<1>6. FlattenSeq(rs) = << >>
  BY <1>5
<1> QED
  BY <1>1, <1>6 DEF Brought

\* The payload has the transactions of the sequencer in its sealed part, before all others.
Begun(P, c) == \E k \in 0..Len(SealedOf(P, c)) : Brought(P, FirstOf(SealedOf(P, c), k)) = Sequencer

\* They stay there whatever comes behind.
LEMMA BegunStays ==
  ASSUME NEW P, Tree(P), NEW c \in DOMAIN P, NEW m \in Mutations, NEW Q, Q = Built(P, c, m),
         NEW new, new = Len(P) + 1
  PROVE  /\ \A e \in DOMAIN P : Begun(P, e) => Begun(Q, e)
         /\ m.kind # "barrier" /\ Begun(P, c) => Begun(Q, new)
<1>1. \A x \in DOMAIN P : x \in DOMAIN Q /\ Q[x] = P[x]
  BY BuiltIs
<1>2. ASSUME NEW e \in DOMAIN P, Begun(P, e), NEW d, SealedOf(Q, d) = SealedOf(P, e)
      PROVE  Begun(Q, d)
  <2>1. PICK s : s = SealedOf(P, e)
    OBVIOUS
  <2>2. PICK k \in 0..Len(s) : Brought(P, FirstOf(s, k)) = Sequencer
    BY <1>2, <2>1 DEF Begun
  <2>3. PICK h : h = HistoryOf(P, e)
    OBVIOUS
  <2>4. PICK b : b = LastBarrier(P, h)
    OBVIOUS
  <2>5. PICK n \in Nat : n = Len(h) /\ \A i \in 1..n : h[i] \in DOMAIN P
    <3>1. h \in Seq(DOMAIN P)
      BY <2>3, HistoryLeads
    <3> QED
      BY <3>1
  <2>6. s = [i \in 1..b |-> h[i]] /\ b \in 1..n
    <3>1. s = [i \in 1..b |-> h[i]]
      BY <2>1, <2>3, <2>4, SealedIs
    <3>2. b \in 1..n
      BY <2>3, <2>4, <2>5, LastBarrierIs
    <3> QED
      BY <3>1, <3>2
  <2>7. b \in Nat /\ (\A i \in 1..b : i \in 1..n) /\ s \in [1..b -> DOMAIN P]
    BY <2>5, <2>6
  <2>8. Len(s) = b
    BY <2>7
  <2>9. \A i \in 1..k : i \in 1..b
    BY <2>2, <2>7, <2>8
  <2>10. \A i \in 1..k : s[i] \in DOMAIN P /\ Q[s[i]] = P[s[i]]
    BY <1>1, <2>7, <2>9
  <2>11. PICK f : f = FirstOf(s, k)
    OBVIOUS
  <2>12. DOMAIN f = 1..k /\ \A i \in 1..k : f[i] = s[i]
    BY <2>11 DEF FirstOf
  <2>13. [i \in DOMAIN f |-> TxsOf(Q[f[i]].mutation)] = [i \in DOMAIN f |-> TxsOf(P[f[i]].mutation)]
    BY <2>10, <2>12
  <2>14. Brought(Q, f) = Brought(P, f)
    BY <2>13 DEF Brought
  <2>15. \E j \in 0..Len(s) : Brought(Q, FirstOf(s, j)) = Sequencer
    BY <2>2, <2>11, <2>14
  <2> QED
    BY <1>2, <2>1, <2>15 DEF Begun
<1>3. \A e \in DOMAIN P : SealedOf(Q, e) = SealedOf(P, e)
  BY SpansStay
<1>4. m.kind # "barrier" => SealedOf(Q, new) = SealedOf(P, c)
  BY SpansBuilt
<1> QED
  BY <1>2, <1>3, <1>4

\* A barrier behind them seals them.
LEMMA BarrierSeals ==
  ASSUME NEW P, Tree(P), NEW c \in DOMAIN P, Brought(P, HistoryOf(P, c)) = Sequencer,
         NEW Q, Q = Built(P, c, Barrier), NEW new, new = Len(P) + 1
  PROVE  Begun(Q, new)
<1>1. Barrier \in Mutations /\ Barrier.kind = "barrier"
  BY DEF Mutations, Barrier
<1>2. /\ Tree(Q)
      /\ new \in DOMAIN Q
      /\ \A x \in DOMAIN P : x \in DOMAIN Q /\ Q[x] = P[x]
      /\ Q[new].mutation = Barrier
  <2>1. /\ Tree(Q)
        /\ Len(P) \in Nat
        /\ DOMAIN Q = 1..(Len(P) + 1)
        /\ \A x \in DOMAIN P : x \in DOMAIN Q /\ Q[x] = P[x]
        /\ Q[Len(P) + 1].mutation = Barrier
    BY <1>1, BuiltIs
  <2> QED
    BY <2>1
<1>3. PICK h : h = HistoryOf(P, c)
  OBVIOUS
<1>4. PICK g : g = Append(h, new)
  OBVIOUS
<1>5. g = HistoryOf(Q, new)
  BY <1>1, <1>3, <1>4, HistoryBuilt
<1>6. PICK n \in Nat : n = Len(h) /\ h \in Seq(DOMAIN P) /\ DOMAIN h = 1..n /\ \A i \in 1..n : h[i] \in DOMAIN P
  <2>1. h \in Seq(DOMAIN P)
    BY <1>3, HistoryLeads
  <2> QED
    BY <2>1
<1>7. Len(g) = n + 1 /\ g[n + 1] = new /\ (\A i \in 1..n : g[i] = h[i]) /\ n + 1 \in 1..(n + 1)
  BY <1>4, <1>6
<1>8. PICK b : b = LastBarrier(Q, g)
  OBVIOUS
<1>9. /\ b \in 1..(n + 1)
      /\ \A i \in 1..(n + 1) : i > b => ~BarrierAt(Q, g[i])
  BY <1>2, <1>5, <1>7, <1>8, LastBarrierIs
<1>10. BarrierAt(Q, g[n + 1])
  BY <1>1, <1>2, <1>7 DEF BarrierAt
<1>11. b = n + 1
  <2>1. ~(n + 1 > b)
    BY <1>7, <1>9, <1>10
  <2> QED
    BY <1>6, <1>9, <2>1
<1>12. PICK s : s = SealedOf(Q, new)
  OBVIOUS
<1>13. s = [i \in 1..b |-> g[i]]
  <2>1. s = SubSeq(g, 1, b)
    BY <1>5, <1>7, <1>8, <1>12 DEF SealedOf
  <2>2. SubSeq(g, 1, b) = [i \in 1..b |-> g[i]]
    <3>1. g \in Seq({g[i] : i \in 1..(n + 1)})
      BY <1>4, <1>6, <1>7
    <3> QED
      BY <1>6, <1>7, <1>9, <3>1
  <2> QED
    BY <2>1, <2>2
<1>14. Len(s) = n + 1 /\ \A i \in 1..n : s[i] = h[i]
  <2>1. \A i \in 1..n : i \in 1..(n + 1)
    BY <1>6
  <2>2. n + 1 \in Nat /\ s \in [1..(n + 1) -> {g[i] : i \in 1..(n + 1)}]
    BY <1>6, <1>11, <1>13
  <2>3. Len(s) = n + 1
    BY <2>2
  <2> QED
    BY <1>7, <1>11, <1>13, <2>1, <2>3
<1>15. FirstOf(s, n) = h
  <2>1. h = [i \in 1..n |-> h[i]]
    BY <1>6
  <2> QED
    BY <1>14, <2>1 DEF FirstOf
<1>16. Brought(Q, h) = Brought(P, h)
  <2>1. [i \in DOMAIN h |-> TxsOf(Q[h[i]].mutation)] = [i \in DOMAIN h |-> TxsOf(P[h[i]].mutation)]
    BY <1>2, <1>6
  <2> QED
    BY <2>1 DEF Brought
<1>17. n \in 0..Len(s) /\ Brought(Q, FirstOf(s, n)) = Sequencer
  BY <1>3, <1>6, <1>14, <1>15, <1>16
<1> QED
  BY <1>12, <1>17 DEF Begun

\* What the staging history begins with has the same sealed history.
LEMMA HeadSealed ==
  ASSUME NEW P, Tree(P), NEW c \in DOMAIN P, NEW s, s = StagingOf(P, c)
  PROVE  Head(s) \in DOMAIN P /\ SealedOf(P, Head(s)) = SealedOf(P, c)
<1>1. PICK h : h = HistoryOf(P, c)
  OBVIOUS
<1>2. PICK b : b = LastBarrier(P, h)
  OBVIOUS
<1>3. PICK n \in Nat : n = Len(h) /\ h \in Seq(DOMAIN P) /\ DOMAIN h = 1..n /\ \A i \in 1..n : h[i] \in DOMAIN P
  <2>1. h \in Seq(DOMAIN P)
    BY <1>1, HistoryLeads
  <2> QED
    BY <2>1
<1>4. b \in 1..n /\ BarrierAt(P, h[b])
  BY <1>1, <1>2, <1>3, LastBarrierIs
<1>5. PICK e : e = h[b]
  OBVIOUS
<1>6. Head(s) = e
  <2>1. s = SubSeq(h, b, n)
    BY <1>1, <1>2, <1>3 DEF StagingOf
  <2>2. Len(s) = n - b + 1 /\ s[1] = h[b + 1 - 1] /\ 1 \in 1..(n - b + 1) /\ b + 1 - 1 = b
    BY <1>3, <1>4, <2>1
  <2>3. s[1] = e
    BY <1>5, <2>2
  <2>4. Head(s) = s[1]
    OBVIOUS
  <2> QED
    BY <2>3, <2>4
<1>7. e \in DOMAIN P /\ b \in DOMAIN h
  BY <1>3, <1>4, <1>5
<1>8. PICK g : g = HistoryOf(P, e)
  OBVIOUS
<1>9. g = [i \in 1..b |-> h[i]]
  BY <1>1, <1>5, <1>7, <1>8, EarlierHistory
<1>10. b \in Nat /\ b \in 1..b /\ Len(g) = b /\ \A i \in 1..b : g[i] = h[i]
  <2>1. b \in Nat /\ b \in 1..b /\ \A i \in 1..b : i \in 1..n
    BY <1>3, <1>4
  <2>2. g \in [1..b -> DOMAIN P]
    BY <1>3, <1>9, <2>1
  <2>3. Len(g) = b
    BY <2>1, <2>2
  <2> QED
    BY <1>9, <2>1, <2>3
<1>11. SameUpTo(h, b, P, g)
  <2>1. BarrierAt(P, g[b])
    BY <1>4, <1>10
  <2>2. \A i \in 1..b : ~(i > b)
    BY <1>10
  <2> QED
    BY <1>10, <2>1, <2>2 DEF SameUpTo
<1>12. SealedOf(P, e) = SealedOf(P, c)
  BY <1>1, <1>2, <1>7, <1>8, <1>11, SameSealed
<1> QED
  BY <1>6, <1>7, <1>12

\* The first step was the prologue, what it did has not been taken back.
Led(s) ==
  /\ s.flows # << >>
  /\ s.steps[1] = "prologue"
  /\ s.flows[1] = "ok"
  /\ s.pc # "ok" \/ s.kind # "atomic" \/ s.current # s.initial

\* Then all payloads that steps work on begin with the sequencer's transactions.
Rollup(P, s) ==
  s # NoRun =>
    /\ Led(s) => Begun(P, s.current)
    /\ s.pc = "ordering" => s.steps[Len(s.flows) + 1] = "order_by" /\ (Led(s) => Begun(P, s.prefix))
    /\ s.pc = "prologue" => Brought(P, HistoryOf(P, s.prefix)) \o s.work = Sequencer

\* A checkpoint of an order, and one of a transaction.
Adds(P, c, Q) == \E m \in Mutations : m.kind # "barrier" /\ Q = Built(P, c, m)

AddsTx(P, c, tx, Q) == \E m \in Mutations : TxsOf(m) = <<tx>> /\ m.kind # "barrier" /\ Q = Built(P, c, m)

\* Payloads keep their beginning.
LEMMA BegunKept ==
  ASSUME Sound(checkpoints), Moves
  PROVE  \A e \in DOMAIN checkpoints : Begun(checkpoints, e) => Begun(checkpoints', e)
<1>1. PICK Q : Q = checkpoints'
  OBVIOUS
<1>2. CASE Q = checkpoints
  BY <1>1, <1>2
<1>3. CASE Grows(checkpoints, Q)
  <2>1. PICK c \in DOMAIN checkpoints :
          \E m : Made(m, ResultsOf(checkpoints, c), DatabaseOf(checkpoints, c)) /\ Q = Built(checkpoints, c, m)
    BY <1>3 DEF Grows
  <2>2. PICK m : Made(m, ResultsOf(checkpoints, c), DatabaseOf(checkpoints, c)) /\ Q = Built(checkpoints, c, m)
    BY <2>1
  <2>3. Tree(checkpoints) /\ m \in Mutations
    BY <2>2 DEF Sound, Made
  <2>4. \A e \in DOMAIN checkpoints : Begun(checkpoints, e) => Begun(Q, e)
    BY <2>2, <2>3, BegunStays
  <2> QED
    BY <1>1, <2>4
<1> QED
  BY <1>1, <1>2, <1>3 DEF Moves

\* So does one with an order more.
LEMMA BegunGrows ==
  ASSUME NEW P, Tree(P), NEW c \in DOMAIN P, NEW Q, Adds(P, c, Q), Begun(P, c)
  PROVE  Begun(Q, Len(Q))
<1>1. PICK m \in Mutations : m.kind # "barrier" /\ Q = Built(P, c, m)
  BY DEF Adds
<1>2. PICK new : new = Len(P) + 1
  OBVIOUS
<1>3. Begun(Q, new)
  BY <1>1, <1>2, BegunStays
<1>4. Len(Q) = Len(P) + 1
  BY <1>1, BuiltIs
<1> QED
  BY <1>2, <1>3, <1>4

OfTransaction(m, tx) == m.kind = "transaction" /\ m.source = tx

\* What is executed is the transaction.
LEMMA ExecutesIt ==
  ASSUME NEW tx \in TxSet, NEW state \in StateSet, NEW outcome \in Outcomes, NEW e,
         e = execute_transaction(tx, state, outcome), e.error = "none"
  PROVE  OfTransaction(e.mutation, tx)
<1>1. transact(state, tx, outcome) # "Invalid"
  BY DEF execute_transaction, Failed
<1>2. e.mutation.kind = "transaction" /\ e.mutation.source = tx
  BY <1>1 DEF execute_transaction, Result
<1> QED
  BY <1>2 DEF OfTransaction

\* A transaction is added, and nothing else.
LEMMA TransactionAdds ==
  ASSUME Sound(checkpoints), NEW c \in DOMAIN checkpoints, NEW tx \in TxSet, NEW outcome \in Outcomes,
         NEW e, e = execute_transaction(tx, database(c), outcome), e.error = "none",
         NEW Q, Q = apply_with(c, e.mutation)
  PROVE  Adds(checkpoints, c, Q) /\ AddsTx(checkpoints, c, tx, Q)
<1>1. PICK pre : pre = ResultsOf(checkpoints, c)
  OBVIOUS
<1>2. PICK state : state = DatabaseOf(checkpoints, c)
  OBVIOUS
<1>3. pre \in Seq(ResultSet) /\ state \in StateSet /\ Tree(checkpoints)
  BY <1>1, <1>2 DEF Sound, SoundAt
<1>4. e = execute_transaction(tx, state, outcome)
  BY <1>2, <1>3, ReadsAre
<1>5. Made(e.mutation, pre, state)
  BY <1>3, <1>4, TransactionIsMade
<1>6. Q = Built(checkpoints, c, e.mutation)
  BY DEF apply_with, Built, depth
<1>7. PICK m : m = e.mutation
  OBVIOUS
<1>8. m \in Mutations /\ Q = Built(checkpoints, c, m)
  BY <1>5, <1>6, <1>7 DEF Made
<1>9. m.kind = "transaction" /\ m.source = tx
  <2>1. OfTransaction(e.mutation, tx)
    BY <1>3, <1>4, ExecutesIt
  <2> QED
    BY <1>7, <2>1 DEF OfTransaction
<1>10. TxsOf(m) = <<tx>> /\ m.kind # "barrier"
  BY <1>9 DEF TxsOf
<1> QED
  BY <1>8, <1>10 DEF Adds, AddsTx

\* An order that is in the payload already adds one.
LEMMA OrderAdds ==
  ASSUME Sound(checkpoints), NEW c \in OrdersIn(checkpoints), NEW on \in DOMAIN checkpoints,
         NEW e \in executions(c, on), e.error = "none", NEW Q, Q = apply_with(on, e.mutation)
  PROVE  Adds(checkpoints, on, Q)
<1>1. PICK m : m = checkpoints[c].mutation
  OBVIOUS
<1>2. Tree(checkpoints) /\ c \in DOMAIN checkpoints
  BY DEF Sound, OrdersIn
<1>3. m \in Mutations
  BY <1>1, <1>2, TreeAt
<1>4. m.kind # "barrier"
  BY <1>1 DEF OrdersIn, BarrierAt
<1>5. CASE m.kind = "transaction"
  <2>1. PICK tx : tx = m.source
    OBVIOUS
  <2>2. tx \in TxSet
    <3>1. m \in Executed("transaction", TxSet)
      BY <1>3, <1>5, KindOf
    <3> QED
      BY <2>1, <3>1 DEF Executed
  <2>3. PICK o \in Outcomes : e = execute_transaction(tx, database(on), o)
    BY <1>1, <1>5, <2>1 DEF executions
  <2> QED
    BY <2>2, <2>3, TransactionAdds
<1>6. CASE m.kind # "transaction"
  <2>1. PICK b : b = m.source
    OBVIOUS
  <2>2. b \in BundleSet
    <3>1. m \in Executed("bundle", BundleSet)
      BY <1>3, <1>4, <1>6, KindOf
    <3> QED
      BY <2>1, <3>1 DEF Executed
  <2>3. PICK o \in BundleOutcomes(b) : e = execute_bundle(b, database(on), o)
    BY <1>1, <1>6, <2>1 DEF executions
  <2>4. PICK state : state = DatabaseOf(checkpoints, on)
    OBVIOUS
  <2>5. PICK pre : pre = ResultsOf(checkpoints, on)
    OBVIOUS
  <2>6. pre \in Seq(ResultSet) /\ state \in StateSet
    BY <2>4, <2>5 DEF Sound, SoundAt
  <2>7. e = execute_bundle(b, state, o)
    BY <1>2, <2>3, <2>4, ReadsAre
  <2>8. Made(e.mutation, pre, state) /\ e.mutation.kind = "bundle"
    BY <2>2, <2>6, <2>7, BundleIsMade
  <2>9. PICK new : new = e.mutation
    OBVIOUS
  <2>10. new.kind = "bundle"
    BY <2>8, <2>9
  <2>11. new \in Mutations
    BY <2>8, <2>9 DEF Made
  <2>12. Q = Built(checkpoints, on, new)
    BY <2>9 DEF apply_with, Built, depth
  <2> QED
    BY <2>10, <2>11, <2>12 DEF Adds
<1> QED
  BY <1>5, <1>6

\* A step returns a payload that begins with them.
LEMMA LeadsReturn ==
  ASSUME AtStep(run), NEW Q, NEW flow \in Flows, NEW payload \in Nat, StepReturns(flow, payload),
         Led(run) => Begun(Q, payload),
         run.flows = << >> /\ run.steps[1] = "prologue" /\ flow = "ok" => Begun(Q, payload)
  PROVE  Rollup(Q, run')
<1>1. run \in RunRecords /\ run.initial \in Nat /\ run.flows \in Seq(Flows) /\ run.pc # "ok"
  BY DEF AtStep, RunRecords
<1>2. PICK pc \in {"between", "ok", "break", "fail", "recording"}, p \in Nat :
        /\ run' = Returned(pc, p, flow)
        /\ p = payload \/ (run.kind = "atomic" /\ pc = "ok" /\ p = run.initial)
  BY <1>1, StepReturnsIs DEF Flows
<1>3. /\ run'.pc = pc /\ run'.current = p /\ run'.initial = run.initial
      /\ run'.kind = run.kind /\ run'.steps = run.steps
      /\ run'.flows = Append(run.flows, flow)
  BY <1>1, <1>2, ReturnedIs, SMTT(30)
<1>4. ASSUME Led(run') PROVE Begun(Q, run'.current)
  <2>1. p = payload /\ run.steps[1] = "prologue" /\ Append(run.flows, flow)[1] = "ok"
    BY <1>2, <1>3, <1>4 DEF Led
  <2>2. CASE run.flows = << >>
    <3>1. flow = "ok"
      BY <2>1, <2>2
    <3> QED
      BY <1>3, <2>1, <2>2, <3>1
  <2>3. CASE run.flows # << >>
    <3>1. run.flows[1] = "ok"
      BY <1>1, <2>1, <2>3
    <3>2. Led(run)
      BY <1>1, <2>1, <2>3, <3>1 DEF Led
    <3> QED
      BY <1>3, <2>1, <3>2
  <2> QED
    BY <2>2, <2>3
<1> QED
  BY <1>2, <1>3, <1>4 DEF Rollup

\* A step that goes on.
LEMMA LeadsGo ==
  ASSUME AtStep(run), NEW Q, NEW pc \in {"ordering", "prologue"}, NEW prefix, NEW work,
         run' = Goes(pc, prefix, work),
         Led(run) => Begun(Q, run.current),
         pc = "ordering" => run.steps[Len(run.flows) + 1] = "order_by" /\ (Led(run) => Begun(Q, prefix)),
         pc = "prologue" => Brought(Q, HistoryOf(Q, prefix)) \o work = Sequencer
  PROVE  Rollup(Q, run')
<1>1. run \in RunRecords /\ run.pc # "ok"
  BY DEF AtStep
<1>2. /\ run'.pc = pc /\ run'.prefix = prefix /\ run'.work = work
      /\ run'.current = run.current /\ run'.initial = run.initial
      /\ run'.kind = run.kind /\ run'.steps = run.steps /\ run'.flows = run.flows
  BY <1>1 DEF Goes, RunRecords
<1>3. Led(run') => Led(run)
  BY <1>1, <1>2 DEF Led
<1> QED
  BY <1>2, <1>3 DEF Rollup

\* A step that is not the prologue returns.
LEMMA OthersLead ==
  ASSUME AtStep(run), NEW Q, NEW flow \in Flows, NEW payload \in Nat, StepReturns(flow, payload),
         run.steps[Len(run.flows) + 1] # "prologue", Led(run) => Begun(Q, payload)
  PROVE  Rollup(Q, run')
<1>1. run.flows = << >> => run.steps[1] # "prologue"
  <2>1. Len(<< >>) + 1 = 1
    OBVIOUS
  <2> QED
    BY <2>1
<1> QED
  BY <1>1, LeadsReturn

\* Numbers of payloads.
LEMMA PayloadsAreNumbers ==
  ASSUME TypeInv, Moves
  PROVE  /\ Tree(checkpoints) /\ Sound(checkpoints)
         /\ \A e \in DOMAIN checkpoints : e \in Nat
         /\ Len(checkpoints') \in Nat
<1>1. PICK Q : Q = checkpoints'
  OBVIOUS
<1>2. Sound(checkpoints) /\ Tree(checkpoints)
  BY DEF TypeInv, Sound
<1>3. Sound(Q)
  BY <1>1, <1>2, MovesIs
<1>4. \E n \in Nat : n >= 1 /\ DOMAIN Q = 1..n /\ Len(Q) = n
  BY <1>3, TreeAt DEF Sound
<1>5. \E n \in Nat : n >= 1 /\ DOMAIN checkpoints = 1..n
  BY <1>2, TreeAt
<1> QED
  BY <1>1, <1>2, <1>4, <1>5

\* OrderBy::step
LEMMA OrderByLeads ==
  ASSUME TypeInv, Control(run), Rollup(checkpoints, run), OrderBy
  PROVE  Rollup(checkpoints', run')
<1>1. /\ AtStep(run) /\ run.current \in DOMAIN checkpoints /\ Tree(checkpoints)
      /\ run.pc = "between" /\ run # NoRun /\ run.steps[Len(run.flows) + 1] = "order_by"
  BY AtWork DEF OrderBy, TypeInv, Sound, Calls, AtStep
<1>2. checkpoints' = checkpoints /\ Moves
  BY DEF OrderBy, Moves, vars
<1>3. PICK c \in DOMAIN checkpoints : c = run.current
  BY <1>1
<1>4. PICK s : s = StagingOf(checkpoints, c)
  OBVIOUS
<1>5. s = history_staging(run.current)
  BY <1>1, <1>3, <1>4, SpansAre
<1>6. PICK ordered : ordered = sorted(s)
  OBVIOUS
<1>7. IF ordered = << >> THEN StepReturns("ok", run.current)
      ELSE run' = [run EXCEPT !.pc = "ordering", !.prefix = Head(s), !.work = ordered]
  BY <1>5, <1>6 DEF OrderBy
<1>8. Led(run) => Begun(checkpoints, c)
  BY <1>1, <1>3 DEF Rollup
<1>9. CASE ordered = << >>
  <2>1. StepReturns("ok", c) /\ c \in Nat /\ "ok" \in Flows
    BY <1>2, <1>3, <1>7, <1>9, PayloadsAreNumbers DEF Flows
  <2>2. Rollup(checkpoints, run')
    BY <1>1, <1>8, <2>1, OthersLead
  <2> QED
    BY <1>2, <2>2
<1>10. CASE ordered # << >>
  <2>1. PICK e : e = Head(s)
    OBVIOUS
  <2>2. SealedOf(checkpoints, e) = SealedOf(checkpoints, c)
    BY <1>1, <1>4, <2>1, HeadSealed
  <2>3. Led(run) => Begun(checkpoints, e)
    BY <1>8, <2>2 DEF Begun
  <2>4. run' = Goes("ordering", e, ordered)
    BY <1>7, <1>10, <2>1 DEF Goes
  <2>5. Rollup(checkpoints, run')
    BY <1>1, <1>3, <1>8, <2>3, <2>4, LeadsGo
  <2> QED
    BY <1>2, <2>5
<1> QED
  BY <1>9, <1>10

\* OrderBy::step applies the orders again.
LEMMA ApplyOrderedLeads ==
  ASSUME TypeInv, Control(run), Rollup(checkpoints, run), ApplyOrdered
  PROVE  Rollup(checkpoints', run')
<1>1. run.pc = "ordering" /\ run.work # << >>
  BY DEF ApplyOrdered
<1>2. /\ AtStep(run) /\ run \in RunRecords /\ run.current \in DOMAIN checkpoints /\ run # NoRun
      /\ run.prefix \in DOMAIN checkpoints /\ Sound(checkpoints) /\ Tree(checkpoints)
  BY <1>1, AtWork DEF TypeInv, AtStep, Sound
<1>3. run.work \in Seq(OrdersIn(checkpoints))
  BY <1>1, <1>2 DEF TypeInv, RunOn, AtStep
<1>4. PICK c : c = Head(run.work)
  OBVIOUS
<1>5. c \in OrdersIn(checkpoints)
  BY <1>1, <1>3, <1>4
<1>6. PICK on \in DOMAIN checkpoints : on = run.prefix
  BY <1>2
<1>7. PICK e \in executions(c, on) :
        IF e.error # "none"
        THEN StepReturns("fail", run.current) /\ UNCHANGED checkpoints
        ELSE /\ checkpoints' = apply_with(on, e.mutation)
             /\ run' = [run EXCEPT !.prefix = Len(checkpoints'), !.work = Tail(@)]
  BY <1>4, <1>6 DEF ApplyOrdered
<1>8. /\ run.steps[Len(run.flows) + 1] = "order_by"
      /\ Led(run) => Begun(checkpoints, run.current) /\ Begun(checkpoints, on)
  BY <1>1, <1>2, <1>6 DEF Rollup
<1>9. CASE e.error # "none"
  <2>1. checkpoints' = checkpoints /\ "fail" \in Flows /\ StepReturns("fail", run.current)
    BY <1>7, <1>9 DEF Flows
  <2>2. run.current \in Nat
    BY <1>2 DEF RunRecords
  <2>3. Rollup(checkpoints, run')
    BY <1>2, <1>8, <2>1, <2>2, OthersLead
  <2> QED
    BY <2>1, <2>3
<1>10. CASE e.error = "none"
  <2>1. PICK Q : Q = checkpoints'
    OBVIOUS
  <2>2. Q = apply_with(on, e.mutation)
    BY <1>7, <1>10, <2>1
  <2>3. Grows(checkpoints, Q)
    BY <1>2, <1>5, <1>10, <2>2, OrderGrows
  <2>4. Adds(checkpoints, on, Q)
    BY <1>2, <1>5, <1>10, <2>2, OrderAdds
  <2>5. \A d \in DOMAIN checkpoints : Begun(checkpoints, d) => Begun(Q, d)
    BY <1>2, <2>1, <2>3, BegunKept DEF Moves
  <2>6. Begun(checkpoints, on) => Begun(Q, Len(Q))
    BY <1>2, <2>4, BegunGrows
  <2>7. PICK k : k = Len(Q)
    OBVIOUS
  <2>8. run' = [run EXCEPT !.prefix = k, !.work = Tail(@)]
    BY <1>7, <1>10, <2>1, <2>7
  <2>9. run' = Goes("ordering", k, Tail(run.work))
    BY <1>1, <1>2, <2>8 DEF Goes, RunRecords
  <2>10. Led(run) => Begun(Q, run.current) /\ Begun(Q, k)
    BY <1>2, <1>8, <2>5, <2>6, <2>7
  <2>11. Rollup(Q, run')
    BY <1>2, <1>8, <2>9, <2>10, LeadsGo
  <2> QED
    BY <2>1, <2>11
<1> QED
  BY <1>9, <1>10

\* OrderBy::step ends, or its assertion fails.
LEMMA EndOrderByLeads ==
  ASSUME TypeInv, Control(run), Rollup(checkpoints, run), EndOrderBy
  PROVE  Rollup(checkpoints', run')
<1>1. run.pc = "ordering" /\ checkpoints' = checkpoints
  BY DEF EndOrderBy, vars
<1>2. AtStep(run) /\ run \in RunRecords /\ run # NoRun /\ run.prefix \in Nat /\ "ok" \in Flows
  BY <1>1, AtWork DEF AtStep, RunRecords, Flows
<1>3. /\ run.steps[Len(run.flows) + 1] = "order_by"
      /\ Led(run) => Begun(checkpoints, run.current) /\ Begun(checkpoints, run.prefix)
  BY <1>1, <1>2 DEF Rollup
<1>4. CASE StepReturns("ok", run.prefix)
  <2>1. Rollup(checkpoints, run')
    BY <1>2, <1>3, <1>4, OthersLead
  <2> QED
    BY <1>1, <2>1
<1>5. CASE run' = [run EXCEPT !.pc = "panic"]
  <2>1. /\ run'.pc = "panic" /\ run'.current = run.current /\ run'.initial = run.initial
        /\ run'.kind = run.kind /\ run'.steps = run.steps /\ run'.flows = run.flows
    BY <1>2, <1>5 DEF RunRecords
  <2>2. Led(run') => Led(run)
    BY <1>1, <2>1 DEF Led
  <2>3. Rollup(checkpoints, run')
    BY <1>3, <2>1, <2>2 DEF Rollup
  <2> QED
    BY <1>1, <2>3
<1> QED
  BY <1>4, <1>5 DEF EndOrderBy

\* A step that adds one transaction.
LEMMA OneTransactionLeads ==
  ASSUME TypeInv, Control(run), Rollup(checkpoints, run), AtStep(run), run.current \in DOMAIN checkpoints,
         run.steps[Len(run.flows) + 1] # "prologue",
         NEW tx \in TxSet, NEW o \in Outcomes, NEW e,
         e = execute_transaction(tx, database(run.current), o), e.error = "none",
         checkpoints' = apply_with(run.current, e.mutation), StepReturns("ok", Len(checkpoints'))
  PROVE  Rollup(checkpoints', run')
<1>1. Sound(checkpoints) /\ Tree(checkpoints) /\ "ok" \in Flows /\ run # NoRun
  BY DEF TypeInv, Flows, Sound, AtStep
<1>2. PICK c \in DOMAIN checkpoints : c = run.current
  OBVIOUS
<1>3. PICK Q : Q = checkpoints'
  OBVIOUS
<1>4. Grows(checkpoints, Q)
  BY <1>1, <1>2, <1>3, TransactionGrows
<1>5. Adds(checkpoints, c, Q)
  BY <1>1, <1>2, <1>3, TransactionAdds
<1>6. PICK k : k = Len(Q)
  OBVIOUS
<1>7. k \in Nat /\ StepReturns("ok", k)
  BY <1>3, <1>4, <1>6, PayloadsAreNumbers DEF Moves
<1>8. Led(run) => Begun(Q, k)
  BY <1>1, <1>2, <1>5, <1>6, BegunGrows DEF Rollup
<1>9. Rollup(Q, run')
  BY <1>1, <1>7, <1>8, OthersLead
<1> QED
  BY <1>3, <1>9

\* A step that returns the payload it was given.
LEMMA NothingLeads ==
  ASSUME TypeInv, Rollup(checkpoints, run), AtStep(run), NEW flow \in Flows,
         flow # "ok" \/ run.steps[Len(run.flows) + 1] # "prologue",
         checkpoints' = checkpoints, StepReturns(flow, run.current)
  PROVE  Rollup(checkpoints', run')
<1>1. run # NoRun /\ run.current \in Nat
  BY DEF AtStep, RunRecords
<1>2. Led(run) => Begun(checkpoints, run.current)
  BY <1>1 DEF Rollup
<1>3. CASE flow # "ok"
  <2>1. Rollup(checkpoints, run')
    BY <1>1, <1>2, <1>3, LeadsReturn
  <2> QED
    BY <2>1
<1>4. CASE run.steps[Len(run.flows) + 1] # "prologue"
  <2>1. Rollup(checkpoints, run')
    BY <1>1, <1>2, <1>4, OthersLead
  <2> QED
    BY <2>1
<1> QED
  BY <1>3, <1>4

\* One more transaction, behind all others.
LEMMA BroughtBuilt ==
  ASSUME NEW P, Tree(P), NEW c \in DOMAIN P, NEW tx, NEW Q, AddsTx(P, c, tx, Q)
  PROVE  Brought(Q, HistoryOf(Q, Len(Q))) = Brought(P, HistoryOf(P, c)) \o <<tx>>
         /\ Brought(P, HistoryOf(P, c)) \in Seq(TxSet)
<1>1. PICK m \in Mutations : TxsOf(m) = <<tx>> /\ Q = Built(P, c, m)
  BY DEF AddsTx
<1>2. PICK new : new = Len(P) + 1
  OBVIOUS
<1>3. /\ Tree(Q) /\ Len(Q) = new /\ new \in DOMAIN Q
      /\ \A x \in DOMAIN P : x \in DOMAIN Q /\ Q[x] = P[x]
      /\ Q[new].mutation = m
  <2>1. /\ Tree(Q)
        /\ Len(Q) = Len(P) + 1
        /\ Len(P) \in Nat
        /\ DOMAIN Q = 1..(Len(P) + 1)
        /\ \A x \in DOMAIN P : x \in DOMAIN Q /\ Q[x] = P[x]
        /\ Q[Len(P) + 1].mutation = m
    BY <1>1, BuiltIs
  <2> QED
    BY <1>2, <2>1
<1>4. PICK h : h = HistoryOf(P, c)
  OBVIOUS
<1>5. PICK g : g = Append(h, new)
  OBVIOUS
<1>6. g = HistoryOf(Q, new)
  BY <1>1, <1>2, <1>4, <1>5, HistoryBuilt
<1>7. PICK n \in Nat : n = Len(h) /\ h \in Seq(DOMAIN P) /\ DOMAIN h = 1..n /\ \A i \in 1..n : h[i] \in DOMAIN P
  <2>1. h \in Seq(DOMAIN P)
    BY <1>4, HistoryLeads
  <2> QED
    BY <2>1
<1>8. g[n + 1] = new /\ \A i \in 1..n : g[i] = h[i]
  BY <1>5, <1>7
<1>9. InTree(Q, g, n + 1)
  <2>1. \A i \in 1..(n + 1) : i \in 1..n \/ i = n + 1
    BY <1>7
  <2> QED
    BY <1>3, <1>7, <1>8, <2>1 DEF InTree
<1>10. Brings(Q, g, n)
  BY <1>3, <1>9, BroughtNext
<1>11. FirstOf(g, n) = h
  <2>1. h = [i \in 1..n |-> h[i]]
    BY <1>7
  <2> QED
    BY <1>8, <2>1 DEF FirstOf
<1>12. FirstOf(g, n + 1) = g
  <2>1. h \in Seq(DOMAIN Q) /\ Len(h) = n
    <3>1. DOMAIN P \subseteq DOMAIN Q
      BY <1>3
    <3> QED
      BY <1>7, <3>1
  <2>2. g \in Seq(DOMAIN Q) /\ Len(g) = n + 1
    BY <1>3, <1>5, <2>1, AppendProperties
  <2>3. g = [i \in 1..(n + 1) |-> g[i]]
    BY <2>2
  <2> QED
    BY <2>3 DEF FirstOf
<1>13. Brought(Q, h) = Brought(P, h)
  <2>1. [i \in DOMAIN h |-> TxsOf(Q[h[i]].mutation)] = [i \in DOMAIN h |-> TxsOf(P[h[i]].mutation)]
    BY <1>3, <1>7
  <2> QED
    BY <2>1 DEF Brought
<1>14. TxsOf(Q[g[n + 1]].mutation) = <<tx>>
  BY <1>1, <1>3, <1>8
<1>15. Brought(Q, g) = Brought(P, h) \o <<tx>> /\ Brought(P, h) \in Seq(TxSet)
  BY <1>10, <1>11, <1>12, <1>13, <1>14 DEF Brings
<1> QED
  BY <1>3, <1>4, <1>6, <1>15

\* They are transactions.
LEMMA BroughtType ==
  ASSUME NEW P, Tree(P), NEW h \in Seq(DOMAIN P)
  PROVE  Brought(P, h) \in Seq(TxSet)
<1>1. PICK n \in Nat : DOMAIN h = 1..n /\ \A i \in 1..n : h[i] \in DOMAIN P
  OBVIOUS
<1>2. PICK l \in Nat : DOMAIN P = 1..l /\ \A e \in 1..l : P[e].mutation \in Mutations
  BY TreeAt
<1>3. \A i \in 1..n : TxsOf(P[h[i]].mutation) \in Seq(TxSet)
  BY <1>1, <1>2, TxsOfType
<1>4. PICK rs : rs = [i \in 1..n |-> TxsOf(P[h[i]].mutation)]
  OBVIOUS
<1>5. rs \in [1..n -> Seq(TxSet)]
  BY <1>3, <1>4
<1>6. rs \in Seq(Seq(TxSet)) /\ << >> \in Seq(TxSet)
  BY <1>5
<1>7. FlattenSeq(rs) \in Seq(TxSet)
  BY <1>6, FlattenAppend
<1> QED
  BY <1>1, <1>4, <1>7 DEF Brought

\* OptimismPrologue::step
LEMMA PrologueLeads ==
  ASSUME TypeInv, Control(run), Rollup(checkpoints, run), Prologue
  PROVE  Rollup(checkpoints', run')
<1>1. checkpoints' = checkpoints /\ "fail" \in Flows
  BY DEF Prologue, vars, Flows
<1>2. AtStep(run) /\ run # NoRun /\ run.current \in DOMAIN checkpoints /\ Tree(checkpoints)
  BY AtWork DEF Prologue, AtStep, TypeInv, Sound
<1>3. CASE StepReturns("fail", run.current)
  BY <1>1, <1>2, <1>3, NothingLeads
<1>4. CASE /\ ~\E c \in ToSet(history(run.current)) : transactions(c) # << >>
           /\ run' = [run EXCEPT !.pc = "prologue", !.prefix = run.current, !.work = Sequencer]
  <2>1. PICK h : h = HistoryOf(checkpoints, run.current)
    OBVIOUS
  <2>2. h = history(run.current)
    BY <1>2, <2>1, ReadsAre
  <2>3. PICK n \in Nat : DOMAIN h = 1..n
    <3>1. h \in Seq(DOMAIN checkpoints)
      BY <1>2, <2>1, HistoryLeads
    <3> QED
      BY <3>1
  <2>4. \A i \in 1..n : transactions(h[i]) = << >>
    <3>1. \A i \in 1..n : h[i] \in ToSet(h)
      BY <2>3 DEF ToSet
    <3> QED
      BY <1>4, <2>2, <3>1
  <2>5. \A i \in 1..n : TxsOf(checkpoints[h[i]].mutation) = << >>
    BY <2>4 DEF transactions, TxsOf
  <2>6. Brought(checkpoints, h) = << >>
    BY <2>3, <2>5, BroughtNothing
  <2>7. << >> \o Sequencer = Sequencer
    BY SendersAreSenders, ConcatEmptySeq
  <2>8. Brought(checkpoints, HistoryOf(checkpoints, run.current)) \o Sequencer = Sequencer
    BY <2>1, <2>6, <2>7
  <2>9. run' = Goes("prologue", run.current, Sequencer)
    BY <1>4 DEF Goes
  <2>10. Led(run) => Begun(checkpoints, run.current)
    BY <1>2 DEF Rollup
  <2>11. Rollup(checkpoints, run')
    BY <1>2, <2>8, <2>9, <2>10, LeadsGo
  <2> QED
    BY <1>1, <2>11
<1> QED
  BY <1>3, <1>4 DEF Prologue

\* The prologue applies the transactions of the sequencer.
LEMMA ApplySequencerLeads ==
  ASSUME TypeInv, Control(run), Rollup(checkpoints, run), ApplySequencer
  PROVE  Rollup(checkpoints', run')
<1>1. run.pc = "prologue" /\ run.work # << >>
  BY DEF ApplySequencer
<1>2. /\ AtStep(run) /\ run \in RunRecords /\ run.current \in DOMAIN checkpoints /\ run # NoRun
      /\ run.prefix \in DOMAIN checkpoints /\ Sound(checkpoints) /\ Tree(checkpoints)
  BY <1>1, AtWork DEF TypeInv, AtStep, Sound
<1>3. run.work \in Seq(TxSet)
  BY <1>1, <1>2 DEF TypeInv, RunOn, AtStep
<1>4. PICK tx : tx = Head(run.work)
  OBVIOUS
<1>5. tx \in TxSet /\ Tail(run.work) \in Seq(TxSet)
  BY <1>1, <1>3, <1>4
<1>6. PICK on \in DOMAIN checkpoints : on = run.prefix
  BY <1>2
<1>7. PICK o \in Outcomes : \E e \in {execute_transaction(tx, database(on), o)} :
        IF e.error # "none" THEN StepReturns("fail", run.current) /\ UNCHANGED checkpoints
        ELSE /\ checkpoints' = apply_with(on, e.mutation)
             /\ IF Len(Sequencer) - Len(run.work) + 1 > run.gas_limit
                THEN StepReturns("fail", run.current)
                ELSE run' = [run EXCEPT !.prefix = Len(checkpoints'), !.work = Tail(@)]
  BY <1>4, <1>6 DEF ApplySequencer
<1>8. PICK e : e = execute_transaction(tx, database(on), o)
  OBVIOUS
<1>9. IF e.error # "none" THEN StepReturns("fail", run.current) /\ UNCHANGED checkpoints
      ELSE /\ checkpoints' = apply_with(on, e.mutation)
           /\ \/ StepReturns("fail", run.current)
              \/ run' = [run EXCEPT !.prefix = Len(checkpoints'), !.work = Tail(@)]
  BY <1>7, <1>8
<1>10. PICK Q : Q = checkpoints'
  OBVIOUS
<1>11. e.error = "none" => Q = apply_with(on, e.mutation)
  BY <1>9, <1>10
<1>12. e.error = "none" => Grows(checkpoints, Q) /\ AddsTx(checkpoints, on, tx, Q)
  <2>1. e.error = "none" => Grows(checkpoints, Q)
    BY <1>2, <1>5, <1>8, <1>11, TransactionGrows
  <2>2. e.error = "none" => AddsTx(checkpoints, on, tx, Q)
    BY <1>2, <1>5, <1>8, <1>11, TransactionAdds
  <2> QED
    BY <2>1, <2>2
<1>13. Moves
  BY <1>9, <1>10, <1>12 DEF Moves
<1>14. Led(run) => Begun(Q, run.current)
  <2>1. \A d \in DOMAIN checkpoints : Begun(checkpoints, d) => Begun(Q, d)
    BY <1>2, <1>10, <1>13, BegunKept
  <2> QED
    BY <1>2, <2>1 DEF Rollup
<1>15. CASE StepReturns("fail", run.current)
  <2>1. run.current \in Nat /\ "fail" \in Flows
    BY <1>2 DEF RunRecords, Flows
  <2>2. Rollup(Q, run')
    BY <1>2, <1>14, <1>15, <2>1, LeadsReturn
  <2> QED
    BY <1>10, <2>2
<1>16. CASE e.error = "none" /\ run' = [run EXCEPT !.prefix = Len(checkpoints'), !.work = Tail(@)]
  <2>1. PICK k : k = Len(Q)
    OBVIOUS
  <2>2. run' = [run EXCEPT !.prefix = k, !.work = Tail(@)]
    BY <1>10, <1>16, <2>1
  <2>3. PICK rest \in Seq(TxSet) : rest = Tail(run.work)
    BY <1>5
  <2>4. run' = Goes("prologue", k, rest)
    BY <1>1, <1>2, <2>2, <2>3 DEF Goes, RunRecords
  <2>5. PICK first : first = Brought(checkpoints, HistoryOf(checkpoints, on))
    OBVIOUS
  <2>6. first \o run.work = Sequencer
    BY <1>1, <1>2, <1>6, <2>5 DEF Rollup
  <2>7. /\ Brought(Q, HistoryOf(Q, Len(Q))) = Brought(checkpoints, HistoryOf(checkpoints, on)) \o <<tx>>
        /\ Brought(checkpoints, HistoryOf(checkpoints, on)) \in Seq(TxSet)
    BY <1>2, <1>12, <1>16, BroughtBuilt
  <2>8. Brought(Q, HistoryOf(Q, k)) = first \o <<tx>> /\ first \in Seq(TxSet)
    BY <2>1, <2>5, <2>7
  <2>9. PICK one \in Seq(TxSet) : one = <<tx>>
    <3>1. \A t \in TxSet : <<t>> \in Seq(TxSet)
      OBVIOUS
    <3> QED
      BY <1>5, <3>1
  <2>10. run.work = one \o rest
    <3>1. PICK w \in Seq(TxSet) : w = run.work
      BY <1>3
    <3>2. w # << >> /\ tx = Head(w) /\ rest = Tail(w)
      BY <1>1, <1>4, <2>3, <3>1
    <3>3. w = <<tx>> \o rest
      BY <3>2
    <3> QED
      BY <2>9, <3>1, <3>3
  <2>11. (first \o one) \o rest = first \o (one \o rest)
    BY <2>8, Regrouped
  <2>12. Brought(Q, HistoryOf(Q, k)) \o rest = Sequencer
    BY <2>6, <2>8, <2>9, <2>10, <2>11
  <2>13. Rollup(Q, run')
    BY <1>2, <1>14, <2>4, <2>12, LeadsGo
  <2> QED
    BY <1>10, <2>13
<1> QED
  BY <1>9, <1>15, <1>16

\* The first checkpoint is sealed.
LEMMA FirstSeals ==
  ASSUME NEW P, Tree(P), NEW c \in DOMAIN P, Brought(P, HistoryOf(P, c)) = Sequencer
  PROVE  P[c].depth = 0 => Begun(P, c)
<1>1. PICK h : h = HistoryOf(P, c)
  OBVIOUS
<1>2. Len(h) = P[c].depth + 1 /\ h \in Seq(DOMAIN P)
  BY <1>1, HistoryLeads
<1> HAVE P[c].depth = 0
<1>8. Len(h) = 1
  BY <1>2
<1>3. PICK b : b = LastBarrier(P, h)
  OBVIOUS
<1>4. b = 1
  <2>1. b \in 1..Len(h)
    BY <1>1, <1>3, LastBarrierIs
  <2> QED
    BY <1>8, <2>1
<1>5. SealedOf(P, c) = [i \in 1..b |-> h[i]]
  BY <1>1, <1>3, SealedIs
<1>6. h = [i \in 1..1 |-> h[i]]
  BY <1>2, <1>8
<1>7. SealedOf(P, c) = h /\ FirstOf(h, 1) = h /\ 1 \in 0..Len(h)
  BY <1>8, <1>4, <1>5, <1>6 DEF FirstOf
<1> QED
  BY <1>1, <1>7 DEF Begun

\* The prologue ends.
LEMMA EndPrologueLeads ==
  ASSUME TypeInv, Control(run), Rollup(checkpoints, run), EndPrologue
  PROVE  Rollup(checkpoints', run')
<1>1. run.pc = "prologue" /\ run.work = << >>
  BY DEF EndPrologue
<1>2. /\ AtStep(run) /\ run.prefix \in DOMAIN checkpoints /\ Sound(checkpoints) /\ Tree(checkpoints)
      /\ "ok" \in Flows /\ run # NoRun /\ run.prefix \in Nat
  BY <1>1, AtWork DEF TypeInv, Flows, AtStep, Sound, RunRecords
<1>3. PICK c \in DOMAIN checkpoints : c = run.prefix
  BY <1>2
<1>4. PICK h : h = HistoryOf(checkpoints, c)
  OBVIOUS
<1>5. Brought(checkpoints, h) \in Seq(TxSet)
  <2>1. h \in Seq(DOMAIN checkpoints)
    BY <1>2, <1>4, HistoryLeads
  <2> QED
    BY <1>2, <2>1, BroughtType
<1>6. Brought(checkpoints, HistoryOf(checkpoints, c)) = Sequencer
  <2>1. Brought(checkpoints, h) \o << >> = Sequencer
    BY <1>1, <1>2, <1>3, <1>4 DEF Rollup
  <2>2. Brought(checkpoints, h) \o << >> = Brought(checkpoints, h)
    BY <1>5, ConcatEmptySeq
  <2> QED
    BY <1>4, <2>1, <2>2
<1>7. CASE checkpoints' = apply_with(run.prefix, Barrier) /\ StepReturns("ok", Len(checkpoints'))
  <2>1. PICK Q : Q = checkpoints'
    OBVIOUS
  <2>2. Q = Built(checkpoints, c, Barrier)
    BY <1>3, <1>7, <2>1 DEF apply_with, Built, depth
  <2>3. PICK new : new = Len(checkpoints) + 1
    OBVIOUS
  <2>4. Begun(Q, new)
    BY <1>2, <1>6, <2>2, <2>3, BarrierSeals
  <2>5. Barrier \in Mutations
    BY DEF Mutations
  <2>6. Len(Q) = new /\ new \in Nat
    <3>1. Len(Q) = Len(checkpoints) + 1 /\ Len(checkpoints) \in Nat
      BY <1>2, <2>2, <2>5, BuiltIs
    <3> QED
      BY <2>3, <3>1
  <2>7. StepReturns("ok", new)
    BY <1>7, <2>1, <2>6
  <2>8. Rollup(Q, run')
    BY <1>2, <2>4, <2>6, <2>7, LeadsReturn
  <2> QED
    BY <2>1, <2>8
<1>8. CASE depth(run.prefix) <= 0 /\ StepReturns("ok", run.prefix) /\ UNCHANGED checkpoints
  <2>1. checkpoints[c].depth \in Nat
    BY <1>2, TreeAt
  <2>2. checkpoints[c].depth = 0
    BY <1>3, <1>8, <2>1 DEF depth
  <2>3. Begun(checkpoints, c)
    BY <1>2, <1>6, <2>2, FirstSeals
  <2>4. Begun(checkpoints, run.prefix)
    BY <1>3, <2>3
  <2>5. Rollup(checkpoints, run')
    BY <1>2, <1>8, <2>4, LeadsReturn
  <2> QED
    BY <1>8, <2>5
<1>9. depth(run.prefix) \in Nat
  <2>1. checkpoints[c].depth \in Nat
    BY <1>2, TreeAt
  <2> QED
    BY <1>3, <2>1 DEF depth
<1> QED
  BY <1>7, <1>8, <1>9 DEF EndPrologue

\* BuilderEpilogue::step
LEMMA EpilogueLeads ==
  ASSUME TypeInv, Control(run), Rollup(checkpoints, run), NEW required \in BOOLEAN, Epilogue(required)
  PROVE  Rollup(checkpoints', run')
<1>1. /\ AtStep(run) /\ run.current \in DOMAIN checkpoints /\ Sound(checkpoints)
      /\ run.steps[Len(run.flows) + 1] # "prologue"
  BY AtWork DEF Epilogue, TypeInv, Calls
<1>2. PICK tx : tx = builder_tx
  OBVIOUS
<1>3. tx \in TxSet
  BY <1>1, <1>2, BuilderTxType
<1>4. PICK o \in Outcomes : \E e \in {execute_transaction(tx, database(run.current), o)} :
        IF e.error # "none"
        THEN /\ StepReturns(IF required THEN "fail" ELSE "ok", run.current)
             /\ UNCHANGED checkpoints
        ELSE /\ checkpoints' = apply_with(run.current, e.mutation)
             /\ StepReturns("ok", Len(checkpoints'))
  BY <1>2 DEF Epilogue
<1>5. PICK e : e = execute_transaction(tx, database(run.current), o)
  OBVIOUS
<1>6. CASE e.error # "none"
  <2>1. PICK flow \in Flows : flow = IF required THEN "fail" ELSE "ok"
    BY DEF Flows
  <2>2. StepReturns(flow, run.current) /\ checkpoints' = checkpoints
    BY <1>4, <1>5, <1>6, <2>1
  <2> QED
    BY <1>1, <2>2, NothingLeads
<1>7. CASE e.error = "none"
  <2>1. checkpoints' = apply_with(run.current, e.mutation) /\ StepReturns("ok", Len(checkpoints'))
    BY <1>4, <1>5, <1>7
  <2> QED
    BY <1>1, <1>3, <1>5, <1>7, <2>1, OneTransactionLeads
<1> QED
  BY <1>6, <1>7

\* A score that fails, and AppendOrders::step
LEMMA AppendLeads ==
  ASSUME TypeInv, Control(run), Rollup(checkpoints, run),
         ScoreFails \/ AppendNothing \/ \E tx \in Transactions : AppendOrder(tx)
  PROVE  Rollup(checkpoints', run')
<1>1. /\ AtStep(run) /\ run.current \in DOMAIN checkpoints /\ Sound(checkpoints)
      /\ run.steps[Len(run.flows) + 1] # "prologue"
  BY AtWork DEF ScoreFails, AppendNothing, AppendOrder, TypeInv, Calls
<1>2. CASE ScoreFails \/ AppendNothing
  <2>1. PICK flow \in Flows : StepReturns(flow, run.current)
    BY <1>2 DEF ScoreFails, AppendNothing, Flows
  <2>2. checkpoints' = checkpoints
    BY <1>2 DEF ScoreFails, AppendNothing, vars
  <2> QED
    BY <1>1, <2>1, <2>2, NothingLeads
<1>3. ASSUME NEW tx \in Transactions, AppendOrder(tx) PROVE Rollup(checkpoints', run')
  <2>1. PICK o \in Outcomes : \E e \in {execute_transaction(tx, database(run.current), o)} :
          /\ e.error = "none"
          /\ checkpoints' = apply_with(run.current, e.mutation)
    BY <1>3 DEF AppendOrder
  <2>2. PICK e : e = execute_transaction(tx, database(run.current), o)
    OBVIOUS
  <2>3. e.error = "none" /\ checkpoints' = apply_with(run.current, e.mutation)
    BY <2>1, <2>2
  <2>4. StepReturns("ok", Len(checkpoints'))
    BY <1>3 DEF AppendOrder
  <2>5. tx \in TxSet
    BY OrdersAreOrders
  <2> QED
    BY <1>1, <2>2, <2>3, <2>4, <2>5, OneTransactionLeads
<1> QED
  BY <1>2, <1>3

\* Combinators start, and end.
LEMMA CombinatorLeads ==
  ASSUME TypeInv, Control(run), Rollup(checkpoints, run),
         \/ \E c \in Combinators, limit \in GasLimits : Start(c, limit)
         \/ DeadlineReached \/ Finish \/ EndOneStep
  PROVE  Rollup(checkpoints', run')
<1>1. checkpoints' = checkpoints
  BY DEF Start, DeadlineReached, Finish, EndOneStep, vars
<1>2. ASSUME NEW c \in Combinators, NEW limit \in GasLimits, Start(c, limit)
      PROVE  Rollup(checkpoints', run')
  <2>1. run'.flows = << >> /\ run'.pc = "between"
    BY <1>2 DEF Start
  <2> QED
    BY <2>1 DEF Rollup, Led
<1>3. ASSUME run \in RunRecords, run # NoRun, run.pc # "ok",
             run'.kind = run.kind, run'.steps = run.steps, run'.flows = run.flows,
             run'.initial = run.initial, run'.current = run.current,
             run'.pc \notin {"ordering", "prologue"}
      PROVE  Rollup(checkpoints', run')
  <2>1. Led(run') => Led(run)
    BY <1>3 DEF Led
  <2>2. Led(run) => Begun(checkpoints, run.current)
    BY <1>3 DEF Rollup
  <2> QED
    BY <1>1, <1>3, <2>1, <2>2 DEF Rollup
<1>4. ASSUME run.pc \in {"between", "recording"}
      PROVE  run \in RunRecords /\ run # NoRun /\ run.pc # "ok" /\ run.current \in Nat /\ run.initial \in Nat
  <2>1. run # NoRun
    BY <1>4 DEF NoRun
  <2> QED
    BY <1>4, <2>1 DEF TypeInv, RunOn, RunRecords
<1>5. CASE DeadlineReached
  <2>1. run \in RunRecords /\ run # NoRun /\ run.pc # "ok" /\ run.current \in Nat /\ run.initial \in Nat
    BY <1>4, <1>5 DEF DeadlineReached
  <2>2. CASE run.kind = "atomic"
    <3>1. run' = returned("ok", run.initial)
      BY <1>5, <2>2 DEF DeadlineReached
    <3>2. run'.kind = "atomic" /\ run'.pc = "ok" /\ run'.current = run.initial /\ run'.initial = run.initial
      BY <2>1, <2>2, <3>1, EndedIs
    <3> QED
      BY <3>2 DEF Rollup, Led
  <2>3. CASE run.kind # "atomic"
    <3>1. run' = returned("break", run.current)
      BY <1>5, <2>3 DEF DeadlineReached
    <3>2. /\ run'.kind = run.kind /\ run'.steps = run.steps /\ run'.flows = run.flows /\ run'.pc = "break"
          /\ run'.initial = run.initial /\ run'.current = run.current
      BY <2>1, <3>1, EndedIs
    <3> QED
      BY <1>3, <2>1, <3>2
  <2> QED
    BY <2>2, <2>3
<1>6. CASE Finish
  <2>1. run \in RunRecords /\ run # NoRun /\ run.pc # "ok" /\ run.current \in Nat /\ run.initial \in Nat
    BY <1>4, <1>6 DEF Finish
  <2>2. run' = returned("ok", run.current)
    BY <1>6 DEF Finish
  <2>3. /\ run'.kind = run.kind /\ run'.steps = run.steps /\ run'.flows = run.flows /\ run'.pc = "ok"
        /\ run'.initial = run.initial /\ run'.current = run.current
    BY <2>1, <2>2, EndedIs
  <2> QED
    BY <1>3, <2>1, <2>3
<1>7. CASE EndOneStep
  <2>1. run \in RunRecords /\ run # NoRun /\ run.pc # "ok"
    BY <1>4, <1>7 DEF EndOneStep
  <2>2. PICK recorded : run' = [run EXCEPT !.pc = reported(recorded)]
    BY <1>7 DEF EndOneStep
  <2>3. reported(recorded) \notin {"ordering", "prologue"}
    BY DEF reported
  <2>4. /\ run'.kind = run.kind /\ run'.steps = run.steps /\ run'.flows = run.flows
        /\ run'.initial = run.initial /\ run'.current = run.current /\ run'.pc = reported(recorded)
    BY <2>1, <2>2 DEF RunRecords
  <2> QED
    BY <1>3, <2>1, <2>3, <2>4
<1> QED
  BY <1>2, <1>5, <1>6, <1>7

\* Every step, whoever takes it.
LEMMA EveryStepLeads ==
  ASSUME IInv, Rollup(checkpoints, run), StepsNext
  PROVE  Rollup(checkpoints', run')
<1>1. TypeInv /\ Control(run)
  BY DEF IInv
<1>2. CASE ~Running /\ UNCHANGED run
  <2>1. run = NoRun
    BY <1>1, <1>2 DEF Running, TypeInv, RunOn, RunRecords
  <2> QED
    BY <1>2, <2>1 DEF Rollup
<1>3. CASE \/ \E c \in Combinators, limit \in GasLimits : Start(c, limit)
           \/ DeadlineReached \/ Finish \/ EndOneStep
  BY <1>1, <1>3, CombinatorLeads
<1>4. CASE OrderBy
  BY <1>1, <1>4, OrderByLeads
<1>5. CASE ApplyOrdered
  BY <1>1, <1>5, ApplyOrderedLeads
<1>6. CASE EndOrderBy
  BY <1>1, <1>6, EndOrderByLeads
<1>7. CASE Prologue
  BY <1>1, <1>7, PrologueLeads
<1>8. CASE ApplySequencer
  BY <1>1, <1>8, ApplySequencerLeads
<1>9. CASE EndPrologue
  BY <1>1, <1>9, EndPrologueLeads
<1>10. ASSUME NEW required \in BOOLEAN, Epilogue(required) PROVE Rollup(checkpoints', run')
  BY <1>1, <1>10, EpilogueLeads
<1>11. CASE ScoreFails \/ AppendNothing \/ \E tx \in Transactions : AppendOrder(tx)
  BY <1>1, <1>11, AppendLeads
<1> QED
  BY <1>2, <1>3, <1>4, <1>5, <1>6, <1>7, <1>8, <1>9, <1>10, <1>11 DEF StepsNext

\* What begins with the sequencer's transactions goes on with others.
LEMMA BegunIs ==
  ASSUME NEW P, Tree(P), NEW c \in DOMAIN P, Begun(P, c)
  PROVE  \E rest \in Seq(TxSet) : Brought(P, HistoryOf(P, c)) = Sequencer \o rest
<1>1. PICK h : h = HistoryOf(P, c)
  OBVIOUS
<1>2. PICK b : b = LastBarrier(P, h)
  OBVIOUS
<1>3. PICK n \in Nat : n = Len(h) /\ h \in Seq(DOMAIN P) /\ \A i \in 1..n : h[i] \in DOMAIN P
  <2>1. h \in Seq(DOMAIN P)
    BY <1>1, HistoryLeads
  <2> QED
    BY <2>1
<1>4. b \in 1..n
  BY <1>1, <1>2, <1>3, LastBarrierIs
<1>5. PICK s : s = SealedOf(P, c)
  OBVIOUS
<1>6. s = [i \in 1..b |-> h[i]]
  BY <1>1, <1>2, <1>5, SealedIs
<1>7. b \in Nat /\ (\A i \in 1..b : i \in 1..n) /\ s \in [1..b -> DOMAIN P]
  BY <1>3, <1>4, <1>6
<1>8. Len(s) = b
  BY <1>7
<1>9. PICK k \in 0..b : Brought(P, FirstOf(s, k)) = Sequencer
  BY <1>5, <1>8 DEF Begun
<1>10. FirstOf(s, k) = FirstOf(h, k)
  <2>1. \A i \in 1..k : i \in 1..b /\ s[i] = h[i]
    BY <1>6, <1>7, <1>9
  <2> QED
    BY <2>1 DEF FirstOf
<1>11. k \in 0..n
  BY <1>4, <1>7, <1>9
<1>12. PICK first : first = Sequencer
  OBVIOUS
<1>13. first = Brought(P, FirstOf(h, k)) /\ first \in Seq(TxSet)
  BY <1>9, <1>10, <1>12, SendersAreSenders
<1>14. BeginsWith(P, h, n, first)
  <2>1. InTree(P, h, n)
    BY <1>3 DEF InTree
  <2> QED
    BY <1>11, <1>13, <2>1, BroughtBegins
<1>15. FirstOf(h, n) = h
  BY <1>3 DEF FirstOf
<1> QED
  BY <1>1, <1>12, <1>14, <1>15 DEF BeginsWith

\* As many transactions as the sequencer has are left out, and added again.
LEMMA SequencerFirst ==
  ASSUME NEW c, NEW rest \in Seq(TxSet), payload_transactions(c) = Sequencer \o rest
  PROVE  Sequencer \o extract_external_txs(c) = payload_transactions(c)
<1>1. PICK q \in Seq(TxSet) : q = Sequencer
  BY SendersAreSenders
<1>2. PICK txs \in Seq(TxSet) : txs = q \o rest
  BY ConcatProperties
<1>3. txs = payload_transactions(c)
  BY <1>1, <1>2
<1>4. PICK k \in Nat, l \in Nat : k = Len(q) /\ l = Len(rest)
  OBVIOUS
<1>5. /\ Len(txs) = k + l
      /\ \A i \in 1..(k + l) : txs[i] = IF i <= k THEN q[i] ELSE rest[i - k]
  BY <1>2, <1>4, ConcatProperties
<1>6. DOMAIN q = 1..k /\ DOMAIN txs = 1..(k + l)
  BY <1>4, <1>5
<1>7. {i \in DOMAIN Sequencer \cap DOMAIN txs : txs[i] = Sequencer[i]} = 1..k
  <2>1. \A i \in 1..k : i \in 1..(k + l) /\ i <= k
    BY <1>4
  <2>2. \A i \in 1..k : txs[i] = q[i]
    BY <1>5, <2>1
  <2>3. {i \in DOMAIN q \cap DOMAIN txs : txs[i] = q[i]} = 1..k
    BY <1>6, <2>1, <2>2
  <2> QED
    BY <1>1, <2>3
<1>8. Cardinality(1..k) = k
  <2> HIDE <1>4
  <2> QED
    BY FS_Interval
<1>9. extract_external_txs(c) = SubSeq(txs, k + 1, Len(txs))
  BY <1>3, <1>7, <1>8 DEF extract_external_txs
<1>10. SubSeq(txs, k + 1, k + l) = rest
  <2>1. PICK s : s = SubSeq(txs, k + 1, k + l)
    OBVIOUS
  <2>2. s \in Seq(TxSet)
    <3>1. \A i \in (k + 1)..(k + l) : i \in 1..Len(txs)
      BY <1>4, <1>5
    <3> QED
      BY <2>1, <3>1, SubSeqProperties
  <2>3. Len(s) = l
    BY <1>4, <2>1
  <2>4. ASSUME NEW i \in 1..l PROVE s[i] = rest[i]
    <3>1. s[i] = txs[k + 1 + i - 1]
      BY <1>4, <2>1
    <3>2. k + 1 + i - 1 = k + i /\ k + i \in 1..(k + l) /\ ~(k + i <= k) /\ (k + i) - k = i
      BY <1>4
    <3>3. txs[k + i] = rest[(k + i) - k]
      BY <1>5, <3>2
    <3> QED
      BY <3>1, <3>2, <3>3
  <2>5. rest \in Seq(TxSet) /\ Len(rest) = l
    BY <1>4
  <2>6. s = rest
    BY <2>2, <2>3, <2>4, <2>5
  <2> QED
    BY <2>1, <2>6
<1>11. extract_external_txs(c) = rest
  BY <1>5, <1>9, <1>10
<1> QED
  BY <1>11

\* The block of a rollup has exactly the transactions of the payload when the first step of
\* its combinator was the prologue, which Atomic has not taken back, for every payload that
\* has no bundle with an optional transaction twice and that the builder has room for.
THEOREM BlocksCorrect == StepsSpec => []BlockIsThePayload
<1>1. StepsInit => Rollup(checkpoints, run)
  BY DEF StepsInit, Rollup
<1>2. IInv /\ Rollup(checkpoints, run) /\ [StepsNext]_stepVars => Rollup(checkpoints, run)'
  <2>1. ASSUME IInv, Rollup(checkpoints, run), StepsNext PROVE Rollup(checkpoints', run')
    BY <2>1, EveryStepLeads
  <2>2. ASSUME Rollup(checkpoints, run), UNCHANGED stepVars PROVE Rollup(checkpoints', run')
    BY <2>2 DEF stepVars, vars
  <2> QED
    BY <2>1, <2>2
<1>3. ASSUME IInv, NEW c \in DOMAIN checkpoints, OnceIn(c)
      PROVE  OptimismBlock(NoBlock, payload_transactions(c)).txs = payload_transactions(c)
  <2>1. Sound(checkpoints) /\ Tree(checkpoints)
    BY <1>3 DEF IInv, TypeInv, Sound
  <2>2. PICK all : all = executed(c)
    OBVIOUS
  <2>3. payload_transactions(c) = SentIn(all) /\ all \in Seq(ResultSet)
    BY <1>3, <2>1, <2>2, PayloadAligned
  <2>4. executed(c) = ResultsOf(checkpoints, c)
    BY <2>1, ReadsAre
  <2>5. NoncesFollow(all)
    BY <2>1, <2>2, <2>4 DEF Sound, SoundAt, Follows
  <2>6. PICK txs : txs = payload_transactions(c)
    OBVIOUS
  <2>7. OptimismBlock(NoBlock, txs).txs = txs
    BY <2>3, <2>5, <2>6, BlockIs
  <2> QED
    BY <2>6, <2>7
<1>4. IInv /\ Rollup(checkpoints, run) => BlockIsThePayload
  <2> SUFFICES ASSUME IInv, Rollup(checkpoints, run) PROVE BlockIsThePayload
    OBVIOUS
  <2>2. ASSUME Running, run.flows # << >>, Head(run.steps) = "prologue", Head(run.flows) = "ok",
               run.kind # "atomic" \/ run.current # run.initial, OnceIn(run.current)
        PROVE  build_optimism(run.current) = payload_transactions(run.current)
    <3>1. run # NoRun /\ run.current \in DOMAIN checkpoints /\ Tree(checkpoints)
      BY <2>2 DEF Running, NoRun, IInv, TypeInv, RunOn, Sound
    <3>2. Led(run)
      BY <2>2 DEF Led
    <3>3. PICK c \in DOMAIN checkpoints : c = run.current
      BY <3>1
    <3>4. Begun(checkpoints, c)
      BY <3>1, <3>2, <3>3 DEF Rollup
    <3>5. PICK rest \in Seq(TxSet) : Brought(checkpoints, HistoryOf(checkpoints, c)) = Sequencer \o rest
      BY <3>1, <3>4, BegunIs
    <3>6. payload_transactions(c) = Brought(checkpoints, HistoryOf(checkpoints, c))
      <4>1. history(c) = HistoryOf(checkpoints, c)
        BY <3>1, ReadsAre
      <4>2. \A e : transactions(e) = TxsOf(checkpoints[e].mutation)
        BY DEF transactions, TxsOf
      <4> QED
        BY <4>1, <4>2 DEF payload_transactions, Brought
    <3>7. Sequencer \o extract_external_txs(c) = payload_transactions(c)
      BY <3>5, <3>6, SequencerFirst
    <3>8. build_optimism(c) = OptimismBlock(NoBlock, Sequencer \o extract_external_txs(c)).txs
      BY Zenon DEF build_optimism, OptimismBlock
    <3>9. build_optimism(c) = payload_transactions(c)
      BY <1>3, <2>2, <3>3, <3>7, <3>8
    <3> QED
      BY <3>3, <3>9
  <2> QED
    BY <2>2 DEF BlockIsThePayload
<1> QED
  BY <1>1, <1>2, <1>4, Invariance, PTL DEF StepsSpec

(***************************************************************************)
(* What OrderBy makes of a payload                                         *)
(***************************************************************************)

\* Of two transactions of one signer the later one has the higher nonce.
LEMMA NoncesAscend ==
  ASSUME NEW all \in Seq(ResultSet), NoncesFollow(all), NEW p \in DOMAIN all, NEW q \in DOMAIN all,
         p < q, all[p].tx.signer = all[q].tx.signer
  PROVE  all[p].tx.nonce < all[q].tx.nonce
<1>1. PICK n \in Nat : DOMAIN all = 1..n
  OBVIOUS
<1>2. PICK a : a = all[q].tx.signer
  OBVIOUS
<1>3. Base[a].info \in Nat
  <2>1. all[q] \in ResultSet
    OBVIOUS
  <2>2. a \in Addresses
    BY <1>2, <2>1, SignersAreAccounts DEF ResultSet, TxSet
  <2> QED
    BY <2>2, BaseIsState
<1>4. PICK k \in Nat : p = k + 1 /\ k = p - 1
  BY <1>1
<1>5. q - 1 \in Nat /\ \A j \in 1..(k + 1) : j \in 1..(q - 1)
  BY <1>1, <1>4
<1>6. SentBy(all, k + 1, a) \in SUBSET SentBy(all, q - 1, a)
  BY <1>5 DEF SentBy
<1>7. IsFiniteSet(SentBy(all, q - 1, a)) /\ Cardinality(SentBy(all, q - 1, a)) \in Nat
  BY <1>5, SentByFinite
<1>8. Cardinality(SentBy(all, k, a)) \in Nat
  BY SentByFinite
<1>9. Cardinality(SentBy(all, k + 1, a)) = Cardinality(SentBy(all, k, a)) + 1
  BY <1>2, <1>4, SentByNext
<1>10. Cardinality(SentBy(all, k + 1, a)) <= Cardinality(SentBy(all, q - 1, a))
  BY <1>6, <1>7, FS_Subset
<1>11. /\ all[p].tx.nonce = Base[a].info + Cardinality(SentBy(all, k, a))
       /\ all[q].tx.nonce = Base[a].info + Cardinality(SentBy(all, q - 1, a))
  BY <1>2, <1>4 DEF NoncesFollow
<1> QED
  BY <1>3, <1>7, <1>8, <1>9, <1>10, <1>11

\* A transaction that comes behind the ones before, and is one of those after.
Between(all, before, after, tx) ==
  /\ all \in Seq(TxSet) /\ before \in Seq(TxSet) /\ after \in Seq(TxSet)
  /\ \E p \in DOMAIN all : all[p] = tx /\ Len(before) < p /\ p <= Len(after)

\* Where a checkpoint of a history brings its transactions to.
LEMMA BroughtAt ==
  ASSUME NEW P, Tree(P), NEW n \in Nat, NEW h, InTree(P, h, n), NEW i \in 1..n,
         NEW txs, txs = TxsOf(P[h[i]].mutation), NEW x \in DOMAIN txs,
         NEW all, all = Brought(P, FirstOf(h, n)),
         NEW before, before = Brought(P, FirstOf(h, i - 1)),
         NEW after, after = Brought(P, FirstOf(h, i))
  PROVE  Between(all, before, after, txs[x])
<1>1. PICK k \in Nat : i = k + 1 /\ k = i - 1
  OBVIOUS
<1>2. InTree(P, h, k + 1)
  BY <1>1 DEF InTree
<1>3. Brings(P, h, k)
  BY <1>2, BroughtNext
<1>4. txs \in Seq(TxSet) /\ before \in Seq(TxSet) /\ after = before \o txs
  BY <1>1, <1>3 DEF Brings
<1>5. after \in Seq(TxSet)
  BY <1>4, ConcatProperties
<1>6. BeginsWith(P, h, n, after)
  BY <1>1, <1>5, BroughtBegins
<1>7. PICK rest \in Seq(TxSet) : all = after \o rest
  BY <1>6 DEF BeginsWith
<1>8. all \in Seq(TxSet)
  BY <1>5, <1>7, ConcatProperties
<1>9. PICK b \in Nat, t \in Nat, r \in Nat : b = Len(before) /\ t = Len(txs) /\ r = Len(rest)
  BY <1>4
<1>10. x \in 1..t
  BY <1>4, <1>9
<1>11. Len(after) = b + t /\ \A j \in 1..(b + t) : after[j] = IF j <= b THEN before[j] ELSE txs[j - b]
  BY <1>4, <1>9
<1>12. Len(all) = b + t + r /\ DOMAIN all = 1..(b + t + r) /\ \A j \in 1..(b + t) : all[j] = after[j]
  <2>1. all \in Seq(TxSet) /\ Len(all) = Len(after) + Len(rest) /\ \A j \in 1..Len(after) : all[j] = after[j]
    BY <1>5, <1>7, <1>8
  <2>2. Len(all) = b + t + r
    BY <1>9, <1>11, <2>1
  <2>3. DOMAIN all = 1..Len(all)
    BY <2>1
  <2> QED
    BY <1>11, <2>1, <2>2, <2>3
<1>13. PICK p \in Nat : p = b + x /\ p \in 1..(b + t) /\ p \in 1..(b + t + r) /\ ~(p <= b) /\ p - b = x
  <2>1. \A y \in 1..t : /\ b + y \in Nat /\ b + y \in 1..(b + t) /\ b + y \in 1..(b + t + r)
                       /\ ~(b + y <= b) /\ (b + y) - b = y
    OBVIOUS
  <2> QED
    BY <1>10, <2>1, Zenon
<1>14. all[p] = txs[x]
  BY <1>11, <1>12, <1>13
<1>15. p \in DOMAIN all /\ Len(before) < p /\ p <= Len(after)
  BY <1>9, <1>11, <1>12, <1>13
<1> QED
  BY <1>4, <1>5, <1>8, <1>14, <1>15 DEF Between

\* nonces, of a mutation.
NoncesOf(m) == {<<tx.signer, tx.nonce>> : tx \in ToSet(TxsOf(m))}

\* These are the nonces of the model.
LEMMA NoncesAre ==
  ASSUME Tree(checkpoints), NEW c \in DOMAIN checkpoints
  PROVE  /\ nonces(c) = NoncesOf(checkpoints[c].mutation)
         /\ transactions(c) = TxsOf(checkpoints[c].mutation)
         /\ transactions(c) \in Seq(TxSet)
         /\ \A m \in nonces(c) : \E x \in DOMAIN transactions(c) :
              m = <<transactions(c)[x].signer, transactions(c)[x].nonce>>
         /\ \A m \in nonces(c) : m[2] \in Nat
<1>1. transactions(c) = TxsOf(checkpoints[c].mutation)
  BY DEF transactions, TxsOf
<1>2. checkpoints[c].mutation \in Mutations
  BY TreeAt
<1>3. transactions(c) \in Seq(TxSet)
  BY <1>1, <1>2, TxsOfType
<1>4. nonces(c) = NoncesOf(checkpoints[c].mutation)
  BY <1>1 DEF nonces, NoncesOf
<1>5. \A m \in nonces(c) : \E x \in DOMAIN transactions(c) :
        m = <<transactions(c)[x].signer, transactions(c)[x].nonce>>
  BY DEF nonces, ToSet
<1>6. \A x \in DOMAIN transactions(c) : transactions(c)[x].nonce \in Nat
  BY <1>3 DEF TxSet
<1>7. \A m \in nonces(c) : m[2] \in Nat
  BY <1>5, <1>6
<1> QED
  BY <1>1, <1>3, <1>4, <1>5, <1>7

\* Along a history the nonces of a signer ascend from order to order.
LEMMA HistoryAscends ==
  ASSUME Sound(checkpoints), NEW c \in DOMAIN checkpoints, OnceIn(c),
         NEW h, h = HistoryOf(checkpoints, c), NEW i \in DOMAIN h, NEW j \in DOMAIN h, i < j,
         NEW m \in nonces(h[i]), NEW n \in nonces(h[j]), m[1] = n[1]
  PROVE  m[2] < n[2]
<1>1. Tree(checkpoints)
  BY DEF Sound
<1>2. PICK len \in Nat : DOMAIN h = 1..len /\ InTree(checkpoints, h, len)
  <2>1. h \in Seq(DOMAIN checkpoints)
    BY <1>1, HistoryLeads
  <2>2. PICK len \in Nat : DOMAIN h = 1..len
    BY <2>1
  <2> QED
    BY <2>1, <2>2 DEF InTree
<1>3. PICK txs : txs = transactions(h[i])
  OBVIOUS
<1>4. PICK more : more = transactions(h[j])
  OBVIOUS
<1>5. h[i] \in DOMAIN checkpoints /\ h[j] \in DOMAIN checkpoints /\ i \in 1..len /\ j \in 1..len
  BY <1>2 DEF InTree
<1>6. PICK x \in DOMAIN txs : m = <<txs[x].signer, txs[x].nonce>>
  BY <1>1, <1>3, <1>5, NoncesAre
<1>7. PICK y \in DOMAIN more : n = <<more[y].signer, more[y].nonce>>
  BY <1>1, <1>4, <1>5, NoncesAre
<1>8. txs = TxsOf(checkpoints[h[i]].mutation) /\ more = TxsOf(checkpoints[h[j]].mutation)
  BY <1>1, <1>3, <1>4, <1>5, NoncesAre
<1>9. PICK all : all = Brought(checkpoints, FirstOf(h, len))
  OBVIOUS
<1>10. PICK mid : mid = Brought(checkpoints, FirstOf(h, i))
  OBVIOUS
<1>11. PICK late : late = Brought(checkpoints, FirstOf(h, j - 1))
  OBVIOUS
<1>12. /\ all \in Seq(TxSet) /\ mid \in Seq(TxSet)
       /\ \E p \in DOMAIN all : all[p] = txs[x] /\ p <= Len(mid)
  <2>1. PICK early : early = Brought(checkpoints, FirstOf(h, i - 1))
    OBVIOUS
  <2>2. Between(all, early, mid, txs[x])
    BY <1>1, <1>2, <1>5, <1>8, <1>9, <1>10, <2>1, BroughtAt
  <2> QED
    BY <2>2 DEF Between
<1>13. /\ late \in Seq(TxSet)
       /\ \E q \in DOMAIN all : all[q] = more[y] /\ Len(late) < q
  <2>1. PICK end : end = Brought(checkpoints, FirstOf(h, j))
    OBVIOUS
  <2>2. Between(all, late, end, more[y])
    BY <1>1, <1>2, <1>5, <1>8, <1>9, <1>11, <2>1, BroughtAt
  <2> QED
    BY <2>2 DEF Between
<1>14. Len(mid) <= Len(late)
  <2>1. j - 1 \in Nat /\ i \in 0..(j - 1) /\ InTree(checkpoints, h, j - 1)
    BY <1>2, <1>5 DEF InTree
  <2>2. BeginsWith(checkpoints, h, j - 1, mid)
    BY <1>1, <1>10, <1>12, <2>1, BroughtBegins
  <2>3. PICK rest \in Seq(TxSet) : late = mid \o rest
    BY <1>11, <2>2 DEF BeginsWith
  <2>4. Len(late) = Len(mid) + Len(rest) /\ Len(rest) \in Nat /\ Len(mid) \in Nat
    BY <1>12, <2>3
  <2> QED
    BY <2>4
<1>15. PICK p \in DOMAIN all : all[p] = txs[x] /\ p <= Len(mid)
  BY <1>12
<1>16. PICK q \in DOMAIN all : all[q] = more[y] /\ Len(late) < q
  BY <1>13
<1>17. p < q
  <2>1. Len(mid) \in Nat /\ Len(late) \in Nat /\ p \in Nat /\ q \in Nat
    BY <1>12, <1>13
  <2> QED
    BY <1>14, <1>15, <1>16, <2>1
<1>18. PICK done : done = executed(c)
  OBVIOUS
<1>19. all = SentIn(done) /\ done \in Seq(ResultSet) /\ NoncesFollow(done)
  <2>1. payload_transactions(c) = SentIn(done) /\ done \in Seq(ResultSet)
    BY <1>18, PayloadAligned
  <2>2. done = ResultsOf(checkpoints, c) /\ history(c) = h
    BY <1>1, <1>18, ReadsAre
  <2>3. NoncesFollow(done)
    BY <2>2 DEF Sound, SoundAt, Follows
  <2>4. FirstOf(h, len) = h
    <3>1. h \in Seq(DOMAIN checkpoints)
      BY <1>1, HistoryLeads
    <3> QED
      BY <1>2, <3>1 DEF FirstOf
  <2>5. \A e : transactions(e) = TxsOf(checkpoints[e].mutation)
    BY DEF transactions, TxsOf
  <2>6. payload_transactions(c) = all
    BY <1>9, <2>2, <2>4, <2>5 DEF payload_transactions, Brought
  <2> QED
    BY <2>1, <2>3, <2>6
<1>20. /\ DOMAIN all = DOMAIN done
       /\ done[p].tx = txs[x] /\ done[q].tx = more[y]
  BY <1>15, <1>16, <1>19 DEF SentIn
<1>21. done[p].tx.signer = done[q].tx.signer
  BY <1>6, <1>7, <1>20
<1>22. done[p].tx.nonce < done[q].tx.nonce
  BY <1>17, <1>19, <1>20, <1>21, NoncesAscend
<1> QED
  BY <1>6, <1>7, <1>20, <1>22

(***************************************************************************)
(* Sorting                                                                 *)
(***************************************************************************)

\* Nonces ascend with the depth of orders, and no order has two of one signer.
Ascending(O) ==
  /\ \A c \in O : c \in DOMAIN checkpoints /\ depth(c) \in Nat
  /\ \A c, d \in O : c # d => depth(c) # depth(d)
  /\ \A c, d \in O : depth(c) < depth(d) =>
       \A m \in nonces(c), n \in nonces(d) : m[1] = n[1] => m[2] < n[2]
  /\ \A c \in O : \A m, n \in nonces(c) : m[1] = n[1] => m[2] = n[2]

NoncesIn(L) == UNION {nonces(c) : c \in L}

\* An order that is applied after some of these orders: a nonce of theirs is lower.
Waits(c, others) ==
  \E d \in others \ {c} : \E n \in nonces(c), m \in nonces(d) : n[1] = m[1] /\ m[2] < n[2]

\* An order that may come before all others, and the best of those that may.
Placed(first, rest) ==
  /\ ~Waits(first, rest)
  /\ \A c \in rest : score(c) > score(first) => Waits(c, rest)

\* A score is a number.
LEMMA ScoreIs ==
  ASSUME Tree(checkpoints), NEW c \in DOMAIN checkpoints
  PROVE  score(c) \in Nat
<1>1. transactions(c) \in Seq(TxSet)
  BY NoncesAre
<1>2. PICK n \in Nat : DOMAIN transactions(c) = 1..n
  BY <1>1
<1>3. TipSum(0, transactions(c)) \in Nat
  BY <1>2, ScoreType
<1> QED
  BY <1>3 DEF score, TipSum

\* The first of some orders in the payload waits for none of them.
LEMMA FirstIsReady ==
  ASSUME Tree(checkpoints), NEW O, Ascending(O), NEW L \in SUBSET O, L # {}
  PROVE  ready(L, NoncesIn(L)) # {}
<1> DEFINE D == {depth(c) : c \in L}
<1>1. D \in SUBSET Nat /\ D # {}
  BY DEF Ascending
<1>2. PICK x \in D : \A y \in D : x <= y
  <2> HIDE DEF D
  <2> QED
    BY <1>1, LeastNat
<1>3. PICK c \in L : depth(c) = x
  BY <1>2
<1>4. \A d \in L : depth(c) <= depth(d)
  BY <1>2, <1>3
<1>5. ASSUME NEW n \in nonces(c), NEW m \in NoncesIn(L), m[1] = n[1], m[2] < n[2] PROVE FALSE
  <2>1. PICK d \in L : m \in nonces(d)
    BY DEF NoncesIn
  <2>2. c \in DOMAIN checkpoints /\ d \in DOMAIN checkpoints /\ depth(c) \in Nat /\ depth(d) \in Nat
    BY DEF Ascending
  <2>3. n[2] \in Nat /\ m[2] \in Nat
    BY <2>1, <2>2, NoncesAre
  <2>4. CASE c = d
    <3>1. m[2] = n[2]
      BY <1>5, <2>1, <2>4 DEF Ascending
    <3> QED
      BY <1>5, <2>3, <3>1
  <2>5. CASE c # d
    <3>1. depth(c) < depth(d)
      BY <1>4, <2>2, <2>5 DEF Ascending
    <3>2. n[2] < m[2]
      BY <1>5, <2>1, <3>1 DEF Ascending
    <3> QED
      BY <1>5, <2>3, <3>2
  <2> QED
    BY <2>4, <2>5
<1>6. c \in ready(L, NoncesIn(L))
  BY <1>5 DEF ready
<1> QED
  BY <1>6

\* What is popped is in its place, and its nonces are those that go.
LEMMA PopPlaces ==
  ASSUME Tree(checkpoints), NEW O, Ascending(O), NEW L \in SUBSET O,
         NEW ripe, ripe = ready(L, NoncesIn(L)), NEW best \in ripe,
         \A d \in ripe : score(d) <= score(best)
  PROVE  /\ Placed(best, L)
         /\ NoncesIn(L) \ nonces(best) = NoncesIn(L \ {best})
<1>1. best \in L /\ best \in O
  BY DEF ready
<1>2. ~Waits(best, L)
  <2> SUFFICES ASSUME Waits(best, L) PROVE FALSE
    OBVIOUS
  <2>1. PICK d \in L \ {best} : \E n \in nonces(best), m \in nonces(d) : n[1] = m[1] /\ m[2] < n[2]
    BY DEF Waits
  <2>2. PICK n \in nonces(best), m \in nonces(d) : n[1] = m[1] /\ m[2] < n[2]
    BY <2>1
  <2>3. m \in NoncesIn(L)
    BY <2>1, <2>2 DEF NoncesIn
  <2> QED
    BY <2>2, <2>3 DEF ready
<1>3. ASSUME NEW c \in L, score(c) > score(best) PROVE Waits(c, L)
  <2>1. c \in DOMAIN checkpoints /\ best \in DOMAIN checkpoints
    BY <1>1 DEF Ascending
  <2>2. score(c) \in Nat /\ score(best) \in Nat
    BY <2>1, ScoreIs
  <2>3. c \notin ripe
    BY <1>3, <2>2
  <2>4. PICK n \in nonces(c), m \in NoncesIn(L) : m[1] = n[1] /\ m[2] < n[2]
    BY <2>3 DEF ready
  <2>5. PICK d \in L : m \in nonces(d)
    BY <2>4 DEF NoncesIn
  <2>6. m[2] \in Nat /\ n[2] \in Nat
    <3>1. d \in DOMAIN checkpoints
      BY DEF Ascending
    <3> QED
      BY <2>1, <2>4, <2>5, <3>1, NoncesAre
  <2>7. d # c
    <3> SUFFICES ASSUME d = c PROVE FALSE
      OBVIOUS
    <3>1. m[2] = n[2]
      BY <2>4, <2>5 DEF Ascending
    <3> QED
      BY <2>4, <2>6, <3>1
  <2> QED
    BY <2>4, <2>5, <2>7 DEF Waits
<1>4. ASSUME NEW d \in L, d # best, NEW m \in nonces(d), m \in nonces(best) PROVE FALSE
  <2>1. /\ d \in DOMAIN checkpoints /\ best \in DOMAIN checkpoints /\ d \in O
        /\ depth(d) \in Nat /\ depth(best) \in Nat /\ depth(d) # depth(best)
    BY <1>1, <1>4 DEF Ascending
  <2>2. m[2] \in Nat
    BY <2>1, NoncesAre
  <2>3. CASE depth(d) < depth(best)
    <3>1. m[2] < m[2]
      BY <1>1, <1>4, <2>1, <2>3 DEF Ascending
    <3> QED
      BY <2>2, <3>1
  <2>4. CASE depth(best) < depth(d)
    <3>1. m[2] < m[2]
      BY <1>1, <1>4, <2>1, <2>4 DEF Ascending
    <3> QED
      BY <2>2, <3>1
  <2> QED
    BY <2>1, <2>3, <2>4
<1>5. NoncesIn(L) \ nonces(best) = NoncesIn(L \ {best})
  BY <1>4 DEF NoncesIn
<1> QED
  BY <1>2, <1>3, <1>5 DEF Placed

\* The orders from some place on.
From(ordered, i) == {ordered[k] : k \in i..Len(ordered)}

\* SortedOrders at work: nothing is lost, and everything popped was in its place.
Sorting(O, s) ==
  /\ s.left \in SUBSET O
  /\ s.ordered \in Seq(O)
  /\ s.unused = NoncesIn(s.left)
  /\ s.left \cup From(s.ordered, 1) = O
  /\ Len(s.ordered) + Cardinality(s.left) = Cardinality(O)
  /\ \A i \in 1..Len(s.ordered) : Placed(s.ordered[i], s.left \cup From(s.ordered, i))

\* One more of them is popped, as long as there are any.
LEMMA PopsOne ==
  ASSUME Tree(checkpoints), NEW O, IsFiniteSet(O), Ascending(O), NEW s, Sorting(O, s),
         NEW new, new = pop_best(s)
  PROVE  /\ Sorting(O, new)
         /\ s.left = {} => new = s
         /\ s.left # {} => Len(new.ordered) = Len(s.ordered) + 1
<1>1. /\ s.left \in SUBSET O /\ s.ordered \in Seq(O) /\ s.unused = NoncesIn(s.left)
      /\ s.left \cup From(s.ordered, 1) = O
      /\ Len(s.ordered) + Cardinality(s.left) = Cardinality(O)
      /\ \A i \in 1..Len(s.ordered) : Placed(s.ordered[i], s.left \cup From(s.ordered, i))
  BY DEF Sorting
<1>2. PICK ripe : ripe = ready(s.left, NoncesIn(s.left))
  OBVIOUS
<1>3. s.left \in SUBSET DOMAIN checkpoints
  BY <1>1 DEF Ascending
<1>4. /\ ripe = {} => new = s
      /\ ripe # {} => \E best \in ripe : Pops(s, ripe, best, new)
  BY <1>1, <1>2, <1>3, PopBest
<1>5. CASE s.left = {}
  <2>1. ripe = {}
    BY <1>2, <1>5 DEF ready
  <2> QED
    BY <1>4, <1>5, <2>1
<1>6. CASE s.left # {}
  <2>1. ripe # {}
    BY <1>1, <1>2, <1>6, FirstIsReady
  <2>2. PICK best \in ripe : Pops(s, ripe, best, new)
    BY <1>4, <2>1
  <2>3. /\ best \in s.left
        /\ \A d \in ripe : score(d) <= score(best)
        /\ new.left = s.left \ {best}
        /\ new.unused = s.unused \ nonces(best)
        /\ new.ordered = Append(s.ordered, best)
    BY <2>2 DEF Pops
  <2>4. Placed(best, s.left) /\ new.unused = NoncesIn(new.left)
    <3>1. PICK L \in SUBSET O : L = s.left
      BY <1>1
    <3>2. Placed(best, L) /\ NoncesIn(L) \ nonces(best) = NoncesIn(L \ {best})
      BY <1>2, <2>3, <3>1, PopPlaces, ZenonT(40)
    <3> QED
      BY <1>1, <2>3, <3>1, <3>2
  <2>5. PICK n \in Nat : n = Len(s.ordered)
    BY <1>1
  <2>6. PICK old : old = s.ordered
    OBVIOUS
  <2>7. PICK more : more = new.ordered
    OBVIOUS
  <2>8. /\ more \in Seq(O) /\ Len(more) = n + 1 /\ more[n + 1] = best
        /\ \A k \in 1..n : more[k] = old[k]
    <3>1. old \in Seq(O) /\ best \in O /\ more = Append(old, best) /\ Len(old) = n
      BY <1>1, <2>3, <2>5, <2>6, <2>7
    <3> QED
      BY <3>1
  <2>9. \A i \in 1..(n + 1) : From(more, i) = From(old, i) \cup {best}
    <3> SUFFICES ASSUME NEW i \in 1..(n + 1) PROVE From(more, i) = From(old, i) \cup {best}
      OBVIOUS
    <3>1. \A k : k \in i..(n + 1) <=> k \in i..n \/ k = n + 1
      OBVIOUS
    <3>2. \A k \in i..n : k \in 1..n
      OBVIOUS
    <3>3. From(more, i) = {more[k] : k \in i..(n + 1)} /\ From(old, i) = {old[k] : k \in i..n}
      BY <2>5, <2>6, <2>8 DEF From
    <3> QED
      BY <2>8, <3>1, <3>2, <3>3
  <2>10. \A i \in 1..(n + 1) : new.left \cup From(more, i) = s.left \cup From(old, i)
    BY <2>3, <2>9
  <2>11. From(old, n + 1) = {}
    <3>1. (n + 1)..n = {}
      OBVIOUS
    <3> QED
      BY <2>5, <2>6, <3>1 DEF From
  <2>12. \A i \in 1..(n + 1) : Placed(more[i], new.left \cup From(more, i))
    <3> SUFFICES ASSUME NEW i \in 1..(n + 1) PROVE Placed(more[i], new.left \cup From(more, i))
      OBVIOUS
    <3>1. CASE i = n + 1
      <4>1. new.left \cup From(more, i) = s.left
        BY <2>10, <2>11, <3>1
      <4>2. more[i] = best
        BY <2>8, <3>1
      <4> QED
        BY <2>4, <4>1, <4>2
    <3>2. CASE i # n + 1
      <4>1. i \in 1..n
        BY <3>2
      <4>2. new.left \cup From(more, i) = s.left \cup From(old, i) /\ more[i] = old[i]
        BY <2>8, <2>10, <4>1
      <4>3. Placed(old[i], s.left \cup From(old, i))
        BY <1>1, <2>5, <2>6, <4>1
      <4> QED
        BY <4>2, <4>3
    <3> QED
      BY <3>1, <3>2
  <2>13. new.left \cup From(more, 1) = O
    <3>1. 1 \in 1..(n + 1)
      BY <2>5
    <3> QED
      BY <1>1, <2>6, <2>10, <3>1
  <2>14. Cardinality(s.left) \in Nat /\ Cardinality(new.left) = Cardinality(s.left) - 1
    <3>1. IsFiniteSet(s.left)
      BY <1>1, FS_Subset
    <3> QED
      BY <2>3, <3>1, FS_RemoveElement, FS_CardinalityType
  <2>15. Len(more) + Cardinality(new.left) = Cardinality(O)
    <3>1. PICK k \in Nat : k = Cardinality(s.left) /\ Cardinality(new.left) = k - 1
      BY <2>14
    <3>2. n + k = Cardinality(O) /\ (n + 1) + (k - 1) = n + k
      BY <1>1, <2>5, <3>1
    <3> QED
      BY <2>8, <3>1, <3>2
  <2>16. new.left \in SUBSET O
    BY <1>1, <2>3
  <2>17. Sorting(O, new)
    BY <2>4, <2>7, <2>8, <2>12, <2>13, <2>15, <2>16 DEF Sorting
  <2> QED
    BY <1>6, <2>5, <2>7, <2>8, <2>17
<1> QED
  BY <1>5, <1>6

\* SortedOrders gives all orders, each in its place.
LEMMA SortedKeeps ==
  ASSUME Tree(checkpoints), NEW span \in Seq(DOMAIN checkpoints), NEW O, O = all_orders(span),
         IsFiniteSet(O), Cardinality(O) < Len(span), Ascending(O), NEW ordered, ordered = sorted(span)
  PROVE  /\ ordered \in Seq(O)
         /\ Len(ordered) = Cardinality(O)
         /\ From(ordered, 1) = O
         /\ \A i \in 1..Len(ordered) : Placed(ordered[i], From(ordered, i))
<1>1. PICK n \in Nat : DOMAIN span = 1..n /\ n = Len(span)
  OBVIOUS
<1>2. PICK start : start = [left |-> all_orders(span), unused |-> UNION {nonces(c) : c \in all_orders(span)},
                            ordered |-> << >>]
  OBVIOUS
<1>3. start.left = O /\ start.ordered = << >> /\ start.unused = NoncesIn(O)
  BY <1>2 DEF NoncesIn
<1>4. ordered = Popped(start, span).ordered
  BY <1>2 DEF sorted, Popped
<1>5. PICK g : /\ g[0] = start
               /\ \A k \in 1..n : g[k] = pop_best(g[k - 1])
               /\ g[n] = Popped(start, span)
  BY <1>1, PopFold
<1>6. Cardinality(O) \in Nat
  BY FS_CardinalityType
<1> DEFINE T == {k \in Nat : k <= n => Sorting(O, g[k]) /\ (g[k].left = {} \/ Len(g[k].ordered) = k)}
<1>7. 0 \in T
  <2>1. start.ordered \in Seq(O) /\ Len(start.ordered) = 0 /\ From(start.ordered, 1) = {}
    BY <1>3 DEF From
  <2>2. start.left \in SUBSET O /\ start.left \cup From(start.ordered, 1) = O /\ start.unused = NoncesIn(start.left)
    BY <1>3, <2>1
  <2>3. Len(start.ordered) + Cardinality(start.left) = Cardinality(O)
    BY <1>3, <1>6, <2>1
  <2>4. 1..Len(start.ordered) = {}
    BY <2>1
  <2>5. Sorting(O, start)
    BY <2>1, <2>2, <2>3, <2>4 DEF Sorting
  <2> QED
    BY <1>5, <2>1, <2>5
<1>8. ASSUME NEW k \in T PROVE k + 1 \in T
  <2>1. k \in Nat /\ k + 1 \in Nat /\ (k + 1) - 1 = k
    OBVIOUS
  <2> SUFFICES ASSUME k + 1 <= n
               PROVE  Sorting(O, g[k + 1]) /\ (g[k + 1].left = {} \/ Len(g[k + 1].ordered) = k + 1)
    BY <2>1
  <2>2. k + 1 \in 1..n /\ k <= n
    BY <2>1
  <2>3. Sorting(O, g[k]) /\ (g[k].left = {} \/ Len(g[k].ordered) = k)
    BY <2>2
  <2> HIDE DEF T
  <2>4. g[k + 1] = pop_best(g[k])
    BY <1>5, <2>1, <2>2
  <2>5. /\ Sorting(O, g[k + 1])
        /\ g[k].left = {} => g[k + 1] = g[k]
        /\ g[k].left # {} => Len(g[k + 1].ordered) = Len(g[k].ordered) + 1
    BY <2>3, <2>4, PopsOne
  <2> QED
    BY <2>3, <2>5
<1>9. T \in SUBSET Nat
  OBVIOUS
<1>10. n \in T
  <2> HIDE DEF T
  <2> QED
    BY <1>7, <1>8, <1>9, NatSetInduction
<1>11. PICK s : s = g[n]
  OBVIOUS
<1>12. Sorting(O, s) /\ (s.left = {} \/ Len(s.ordered) = n) /\ ordered = s.ordered
  BY <1>4, <1>5, <1>10, <1>11
<1>13. s.left = {}
  <2> SUFFICES ASSUME s.left # {} PROVE FALSE
    OBVIOUS
  <2>1. Len(s.ordered) = n /\ n + Cardinality(s.left) = Cardinality(O)
    BY <1>12 DEF Sorting
  <2>2. Cardinality(s.left) \in Nat
    BY <1>12, FS_Subset, FS_CardinalityType DEF Sorting
  <2> QED
    BY <1>1, <1>6, <2>1, <2>2
<1>14. Cardinality(s.left) = 0
  BY <1>13, FS_EmptySet
<1>15. /\ ordered \in Seq(O) /\ s.left \cup From(ordered, 1) = O
       /\ Len(ordered) + Cardinality(s.left) = Cardinality(O)
       /\ \A i \in 1..Len(ordered) : Placed(ordered[i], s.left \cup From(ordered, i))
  BY <1>12 DEF Sorting
<1>16. Len(ordered) = Cardinality(O) /\ From(ordered, 1) = O
  BY <1>6, <1>13, <1>14, <1>15
<1>17. \A i \in 1..Len(ordered) : Placed(ordered[i], From(ordered, i))
  BY <1>13, <1>15
<1> QED
  BY <1>15, <1>16, <1>17

(***************************************************************************)
(* The staged orders of a payload                                          *)
(***************************************************************************)

\* With as many signers as transactions, each of them has sent one.
LEMMA OneEach ==
  ASSUME NEW txs \in Seq(TxSet), NEW S, S = {tx.signer : tx \in ToSet(txs)}, Cardinality(S) = Len(txs),
         NEW i \in DOMAIN txs, NEW j \in DOMAIN txs, txs[i].signer = txs[j].signer
  PROVE  i = j
<1>1. PICK len \in Nat : DOMAIN txs = 1..len /\ len = Len(txs)
  BY LenProperties
<1>2. PICK f : f = [k \in 1..len |-> txs[k].signer]
  OBVIOUS
<1>3. \A k \in 1..len : f[k] \in S
  BY <1>1, <1>2 DEF ToSet
<1>4. \A y \in S : \E k \in 1..len : f[k] = y
  BY <1>1, <1>2 DEF ToSet
<1>5. f \in Surjection(1..len, S)
  BY <1>2, <1>3, <1>4 DEF Surjection
<1>6. IsFiniteSet(1..len) /\ Cardinality(1..len) = len
  <2>1. 1 \in Int /\ len \in Int
    OBVIOUS
  <2>2. IsFiniteSet(1..len) /\ Cardinality(1..len) = IF 1 > len THEN 0 ELSE len - 1 + 1
    BY <2>1, FS_Interval, Zenon
  <2>3. (IF 1 > len THEN 0 ELSE len - 1 + 1) = len
    OBVIOUS
  <2> QED
    BY <2>2, <2>3
<1>7. f \in Injection(1..len, S)
  BY <1>1, <1>5, <1>6, FS_Surjection
<1>8. \A k, l \in 1..len : f[k] = f[l] => k = l
  BY <1>2, <1>7 DEF Injection, IsInjective
<1> QED
  BY <1>1, <1>2, <1>8

\* Two orders that have one hash, or a bundle that has two transactions of one signer.
Troubled(P, s) ==
  \/ \E c, d \in ToSet(s) : /\ c # d /\ ~BarrierAt(P, c) /\ ~BarrierAt(P, d)
                            /\ P[c].mutation.kind = P[d].mutation.kind
                            /\ P[c].mutation.source = P[d].mutation.source
  \/ \E c \in ToSet(s) :
       Cardinality({n[1] : n \in NoncesOf(P[c].mutation)}) # Len(TxsOf(P[c].mutation))

\* Read in the program's terms.
LEMMA TroubledIs ==
  ASSUME Tree(checkpoints), NEW s \in Seq(DOMAIN checkpoints)
  PROVE  Troubled(checkpoints, s) <=> repeats(s) \/ \E c \in ToSet(s) : sends_twice(c)
<1>1. ToSet(s) \subseteq DOMAIN checkpoints
  BY DEF ToSet
<1>2. \A c, d : hash(c) = hash(d) <=> /\ checkpoints[c].mutation.kind = checkpoints[d].mutation.kind
                                      /\ checkpoints[c].mutation.source = checkpoints[d].mutation.source
  BY DEF hash
<1>3. \A c : is_barrier(c) <=> BarrierAt(checkpoints, c)
  BY DEF is_barrier, BarrierAt
<1>4. \A c \in ToSet(s) : /\ nonces(c) = NoncesOf(checkpoints[c].mutation)
                          /\ transactions(c) = TxsOf(checkpoints[c].mutation)
  BY <1>1, NoncesAre
<1>5. repeats(s) <=> \E c, d \in ToSet(s) :
                       /\ c # d /\ ~BarrierAt(checkpoints, c) /\ ~BarrierAt(checkpoints, d)
                       /\ checkpoints[c].mutation.kind = checkpoints[d].mutation.kind
                       /\ checkpoints[c].mutation.source = checkpoints[d].mutation.source
  BY <1>2, <1>3 DEF repeats
<1>6. \A c \in ToSet(s) : sends_twice(c) <=>
        Cardinality({n[1] : n \in NoncesOf(checkpoints[c].mutation)}) # Len(TxsOf(checkpoints[c].mutation))
  BY <1>4 DEF sends_twice
<1> QED
  BY <1>5, <1>6 DEF Troubled

\* The end of a history that begins with its last barrier.
Staged(P, c, h, n, d, s) ==
  /\ s \in Seq(DOMAIN P) /\ Len(s) = n
  /\ BarrierAt(P, s[1])
  /\ \A i \in 1..n : i # 1 => ~BarrierAt(P, s[i])
  /\ \A i \in 1..n : P[s[i]].depth = d + i - 1
  /\ P[c].depth = d + n - 1
  /\ \E b \in Nat : \A i \in 1..n : b + i \in DOMAIN h /\ s[i] = h[b + i]

\* Staged checkpoints are as deep as they are far from the barrier.
LEMMA StagedDepth ==
  ASSUME NEW P, Tree(P), NEW c \in DOMAIN P
  PROVE  \E n \in Nat \ {0}, d \in Nat : Staged(P, c, HistoryOf(P, c), n, d, StagingOf(P, c))
<1>0. PICK s : s = StagingOf(P, c)
  OBVIOUS
<1>1. PICK h : h = HistoryOf(P, c)
  OBVIOUS
<1>2. PICK b : b = LastBarrier(P, h)
  OBVIOUS
<1>3. PICK d \in Nat : d = P[c].depth
  BY TreeAt
<1>4. /\ Len(h) = d + 1 /\ DOMAIN h = 1..(d + 1)
      /\ \A i \in 1..(d + 1) : P[h[i]].depth = i - 1
  BY <1>1, <1>3, HistoryLeads
<1>5. b \in 1..(d + 1)
  BY <1>1, <1>2, <1>4, LastBarrierIs
<1>6. PICK n \in Nat : n = Len(s) /\ n = (d + 1) - b + 1 /\ n >= 1
  BY <1>0, <1>1, <1>2, <1>4, StagingIs
<1>7. \A i \in 1..n : s[i] = h[b - 1 + i] /\ b - 1 + i \in 1..(d + 1)
  <2>1. s = SubSeq(h, b, d + 1)
    BY <1>0, <1>1, <1>2, <1>4 DEF StagingOf
  <2>2. \A i \in 1..n : b - 1 + i \in 1..(d + 1) /\ b + i - 1 = b - 1 + i
    BY <1>5, <1>6
  <2>3. h \in Seq(DOMAIN P)
    BY <1>1, HistoryLeads
  <2>4. \A i \in 1..n : s[i] = h[b + i - 1]
    BY <1>4, <1>5, <1>6, <2>1, <2>3
  <2> QED
    BY <2>2, <2>4
<1>8. \A i \in 1..n : i # 1 => ~BarrierAt(P, s[i])
  <2>1. \A i \in 1..Len(s) : i # 1 => ~BarrierAt(P, s[i])
    BY <1>0, <1>1, <1>2, StagingIs
  <2> QED
    BY <1>6, <2>1
<1>9. s \in Seq(DOMAIN P) /\ BarrierAt(P, s[1])
  BY <1>0, <1>1, <1>2, StagingIs
<1>10. PICK a \in Nat : a = b - 1
  BY <1>5
<1>11. \A i \in 1..n : P[s[i]].depth = a + i - 1
  BY <1>4, <1>7, <1>10
<1>12. d = a + n - 1
  BY <1>5, <1>6, <1>10
<1>13. \A i \in 1..n : a + i \in DOMAIN h /\ s[i] = h[a + i]
  BY <1>4, <1>7, <1>10
<1>14. n \in Nat \ {0}
  BY <1>6
<1>15. Staged(P, c, h, n, a, s)
  BY <1>3, <1>6, <1>8, <1>9, <1>10, <1>11, <1>12, <1>13 DEF Staged
<1> QED
  BY <1>0, <1>1, <1>10, <1>14, <1>15

\* All staged orders are sorted, and their nonces ascend.
LEMMA StagedOrders ==
  ASSUME Sound(checkpoints), NEW c \in DOMAIN checkpoints, OnceIn(c),
         NEW s, s = StagingOf(checkpoints, c), ~Troubled(checkpoints, s),
         NEW O, O = {e \in ToSet(s) : ~is_barrier(e)}
  PROVE  /\ all_orders(s) = O
         /\ IsFiniteSet(O)
         /\ Cardinality(O) = Len(s) - 1
         /\ Ascending(O)
<1>1. Tree(checkpoints)
  BY DEF Sound
<1>2. PICK h : h = HistoryOf(checkpoints, c)
  OBVIOUS
<1>3. PICK n \in Nat \ {0}, d \in Nat : Staged(checkpoints, c, h, n, d, s)
  BY <1>1, <1>2, StagedDepth
<1>4. n = Len(s)
  BY <1>3 DEF Staged
<1>5. /\ s \in Seq(DOMAIN checkpoints)
      /\ BarrierAt(checkpoints, s[1])
      /\ \A i \in 1..n : i # 1 => ~BarrierAt(checkpoints, s[i])
      /\ \A i \in 1..n : checkpoints[s[i]].depth = d + i - 1
  BY <1>3 DEF Staged
<1>6. PICK b \in Nat : \A i \in 1..n : b + i \in DOMAIN h /\ s[i] = h[b + i]
  BY <1>3 DEF Staged
<1>7. \A e : is_barrier(e) <=> BarrierAt(checkpoints, e)
  BY DEF is_barrier, BarrierAt
<1>8. \A e : e \in O <=> \E i \in 2..n : e = s[i]
  <2>1. DOMAIN s = 1..n
    BY <1>4, <1>5
  <2>2. \A i : i \in 2..n <=> i \in 1..n /\ i # 1
    BY <1>3
  <2>3. 1 \in 1..n
    BY <1>3
  <2> QED
    BY <1>5, <1>7, <2>1, <2>2, <2>3 DEF ToSet
<1>9. \A i \in 2..n : i \in 1..n /\ s[i] \in DOMAIN checkpoints /\ depth(s[i]) = d + i - 1 /\ depth(s[i]) \in Nat
  <2>1. \A i \in 2..n : i \in 1..n /\ d + i - 1 \in Nat
    OBVIOUS
  <2>2. \A i \in 1..n : s[i] \in DOMAIN checkpoints
    BY <1>4, <1>5
  <2> QED
    BY <1>5, <2>1, <2>2 DEF depth
<1>10. all_orders(s) = O
  <2>1. \A e \in O : e \in Nat
    <3>1. \A e \in DOMAIN checkpoints : e \in Nat
      BY <1>1, TreeAt
    <3> QED
      BY <1>8, <1>9, <3>1
  <2>2. \A e, k \in O : hash(e) = hash(k) => e = k
    BY <1>7 DEF Troubled, hash
  <2>3. \A e, k \in O : hash(e) = hash(k) => k <= e
    BY <2>1, <2>2
  <2> QED
    BY <2>3 DEF all_orders
<1>11. PICK f : f = [i \in 2..n |-> s[i]]
  OBVIOUS
<1>12. f \in Surjection(2..n, O)
  <2>1. \A i \in 2..n : f[i] \in O
    BY <1>8, <1>11
  <2>2. \A e \in O : \E i \in 2..n : f[i] = e
    BY <1>8, <1>11
  <2> QED
    BY <1>11, <2>1, <2>2 DEF Surjection
<1>13. f \in Injection(2..n, O)
  <2>1. f \in [2..n -> O]
    BY <1>12 DEF Surjection
  <2>2. ASSUME NEW i \in 2..n, NEW j \in 2..n, f[i] = f[j] PROVE i = j
    <3>1. depth(s[i]) = depth(s[j])
      BY <1>11, <2>2
    <3>2. d + i - 1 = d + j - 1
      BY <1>9, <3>1
    <3> QED
      BY <3>2
  <2> QED
    BY <2>1, <2>2 DEF Injection, IsInjective
<1>14. IsFiniteSet(2..n) /\ Cardinality(2..n) = n - 1
  <2>1. IsFiniteSet(2..n) /\ Cardinality(2..n) = IF 2 > n THEN 0 ELSE n - 2 + 1
    BY FS_Interval
  <2> QED
    BY <2>1
<1>15. IsFiniteSet(O) /\ Cardinality(O) = n - 1
  BY <1>12, <1>13, <1>14, FS_Surjection
<1>16. ASSUME NEW e \in O, NEW k \in O PROVE e # k => depth(e) # depth(k)
  <2>1. PICK i \in 2..n : e = s[i]
    BY <1>8
  <2>2. PICK j \in 2..n : k = s[j]
    BY <1>8
  <2>3. depth(e) = depth(k) => i = j
    BY <1>9, <2>1, <2>2
  <2> QED
    BY <2>1, <2>2, <2>3
<1>17. ASSUME NEW e \in O, NEW k \in O, depth(e) < depth(k),
              NEW x \in nonces(e), NEW y \in nonces(k), x[1] = y[1]
       PROVE  x[2] < y[2]
  <2>1. PICK i \in 2..n : e = s[i]
    BY <1>8
  <2>2. PICK j \in 2..n : k = s[j]
    BY <1>8
  <2>3. i < j
    BY <1>9, <1>17, <2>1, <2>2
  <2>4. PICK p \in DOMAIN h : p = b + i /\ e = h[p]
    BY <1>6, <1>9, <2>1
  <2>5. PICK q \in DOMAIN h : q = b + j /\ k = h[q]
    BY <1>6, <1>9, <2>2
  <2>6. p < q
    BY <2>3, <2>4, <2>5
  <2> QED
    BY <1>2, <1>17, <2>4, <2>5, <2>6, HistoryAscends
<1>18. ASSUME NEW e \in O, NEW x \in nonces(e), NEW y \in nonces(e), x[1] = y[1]
       PROVE  x[2] = y[2]
  <2>1. e \in DOMAIN checkpoints /\ e \in ToSet(s)
    BY <1>8, <1>9
  <2>2. PICK txs : txs = transactions(e)
    OBVIOUS
  <2>3. PICK N : N = nonces(e)
    OBVIOUS
  <2>4. /\ txs \in Seq(TxSet) /\ N = NoncesOf(checkpoints[e].mutation)
        /\ txs = TxsOf(checkpoints[e].mutation)
    BY <1>1, <2>1, <2>2, <2>3, NoncesAre
  <2>5. N = {<<tx.signer, tx.nonce>> : tx \in ToSet(txs)}
    BY <2>2, <2>3 DEF nonces
  <2>6. Cardinality({z[1] : z \in N}) = Len(txs)
    BY <2>1, <2>4 DEF Troubled
  <2>7. PICK S : S = {tx.signer : tx \in ToSet(txs)}
    OBVIOUS
  <2>8. {z[1] : z \in N} = S
    <3>1. \A tx : <<tx.signer, tx.nonce>>[1] = tx.signer
      OBVIOUS
    <3>2. \A z \in N : z[1] \in S
      BY <2>5, <2>7, <3>1
    <3>3. \A a \in S : \E z \in N : a = z[1]
      BY <2>5, <2>7, <3>1
    <3> QED
      BY <3>2, <3>3
  <2>9. \E i \in DOMAIN txs : x = <<txs[i].signer, txs[i].nonce>>
    BY <1>18, <2>3, <2>5 DEF ToSet
  <2>10. PICK i \in DOMAIN txs : x = <<txs[i].signer, txs[i].nonce>>
    BY <2>9
  <2>11. \E j \in DOMAIN txs : y = <<txs[j].signer, txs[j].nonce>>
    BY <1>18, <2>3, <2>5 DEF ToSet
  <2>12. PICK j \in DOMAIN txs : y = <<txs[j].signer, txs[j].nonce>>
    BY <2>11
  <2>13. txs[i].signer = txs[j].signer
    BY <1>18, <2>10, <2>12
  <2>14. i = j
    BY <2>4, <2>6, <2>7, <2>8, <2>13, OneEach
  <2> QED
    BY <2>10, <2>12, <2>14
<1>19. \A e \in O : e \in DOMAIN checkpoints /\ depth(e) \in Nat
  BY <1>8, <1>9
<1>20. Ascending(O)
  BY <1>16, <1>17, <1>18, <1>19 DEF Ascending
<1> QED
  BY <1>4, <1>10, <1>15, <1>20

\* What OrderBy makes of a payload: all of its staged orders, each in its place.
LEMMA PayloadIsSorted ==
  ASSUME Sound(checkpoints), NEW c \in DOMAIN checkpoints, OnceIn(c),
         NEW s, s = StagingOf(checkpoints, c), ~Troubled(checkpoints, s),
         NEW ordered, ordered = sorted(s)
  PROVE  /\ ToSet(ordered) = {e \in ToSet(s) : ~is_barrier(e)}
         /\ Len(ordered) \in Nat /\ DOMAIN ordered = 1..Len(ordered)
         /\ checkpoints[Head(s)].depth + Len(ordered) = checkpoints[c].depth
         /\ \A i \in 1..Len(ordered) : Placed(ordered[i], From(ordered, i))
<1>1. Tree(checkpoints)
  BY DEF Sound
<1>2. PICK n \in Nat \ {0}, d \in Nat : Staged(checkpoints, c, HistoryOf(checkpoints, c), n, d, s)
  BY <1>1, StagedDepth
<1>3. 1 \in 1..n /\ d + 1 - 1 = d
  OBVIOUS
<1>4. /\ s \in Seq(DOMAIN checkpoints) /\ n = Len(s)
      /\ checkpoints[s[1]].depth = d /\ checkpoints[c].depth = d + n - 1
  BY <1>2, <1>3 DEF Staged
<1>5. PICK O : O = {e \in ToSet(s) : ~is_barrier(e)}
  OBVIOUS
<1>6. all_orders(s) = O /\ IsFiniteSet(O) /\ Cardinality(O) = n - 1 /\ Ascending(O)
  BY <1>4, <1>5, StagedOrders
<1>7. Cardinality(O) < Len(s)
  BY <1>4, <1>6
<1>8. /\ ordered \in Seq(O) /\ Len(ordered) = n - 1 /\ From(ordered, 1) = O
      /\ \A i \in 1..Len(ordered) : Placed(ordered[i], From(ordered, i))
  BY <1>1, <1>4, <1>6, <1>7, SortedKeeps
<1>9. DOMAIN ordered = 1..Len(ordered) /\ Len(ordered) \in Nat
  BY <1>8
<1>10. ToSet(ordered) = O
  BY <1>8, <1>9 DEF ToSet, From
<1>11. Head(s) = s[1]
  BY <1>4
<1>12. d + (n - 1) = d + n - 1
  OBVIOUS
<1> QED
  BY <1>4, <1>5, <1>8, <1>9, <1>10, <1>11, <1>12

\* What is staged in a payload stays, whatever is added.
LEMMA StagingStays ==
  ASSUME NEW P, Tree(P), NEW c \in DOMAIN P, NEW m \in Mutations, NEW Q, Q = Built(P, c, m),
         NEW e \in DOMAIN P, NEW s, s = StagingOf(P, e)
  PROVE  StagingOf(Q, e) = s /\ (Troubled(P, s) => Troubled(Q, s))
<1>1. \A x \in DOMAIN P : Q[x] = P[x]
  BY BuiltIs
<1>2. PICK h : h = HistoryOf(P, e)
  OBVIOUS
<1>3. h = HistoryOf(Q, e)
  BY <1>2, HistoryBuilt
<1>4. PICK n \in Nat : n = Len(h) /\ \A i \in 1..n : h[i] \in DOMAIN P
  <2>1. h \in Seq(DOMAIN P)
    BY <1>2, HistoryLeads
  <2> QED
    BY <2>1
<1>5. BarriersIn(Q, h) = BarriersIn(P, h)
  BY <1>1, <1>4 DEF BarriersIn, BarrierAt
<1>6. StagingOf(Q, e) = s
  BY <1>2, <1>3, <1>5 DEF StagingOf, LastBarrier
<1>7. \A x \in ToSet(s) : Q[x] = P[x]
  <2>1. s \in Seq(DOMAIN P)
    BY StagedDepth DEF Staged
  <2> QED
    BY <1>1, <2>1 DEF ToSet
<1>8. Troubled(P, s) => Troubled(Q, s)
  <2>1. ASSUME NEW x \in ToSet(s), NEW y \in ToSet(s), x # y, ~BarrierAt(P, x), ~BarrierAt(P, y),
               P[x].mutation.kind = P[y].mutation.kind, P[x].mutation.source = P[y].mutation.source
        PROVE  Troubled(Q, s)
    <3>1. Q[x] = P[x] /\ Q[y] = P[y]
      BY <1>7
    <3> QED
      BY <2>1, <3>1 DEF Troubled, BarrierAt
  <2>2. ASSUME NEW x \in ToSet(s),
               Cardinality({k[1] : k \in NoncesOf(P[x].mutation)}) # Len(TxsOf(P[x].mutation))
        PROVE  Troubled(Q, s)
    <3>1. Q[x] = P[x]
      BY <1>7
    <3>2. Cardinality({k[1] : k \in NoncesOf(Q[x].mutation)}) # Len(TxsOf(Q[x].mutation))
      BY <2>2, <3>1
    <3> QED
      BY <3>2 DEF Troubled
  <2> QED
    BY <2>1, <2>2 DEF Troubled
<1> QED
  BY <1>6, <1>8

\* Payloads of which nothing is said.
Unsorted(P, c) ==
  \/ \E e \in ToSet(HistoryOf(P, c)) : ~Clear(P[e].mutation)
  \/ Troubled(P, StagingOf(P, c))

LEMMA UnsortedIs ==
  ASSUME Tree(checkpoints), NEW c \in DOMAIN checkpoints
  PROVE  Unsorted(checkpoints, c) <=> ~OnceIn(c) \/ Troubled(checkpoints, StagingOf(checkpoints, c))
<1>1. history(c) = HistoryOf(checkpoints, c)
  BY ReadsAre
<1>2. OnceIn(c) <=> \A e \in ToSet(HistoryOf(checkpoints, c)) : Clear(checkpoints[e].mutation)
  BY <1>1 DEF OnceIn, is_bundle, Clear
<1> QED
  BY <1>2 DEF Unsorted

\* They stay such payloads.
LEMMA UnsortedStays ==
  ASSUME NEW P, Tree(P), NEW c \in DOMAIN P, NEW m \in Mutations, NEW Q, Q = Built(P, c, m),
         NEW p \in DOMAIN P, Unsorted(P, p)
  PROVE  Unsorted(Q, p)
<1>1. \A x \in DOMAIN P : Q[x] = P[x]
  BY BuiltIs
<1>2. HistoryOf(Q, p) = HistoryOf(P, p)
  BY HistoryBuilt
<1>3. \A x \in ToSet(HistoryOf(P, p)) : x \in DOMAIN P
  <2>1. HistoryOf(P, p) \in Seq(DOMAIN P)
    BY HistoryLeads
  <2> QED
    BY <2>1 DEF ToSet
<1>4. Troubled(P, StagingOf(P, p)) => Troubled(Q, StagingOf(Q, p))
  BY StagingStays
<1> QED
  BY <1>1, <1>2, <1>3, <1>4 DEF Unsorted

(***************************************************************************)
(* The assertion of OrderBy                                                *)
(***************************************************************************)

\* Orders that are left to apply are those that the new payload lacks.
Ordered(P, s) ==
  s # NoRun =>
    /\ s.pc = "ordering" => \/ Unsorted(P, s.current)
                            \/ P[s.prefix].depth + Len(s.work) = P[s.current].depth
    /\ s.pc = "panic" => Unsorted(P, s.current)

\* A step that returns is not at work any more.
LEMMA ReturnsElsewhere ==
  ASSUME AtStep(run), NEW flow \in Flows, NEW payload, StepReturns(flow, payload)
  PROVE  run'.pc \notin {"ordering", "panic"}
<1>1. run \in RunRecords
  BY DEF AtStep
<1>2. PICK pc \in {"between", "ok", "break", "fail", "recording"} : \E p : run' = Returned(pc, p, flow)
  BY StepReturnsIs DEF Flows
<1>3. run'.pc = pc
  BY <1>1, <1>2 DEF Returned, RunRecords
<1> QED
  BY <1>3

\* OrderBy::step
LEMMA OrderByOrders ==
  ASSUME TypeInv, Control(run), OrderBy
  PROVE  Ordered(checkpoints', run')
<1>1. /\ AtStep(run) /\ run \in RunRecords /\ run.current \in DOMAIN checkpoints
      /\ Sound(checkpoints) /\ Tree(checkpoints)
  BY AtWork DEF OrderBy, TypeInv, Sound, AtStep
<1>2. checkpoints' = checkpoints
  BY DEF OrderBy, vars
<1>3. PICK c \in DOMAIN checkpoints : c = run.current
  BY <1>1
<1>4. PICK s : s = StagingOf(checkpoints, c)
  OBVIOUS
<1>5. s = history_staging(run.current)
  BY <1>1, <1>3, <1>4, SpansAre
<1>6. PICK ordered : ordered = sorted(s)
  OBVIOUS
<1>7. IF ordered = << >> THEN StepReturns("ok", run.current)
      ELSE run' = [run EXCEPT !.pc = "ordering", !.prefix = Head(s), !.work = ordered]
  BY <1>5, <1>6 DEF OrderBy
<1>8. CASE ordered = << >>
  <2>1. run'.pc \notin {"ordering", "panic"}
    BY <1>1, <1>7, <1>8, ReturnsElsewhere DEF Flows
  <2> QED
    BY <2>1 DEF Ordered
<1>9. CASE ordered # << >>
  <2>1. run'.pc = "ordering" /\ run'.prefix = Head(s) /\ run'.work = ordered /\ run'.current = c
    BY <1>1, <1>3, <1>7, <1>9 DEF RunRecords
  <2>2. ~Unsorted(checkpoints, c) => checkpoints[Head(s)].depth + Len(ordered) = checkpoints[c].depth
    BY <1>1, <1>4, <1>6, PayloadIsSorted, UnsortedIs
  <2> QED
    BY <1>2, <1>4, <2>1, <2>2 DEF Ordered
<1> QED
  BY <1>8, <1>9

\* OrderBy::step applies the orders again.
LEMMA ApplyOrderedOrders ==
  ASSUME TypeInv, Control(run), Ordered(checkpoints, run), ApplyOrdered
  PROVE  Ordered(checkpoints', run')
<1>1. run.pc = "ordering" /\ run.work # << >>
  BY DEF ApplyOrdered
<1>2. /\ AtStep(run) /\ run \in RunRecords /\ run.current \in DOMAIN checkpoints /\ run # NoRun
      /\ run.prefix \in DOMAIN checkpoints /\ Sound(checkpoints) /\ Tree(checkpoints)
  BY <1>1, AtWork DEF TypeInv, AtStep, Sound
<1>3. run.work \in Seq(OrdersIn(checkpoints))
  BY <1>1, <1>2 DEF TypeInv, RunOn, AtStep
<1>4. PICK c : c = Head(run.work)
  OBVIOUS
<1>5. c \in OrdersIn(checkpoints)
  BY <1>1, <1>3, <1>4
<1>6. PICK on \in DOMAIN checkpoints : on = run.prefix
  BY <1>2
<1>7. PICK e \in executions(c, on) :
        IF e.error # "none"
        THEN StepReturns("fail", run.current) /\ UNCHANGED checkpoints
        ELSE /\ checkpoints' = apply_with(on, e.mutation)
             /\ run' = [run EXCEPT !.prefix = Len(checkpoints'), !.work = Tail(@)]
  BY <1>4, <1>6 DEF ApplyOrdered
<1>8. CASE e.error # "none"
  <2>1. run'.pc \notin {"ordering", "panic"}
    BY <1>2, <1>7, <1>8, ReturnsElsewhere DEF Flows
  <2> QED
    BY <2>1 DEF Ordered
<1>9. CASE e.error = "none"
  <2>1. PICK Q : Q = checkpoints'
    OBVIOUS
  <2>2. Q = apply_with(on, e.mutation)
    BY <1>7, <1>9, <2>1
  <2>3. PICK m \in Mutations : Q = Built(checkpoints, on, m)
    BY <1>2, <1>5, <1>9, <2>2, OrderAdds DEF Adds
  <2>4. PICK p \in DOMAIN checkpoints : p = run.current
    BY <1>2
  <2>5. PICK l \in Nat : l = Len(checkpoints)
    BY <1>2, TreeAt
  <2>6. /\ Len(Q) = l + 1
        /\ \A x \in DOMAIN checkpoints : Q[x] = checkpoints[x]
        /\ Q[l + 1].depth = checkpoints[on].depth + 1
    <3>1. /\ Len(Q) = Len(checkpoints) + 1
          /\ \A x \in DOMAIN checkpoints : Q[x] = checkpoints[x]
          /\ Q[Len(checkpoints) + 1].depth = checkpoints[on].depth + 1
      <4>1. Tree(checkpoints)
        BY <1>2
      <4> QED
        BY <2>3, <4>1, BuiltIs
    <3> QED
      BY <2>5, <3>1
  <2>8. Unsorted(checkpoints, p) => Unsorted(Q, p)
    BY <1>2, <2>3, UnsortedStays
  <2>9. PICK w \in Nat : w = Len(run.work) /\ Len(Tail(run.work)) = w - 1
    BY <1>1, <1>3
  <2>10. Unsorted(checkpoints, p) \/ checkpoints[on].depth + w = checkpoints[p].depth
    BY <1>1, <1>2, <1>6, <2>4, <2>9 DEF Ordered
  <2>11. checkpoints[on].depth \in Nat
    BY <1>2, TreeAt
  <2>12. run'.pc = "ordering" /\ run'.current = p /\ run'.prefix = l + 1 /\ run'.work = Tail(run.work)
    BY <1>1, <1>2, <1>7, <1>9, <2>1, <2>4, <2>6 DEF RunRecords
  <2>13. Unsorted(Q, p) \/ Q[l + 1].depth + Len(Tail(run.work)) = Q[p].depth
    <3>1. CASE Unsorted(checkpoints, p)
      BY <2>8, <3>1
    <3>2. CASE checkpoints[on].depth + w = checkpoints[p].depth
      <4>1. Q[p].depth = checkpoints[p].depth /\ Q[l + 1].depth = checkpoints[on].depth + 1
        BY <2>6
      <4>2. Q[l + 1].depth + (w - 1) = Q[p].depth
        BY <2>11, <3>2, <4>1
      <4> QED
        BY <2>9, <4>2
    <3> QED
      BY <2>10, <3>1, <3>2
  <2> QED
    BY <2>1, <2>12, <2>13 DEF Ordered
<1> QED
  BY <1>8, <1>9

\* OrderBy::step ends, or its assertion fails.
LEMMA EndOrderByOrders ==
  ASSUME TypeInv, Control(run), Ordered(checkpoints, run), EndOrderBy
  PROVE  Ordered(checkpoints', run')
<1>1. run.pc = "ordering" /\ run.work = << >> /\ checkpoints' = checkpoints
  BY DEF EndOrderBy, vars
<1>2. /\ AtStep(run) /\ run \in RunRecords /\ run # NoRun /\ Tree(checkpoints)
      /\ run.prefix \in DOMAIN checkpoints
  BY <1>1, AtWork DEF AtStep, TypeInv, Sound
<1>3. CASE depth(run.prefix) = depth(run.current)
  <2>1. run'.pc \notin {"ordering", "panic"}
    BY <1>2, <1>3, ReturnsElsewhere DEF EndOrderBy, Flows
  <2> QED
    BY <2>1 DEF Ordered
<1>4. CASE depth(run.prefix) # depth(run.current)
  <2>1. checkpoints[run.prefix].depth \in Nat
    BY <1>2, TreeAt
  <2>2. checkpoints[run.prefix].depth + Len(run.work) # checkpoints[run.current].depth
    BY <1>1, <1>4, <2>1 DEF depth
  <2>3. Unsorted(checkpoints, run.current)
    BY <1>1, <1>2, <2>2 DEF Ordered
  <2>4. run'.pc = "panic" /\ run'.current = run.current
    BY <1>2, <1>4 DEF EndOrderBy, RunRecords
  <2> QED
    BY <1>1, <2>3, <2>4 DEF Ordered
<1> QED
  BY <1>3, <1>4

\* No other step begins to order, or fails an assertion.
LEMMA OthersOrderNothing ==
  ASSUME TypeInv, Control(run),
         \/ \E c \in Combinators, limit \in GasLimits : Start(c, limit)
         \/ DeadlineReached \/ Finish \/ EndOneStep
         \/ Prologue \/ ApplySequencer \/ EndPrologue
         \/ \E required \in BOOLEAN : Epilogue(required)
         \/ ScoreFails \/ AppendNothing \/ \E tx \in Transactions : AppendOrder(tx)
  PROVE  run'.pc \notin {"ordering", "panic"}
<1>1. ASSUME NEW c \in Combinators, NEW limit \in GasLimits, Start(c, limit) PROVE run'.pc = "between"
  BY <1>1 DEF Start
<1>2. ASSUME run.pc \in {"between", "recording", "prologue"} PROVE run \in RunRecords
  <2>1. run # NoRun
    BY <1>2 DEF NoRun
  <2> QED
    BY <2>1 DEF TypeInv, RunOn
<1>3. CASE DeadlineReached \/ Finish
  <2>1. run \in RunRecords
    BY <1>2, <1>3 DEF DeadlineReached, Finish
  <2>2. \/ run' = returned("ok", run.initial) \/ run' = returned("break", run.current)
        \/ run' = returned("ok", run.current)
    BY <1>3 DEF DeadlineReached, Finish
  <2> QED
    BY <2>1, <2>2 DEF returned, RunRecords
<1>4. CASE EndOneStep
  <2>1. run \in RunRecords
    BY <1>2, <1>4 DEF EndOneStep
  <2>2. PICK recorded : run' = [run EXCEPT !.pc = reported(recorded)]
    BY <1>4 DEF EndOneStep
  <2>3. reported(recorded) \notin {"ordering", "panic"}
    BY DEF reported
  <2> QED
    BY <2>1, <2>2, <2>3 DEF RunRecords
<1>5. ASSUME NEW flow \in Flows, NEW payload, StepReturns(flow, payload),
             run.pc = "prologue" \/ \E step : Calls(step)
      PROVE  run'.pc \notin {"ordering", "panic"}
  <2>1. AtStep(run)
    BY <1>5, AtWork
  <2> QED
    BY <1>5, <2>1, ReturnsElsewhere
<1>6. "ok" \in Flows /\ "fail" \in Flows /\ "break" \in Flows
  BY DEF Flows
<1>7. CASE Prologue
  <2>1. CASE run' = [run EXCEPT !.pc = "prologue", !.prefix = run.current, !.work = Sequencer]
    <3>1. run \in RunRecords
      BY <1>2, <1>7 DEF Prologue, Calls
    <3> QED
      BY <2>1, <3>1 DEF RunRecords
  <2>2. CASE StepReturns("fail", run.current)
    BY <1>5, <1>6, <1>7, <2>2 DEF Prologue
  <2> QED
    BY <1>7, <2>1, <2>2 DEF Prologue
<1>8. CASE ApplySequencer
  <2>1. run.pc = "prologue" /\ run \in RunRecords
    BY <1>2, <1>8 DEF ApplySequencer
  <2>2. \/ StepReturns("fail", run.current)
        \/ run' = [run EXCEPT !.prefix = Len(checkpoints'), !.work = Tail(@)]
    BY <1>8 DEF ApplySequencer
  <2>3. CASE run' = [run EXCEPT !.prefix = Len(checkpoints'), !.work = Tail(@)]
    BY <2>1, <2>3 DEF RunRecords
  <2> QED
    BY <1>5, <1>6, <2>1, <2>2, <2>3
<1>9. CASE EndPrologue
  BY <1>5, <1>6, <1>9 DEF EndPrologue
<1>10. ASSUME NEW required \in BOOLEAN, Epilogue(required) PROVE run'.pc \notin {"ordering", "panic"}
  <2>1. (\E step : Calls(step)) /\ (IF required THEN "fail" ELSE "ok") \in Flows
    BY <1>6, <1>10 DEF Epilogue
  <2>2. \/ StepReturns(IF required THEN "fail" ELSE "ok", run.current)
        \/ StepReturns("ok", Len(checkpoints'))
    BY <1>10 DEF Epilogue
  <2> QED
    BY <1>5, <1>6, <2>1, <2>2
<1>11. CASE ScoreFails \/ AppendNothing
  BY <1>5, <1>6, <1>11 DEF ScoreFails, AppendNothing
<1>12. ASSUME NEW tx \in Transactions, AppendOrder(tx) PROVE run'.pc \notin {"ordering", "panic"}
  BY <1>5, <1>6, <1>12 DEF AppendOrder
<1> QED
  BY <1>1, <1>3, <1>4, <1>7, <1>8, <1>9, <1>10, <1>11, <1>12

\* Every step, whoever takes it.
LEMMA EveryStepOrders ==
  ASSUME IInv, Ordered(checkpoints, run), StepsNext
  PROVE  Ordered(checkpoints', run')
<1>1. TypeInv /\ Control(run)
  BY DEF IInv
<1>2. CASE ~Running /\ UNCHANGED run
  <2>1. run = NoRun
    BY <1>1, <1>2 DEF Running, TypeInv, RunOn, RunRecords
  <2> QED
    BY <1>2, <2>1 DEF Ordered
<1>3. CASE OrderBy
  BY <1>1, <1>3, OrderByOrders
<1>4. CASE ApplyOrdered
  BY <1>1, <1>4, ApplyOrderedOrders
<1>5. CASE EndOrderBy
  BY <1>1, <1>5, EndOrderByOrders
<1>6. CASE \/ \E c \in Combinators, limit \in GasLimits : Start(c, limit)
           \/ DeadlineReached \/ Finish \/ EndOneStep
           \/ Prologue \/ ApplySequencer \/ EndPrologue
           \/ \E required \in BOOLEAN : Epilogue(required)
           \/ ScoreFails \/ AppendNothing \/ \E tx \in Transactions : AppendOrder(tx)
  <2>1. run'.pc \notin {"ordering", "panic"}
    BY <1>1, <1>6, OthersOrderNothing
  <2> QED
    BY <2>1 DEF Ordered
<1> QED
  BY <1>2, <1>3, <1>4, <1>5, <1>6 DEF StepsNext

\* What OrderBy makes of these orders.
Keeps(s, ordered) ==
  /\ ToSet(ordered) = {c \in ToSet(s) : ~is_barrier(c)}
  /\ \A i \in DOMAIN ordered :
       /\ ~Waits(ordered[i], From(ordered, i))
       /\ \A c \in From(ordered, i) : score(c) > score(ordered[i]) => Waits(c, From(ordered, i))

LEMMA KeepsOrders ==
  ASSUME NEW s, s = history_staging(run.current), run.pc # "panic", Keeps(s, sorted(s))
  PROVE  OrderingKeepsOrders
<1>1. Keeps(history_staging(run.current), sorted(history_staging(run.current)))
  OBVIOUS
<1> QED
  BY <1>1 DEF OrderingKeepsOrders, Keeps, Waits, From

\* OrderBy::step applies every staged order again, each as soon as no better one could be
\* without coming before a lower nonce of one of its signers, and its assertion on the
\* length of the payload does not fail: in payloads of any size, with any scores, as long
\* as no order is staged twice, no bundle has two transactions of one signer, and none was
\* sent with an optional transaction twice.
THEOREM OrderingCorrect == StepsSpec => []OrderingKeepsOrders
<1>1. StepsInit => Ordered(checkpoints, run)
  BY DEF StepsInit, Ordered
<1>2. IInv /\ Ordered(checkpoints, run) /\ [StepsNext]_stepVars => Ordered(checkpoints, run)'
  <2>1. ASSUME IInv, Ordered(checkpoints, run), StepsNext PROVE Ordered(checkpoints', run')
    BY <2>1, EveryStepOrders
  <2>2. ASSUME Ordered(checkpoints, run), UNCHANGED stepVars PROVE Ordered(checkpoints', run')
    BY <2>2 DEF stepVars, vars
  <2> QED
    BY <2>1, <2>2
<1>3. IInv /\ Ordered(checkpoints, run) => OrderingKeepsOrders
  <2> SUFFICES ASSUME IInv, Ordered(checkpoints, run), run.pc \in {"ordering", "panic"}
               PROVE  OrderingKeepsOrders
    BY DEF OrderingKeepsOrders
  <2>1. run # NoRun
    BY DEF NoRun
  <2>2. run.current \in DOMAIN checkpoints /\ Sound(checkpoints) /\ Tree(checkpoints)
    BY <2>1 DEF IInv, TypeInv, RunOn, Sound
  <2>3. PICK c \in DOMAIN checkpoints : c = run.current
    BY <2>2
  <2>4. PICK s : s = StagingOf(checkpoints, c)
    OBVIOUS
  <2>5. s = history_staging(run.current) /\ s \in Seq(DOMAIN checkpoints)
    BY <2>2, <2>3, <2>4, SpansAre, StagedDepth DEF Staged
  <2>6. Troubled(checkpoints, s) <=> repeats(s) \/ \E e \in ToSet(s) : sends_twice(e)
    BY <2>2, <2>5, TroubledIs
  <2>11. Unsorted(checkpoints, c) <=> ~OnceIn(c) \/ Troubled(checkpoints, s)
    BY <2>2, <2>4, UnsortedIs
  <2>7. run.pc = "panic" => Unsorted(checkpoints, c)
    BY <2>1, <2>3 DEF Ordered
  <2>8. PICK ordered : ordered = sorted(s)
    OBVIOUS
  <2>9. CASE Unsorted(checkpoints, c)
    BY <2>3, <2>5, <2>6, <2>9, <2>11 DEF OrderingKeepsOrders
  <2>10. CASE ~Unsorted(checkpoints, c)
    <3>1. /\ ToSet(ordered) = {e \in ToSet(s) : ~is_barrier(e)}
          /\ DOMAIN ordered = 1..Len(ordered)
          /\ \A i \in 1..Len(ordered) : Placed(ordered[i], From(ordered, i))
      BY <2>2, <2>4, <2>8, <2>10, <2>11, PayloadIsSorted
    <3>2. run.pc # "panic"
      BY <2>7, <2>10
    <3>3. \A i \in DOMAIN ordered :
            /\ ~Waits(ordered[i], From(ordered, i))
            /\ \A e \in From(ordered, i) : score(e) > score(ordered[i]) => Waits(e, From(ordered, i))
      BY <3>1 DEF Placed
    <3> QED
      BY <2>5, <2>8, <3>1, <3>2, <3>3, KeepsOrders DEF Keeps
  <2> QED
    BY <2>9, <2>10
<1> QED
  BY <1>1, <1>2, <1>3, Invariance, PTL DEF StepsSpec
=============================================================================
