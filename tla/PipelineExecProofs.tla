------------------------- MODULE PipelineExecProofs -------------------------
(***************************************************************************)
(* The safety of PipelineExec for every set of well-formed pipelines, every*)
(* limits factory and every outcome of the steps, and the correctness of   *)
(* the step navigator: facts about step paths and the scopes they select,  *)
(* what the recursive functions of the navigator compute, what             *)
(* switch_context does to a chain of active scopes, an inductive invariant *)
(* of the executor and what follows from it, the refinement of             *)
(* PayloadJobLifecycle, and the navigator against NaviReference.           *)
(***************************************************************************)
EXTENDS PipelineExec, NaviReference, WellFoundedInduction, SequenceTheorems,
        FiniteSetTheorems, TLAPS

(***************************************************************************)
(* Prefixes                                                                *)
(***************************************************************************)

\* Every non-empty set of naturals has a least element.
LEMMA LeastNat ==
  ASSUME NEW T \in SUBSET Nat, T # {}
  PROVE  \E x \in T : \A y \in T : x <= y
<1> DEFINE R == OpToRel(<, Nat)
<1>1. IsWellFoundedOn(R, Nat)
  BY NatLessThanWellFounded
<1>2. \A x, y \in Nat : x < y => <<x, y>> \in R
  BY DEF OpToRel
<1> HIDE DEF R
<1>3. PICK x \in T : \A y \in T : ~ (<<y, x>> \in R)
  BY <1>1, WFMin
<1>4. ASSUME NEW y \in T PROVE x <= y
  <2>1. ~ (<<y, x>> \in R)
    BY <1>3
  <2>2. y \in Nat /\ x \in Nat
    OBVIOUS
  <2> QED
    BY <2>1, <2>2, <1>2
<1> QED
  BY <1>4

\* The prefixes of a path, which are its ancestors.
LEMMA PrefixProperties ==
  ASSUME NEW s \in Seq(Nat), NEW k \in 0..Len(s)
  PROVE  /\ SubSeq(s, 1, k) \in Seq(Nat)
         /\ Len(SubSeq(s, 1, k)) = k
         /\ \A i \in 1..k : SubSeq(s, 1, k)[i] = s[i]
         /\ is_ancestor_of(SubSeq(s, 1, k), s)
<1>1. \A i \in 1..k : s[i] \in Nat
  OBVIOUS
<1>2. /\ SubSeq(s, 1, k) \in Seq(Nat)
      /\ Len(SubSeq(s, 1, k)) = IF 1 <= k THEN k - 1 + 1 ELSE 0
      /\ \A i \in 1..(k - 1 + 1) : SubSeq(s, 1, k)[i] = s[1 + i - 1]
  BY <1>1, SubSeqProperties, 1 \in Int, k \in Int
<1>3. /\ SubSeq(s, 1, k) \in Seq(Nat)
      /\ Len(SubSeq(s, 1, k)) = k
      /\ \A i \in 1..k : SubSeq(s, 1, k)[i] = s[i]
  BY <1>2
<1> QED
  BY <1>3 DEF is_ancestor_of

\* An ancestor of a path is determined by its length.
LEMMA AncestorIsPrefix ==
  ASSUME NEW a \in Seq(Nat), NEW s \in Seq(Nat), is_ancestor_of(a, s)
  PROVE  /\ Len(a) \in 0..Len(s)
         /\ a = SubSeq(s, 1, Len(a))
<1>1. Len(a) \in 0..Len(s)
  BY DEF is_ancestor_of
<1>2. /\ SubSeq(s, 1, Len(a)) \in Seq(Nat)
      /\ Len(SubSeq(s, 1, Len(a))) = Len(a)
      /\ \A i \in 1..Len(a) : SubSeq(s, 1, Len(a))[i] = s[i]
  BY <1>1, PrefixProperties
<1> QED
  BY <1>1, <1>2, SeqEqual DEF is_ancestor_of

\* The ancestors of a path form a chain, and ancestry is transitive.
LEMMA AncestorOrder ==
  ASSUME NEW a \in Seq(Nat), NEW b \in Seq(Nat), NEW s \in Seq(Nat)
  PROVE  /\ is_ancestor_of(a, a)
         /\ is_ancestor_of(a, b) /\ is_ancestor_of(b, s) => is_ancestor_of(a, s)
         /\ is_ancestor_of(a, s) /\ is_ancestor_of(b, s) /\ Len(a) <= Len(b)
              => is_ancestor_of(a, b)
         /\ is_ancestor_of(a, b) /\ is_ancestor_of(b, a) => a = b
         /\ is_ancestor_of(<< >>, a)
<1>1. is_ancestor_of(a, b) /\ is_ancestor_of(b, a) => a = b
  BY SeqEqual DEF is_ancestor_of
<1> QED
  BY <1>1 DEF is_ancestor_of

\* common_ancestor is the greatest common ancestor.
LEMMA CommonAncestor ==
  ASSUME NEW a \in Seq(Nat), NEW b \in Seq(Nat)
  PROVE  /\ common_ancestor(a, b) \in Seq(Nat)
         /\ is_ancestor_of(common_ancestor(a, b), a)
         /\ is_ancestor_of(common_ancestor(a, b), b)
         /\ \A s \in Seq(Nat) : is_ancestor_of(s, a) /\ is_ancestor_of(s, b)
              => is_ancestor_of(s, common_ancestor(a, b))
<1> DEFINE Pre(k) == SubSeq(a, 1, k)
           Common(k) == is_ancestor_of(Pre(k), b)
           T == {j \in 0..Len(a) : Common(Len(a) - j)}
<1>1. Common(0)
  BY PrefixProperties, 0 \in 0..Len(a) DEF is_ancestor_of
<1>2. T \in SUBSET Nat /\ T # {}
  <2>1. Len(a) \in T
    BY <1>1
  <2> QED
    BY <2>1
<1>3. PICK j \in T : \A i \in T : j <= i
  BY <1>2, LeastNat
<1> DEFINE m == Len(a) - j
<1>4. m \in 0..Len(a) /\ Common(m)
  BY <1>3
<1>5. \A k \in 0..Len(a) : Common(k) => k <= m
  <2> SUFFICES ASSUME NEW k \in 0..Len(a), Common(k) PROVE k <= m
    OBVIOUS
  <2>1. Len(a) - k \in 0..Len(a) /\ Len(a) - (Len(a) - k) = k
    OBVIOUS
  <2>2. Len(a) - k \in T
    BY <2>1
  <2>3. j <= Len(a) - k
    BY <2>2, <1>3
  <2>4. j \in Nat /\ Len(a) \in Nat /\ k \in Nat
    BY <1>2
  <2> HIDE DEF T
  <2> QED
    BY <2>3, <2>4
<1> DEFINE c == common_ancestor(a, b)
<1>6. \A k \in 0..Len(a) : Pre(k) \in Seq(Nat) /\ Len(Pre(k)) = k /\ is_ancestor_of(Pre(k), a)
  BY PrefixProperties
<1>7. \E d \in {Pre(k) : k \in 0..Len(a)} :
        /\ is_ancestor_of(d, b)
        /\ \A k \in 0..Len(a) : Common(k) => k <= Len(d)
  BY <1>4, <1>5, <1>6
<1>8. /\ c \in {Pre(k) : k \in 0..Len(a)}
      /\ is_ancestor_of(c, b)
      /\ \A k \in 0..Len(a) : Common(k) => k <= Len(c)
  BY <1>7 DEF common_ancestor
<1> HIDE DEF c, Common
<1>9. c \in Seq(Nat) /\ is_ancestor_of(c, a)
  BY <1>8, <1>6
<1>10. ASSUME NEW s \in Seq(Nat), is_ancestor_of(s, a), is_ancestor_of(s, b)
       PROVE  is_ancestor_of(s, c)
  <2>1. Len(s) \in 0..Len(a) /\ s = Pre(Len(s))
    BY <1>10, AncestorIsPrefix
  <2>2. Len(s) <= Len(c)
    BY <2>1, <1>8, <1>10 DEF Common
  <2> QED
    BY <2>2, <1>9, <1>10, AncestorOrder
<1> QED
  BY <1>8, <1>9, <1>10 DEF c

\* A prefix of a prefix.
LEMMA PrefixOfPrefix ==
  ASSUME NEW s \in Seq(Nat), NEW k \in 0..Len(s), NEW j \in 0..k
  PROVE  SubSeq(SubSeq(s, 1, k), 1, j) = SubSeq(s, 1, j)
<1> DEFINE u == SubSeq(s, 1, k)
           v == SubSeq(u, 1, j)
           w == SubSeq(s, 1, j)
<1>1. u \in Seq(Nat) /\ Len(u) = k /\ \A i \in 1..k : u[i] = s[i]
  BY PrefixProperties
<1>2. w \in Seq(Nat) /\ Len(w) = j /\ \A i \in 1..j : w[i] = s[i]
  <2>1. j \in 0..Len(s)
    OBVIOUS
  <2> QED
    BY <2>1, PrefixProperties
<1> HIDE DEF u
<1>3. v \in Seq(Nat) /\ Len(v) = j /\ \A i \in 1..j : v[i] = u[i]
  <2>1. j \in 0..Len(u)
    BY <1>1
  <2> QED
    BY <1>1, <2>1, PrefixProperties
<1> HIDE DEF v, w
<1>4. \A i \in 1..j : v[i] = w[i]
  BY <1>1, <1>2, <1>3
<1>5. v = w
  BY <1>2, <1>3, <1>4, SeqEqual
<1> QED
  BY <1>5 DEF u, v, w

(***************************************************************************)
(* The scopes of a pipeline                                                *)
(***************************************************************************)

\* With a pipeline, all the pipelines that hold it are in the tree.
LEMMA DomainPrefixClosed ==
  ASSUME NEW t, WellFormed(t), NEW p \in DOMAIN t, NEW k \in 0..Len(p)
  PROVE  SubSeq(p, 1, k) \in DOMAIN t
<1> DEFINE n == Len(p)
           Out(j) == SubSeq(p, 1, n - j) \notin DOMAIN t
           T == {j \in 0..n : Out(j)}
<1>1. p \in Seq(Nat) /\ n \in Nat /\ k \in 0..n
  BY DEF WellFormed
<1>2. SUFFICES ASSUME T # {} PROVE FALSE
  <2>1. SUFFICES ASSUME ~(SubSeq(p, 1, k) \in DOMAIN t) PROVE FALSE
    OBVIOUS
  <2>2. n - k \in 0..n /\ n - (n - k) = k
    BY <1>1
  <2>3. n - k \in T
    BY <2>1, <2>2
  <2> QED
    BY <2>3, <1>2
<1>3. T \in SUBSET Nat
  OBVIOUS
<1>4. PICK j \in T : \A i \in T : j <= i
  BY <1>2, <1>3, LeastNat
<1>5. j \in 0..n /\ Out(j)
  OBVIOUS
<1>6. j # 0
  <2>1. Len(SubSeq(p, 1, n)) = n /\ SubSeq(p, 1, n) \in Seq(Nat)
        /\ \A i \in 1..n : SubSeq(p, 1, n)[i] = p[i]
    BY <1>1, n \in 0..Len(p), PrefixProperties
  <2>2. SubSeq(p, 1, n) = p
    BY <2>1, <1>1, SeqEqual
  <2> QED
    BY <2>2, <1>5, n - 0 = n
<1> DEFINE q == SubSeq(p, 1, n - (j - 1))
<1>7. j - 1 \in 0..n /\ ~(j <= j - 1) /\ n - (j - 1) \in 1..n /\ n - (j - 1) - 1 = n - j
  BY <1>1, <1>5, <1>6
<1>8. q \in DOMAIN t
  <2>1. j - 1 \notin T
    BY <1>4, <1>7
  <2> QED
    BY <2>1, <1>7
<1>9. q \in Seq(Nat) /\ Len(q) = n - (j - 1)
  BY <1>1, <1>7, PrefixProperties
<1>10. q # << >>
  <2>1. Len(q) # 0
    BY <1>9, <1>7
  <2> HIDE DEF q
  <2> QED
    BY <2>1, Len(<< >>) = 0
<1>11. SubSeq(q, 1, Len(q) - 1) \in DOMAIN t
  BY <1>8, <1>10 DEF WellFormed, scope_of
<1>12. n - j \in 0..(n - (j - 1))
  BY <1>1, <1>5, <1>7
<1>13. SubSeq(q, 1, n - j) = SubSeq(p, 1, n - j)
  BY <1>1, <1>7, <1>12, PrefixOfPrefix
<1> QED
  BY <1>5, <1>7, <1>9, <1>11, <1>13

\* between, towards an ancestor: from the path itself up.
LEMMA BetweenUp ==
  ASSUME NEW a \in Seq(Nat), NEW c \in Seq(Nat), is_ancestor_of(c, a)
  PROVE  /\ DOMAIN between(a, c) = 1..(Len(a) - Len(c))
         /\ \A i \in 1..(Len(a) - Len(c)) : between(a, c)[i] = SubSeq(a, 1, Len(a) + 1 - i)
<1>1. CASE is_ancestor_of(a, c)
  <2>1. Len(a) = Len(c)
    BY <1>1 DEF is_ancestor_of
  <2> QED
    BY <1>1, <2>1 DEF between
<1>2. CASE ~is_ancestor_of(a, c)
  BY <1>2 DEF between
<1> QED
  BY <1>1, <1>2

\* between, towards a descendant: from the first path below down to it.
LEMMA BetweenDown ==
  ASSUME NEW b \in Seq(Nat), NEW c \in Seq(Nat), is_ancestor_of(c, b)
  PROVE  /\ DOMAIN between(c, b) = 1..(Len(b) - Len(c))
         /\ \A i \in 1..(Len(b) - Len(c)) : between(c, b)[i] = SubSeq(b, 1, Len(c) + i)
BY DEF between

\* The scope of a step: the pipeline that holds it.
LEMMA StepScope ==
  ASSUME NEW t, WellFormed(t), NEW p \in StepPaths(t)
  PROVE  /\ p # NoStep
         /\ scope_of(p) \in DOMAIN t
<1>1. PICK q \in DOMAIN t, i \in Nat : p = Append(q, i)
  <2>1. \A q \in DOMAIN t : DOMAIN t[q].steps \subseteq Nat
    BY DEF WellFormed
  <2> QED
    BY <2>1 DEF StepPaths, PROLOGUE_INDEX, EPILOGUE_INDEX
<1>2. q \in Seq(Nat)
  BY DEF WellFormed
<1>3. /\ p \in Seq(Nat) /\ Len(p) = Len(q) + 1 /\ SubSeq(p, 1, Len(q)) = q
  BY <1>1, <1>2, AppendProperties, SubSeqProperties
<1>4. p # << >>
  BY <1>3, <1>2
<1>5. scope_of(p) = q
  BY <1>2, <1>3 DEF scope_of
<1> QED
  BY <1>4, <1>5 DEF NoStep

(***************************************************************************)
(* Paths and ranks                                                         *)
(***************************************************************************)

\* Induction, for a set of naturals.
LEMMA NatSetInduction ==
  ASSUME NEW T \in SUBSET Nat, 0 \in T, \A n \in T : n + 1 \in T
  PROVE  T = Nat
<1> SUFFICES ASSUME T # Nat PROVE FALSE
  OBVIOUS
<1> DEFINE Rest == Nat \ T
<1>1. Rest \in SUBSET Nat /\ Rest # {}
  OBVIOUS
<1> HIDE DEF Rest
<1>2. PICK x \in Rest : \A y \in Rest : x <= y
  BY <1>1, LeastNat
<1>3. x \in Nat /\ x # 0 /\ x \notin T
  BY <1>2 DEF Rest
<1>4. x - 1 \in Nat /\ ~(x <= x - 1) /\ (x - 1) + 1 = x
  BY <1>3
<1>5. x - 1 \in T
  BY <1>2, <1>4 DEF Rest
<1> QED
  BY <1>3, <1>4, <1>5

\* Induction on the rank of the elements of a set.
LEMMA RankInduction ==
  ASSUME NEW D, NEW R, \A x \in D : R[x] \in Nat, NEW S \in SUBSET D,
         \A x \in D : (\A y \in D : R[y] < R[x] => y \in S) => x \in S
  PROVE  S = D
<1> SUFFICES ASSUME NEW z \in D, z \notin S PROVE FALSE
  OBVIOUS
<1> DEFINE T == {R[x] : x \in D \ S}
<1>1. T \in SUBSET Nat /\ T # {}
  OBVIOUS
<1> HIDE DEF T
<1>2. PICK n \in T : \A m \in T : n <= m
  BY <1>1, LeastNat
<1>3. PICK x \in D \ S : n = R[x]
  BY <1>2 DEF T
<1>4. ASSUME NEW y \in D, R[y] < R[x], y \notin S PROVE FALSE
  <2>1. R[y] \in T
    BY <1>4 DEF T
  <2> QED
    BY <1>2, <1>3, <1>4, <2>1
<1> QED
  BY <1>3, <1>4

\* A path and the item at its end.
LEMMA AppendPath ==
  ASSUME NEW p \in Seq(Nat), NEW i \in Nat
  PROVE  /\ Append(p, i) \in Seq(Nat)
         /\ Append(p, i) # << >>
         /\ Len(Append(p, i)) = Len(p) + 1
         /\ scope_of(Append(p, i)) = p
         /\ leaf(Append(p, i)) = i
         /\ is_toplevel(Append(p, i)) <=> p = << >>
         /\ is_ancestor_of(p, Append(p, i))
<1>1. /\ Append(p, i) \in Seq(Nat) /\ Len(Append(p, i)) = Len(p) + 1
      /\ \A k \in 1..Len(p) : Append(p, i)[k] = p[k]
      /\ Append(p, i)[Len(p) + 1] = i
  OBVIOUS
<1>2. Append(p, i) # << >>
  BY <1>1
<1>3. scope_of(Append(p, i)) = p
  <2>1. SubSeq(Append(p, i), 1, Len(p)) = p
    BY <1>1, AppendProperties, SubSeqProperties
  <2> QED
    BY <1>1, <2>1 DEF scope_of
<1>4. Len(p) = 0 <=> p = << >>
  OBVIOUS
<1> QED
  BY <1>1, <1>2, <1>3, <1>4 DEF leaf, is_toplevel, is_ancestor_of

\* Every path but the empty one is one.
LEMMA PathSplit ==
  ASSUME NEW q \in Seq(Nat), q # << >>
  PROVE  /\ scope_of(q) \in Seq(Nat)
         /\ leaf(q) \in Nat
         /\ q = Append(scope_of(q), leaf(q))
         /\ Len(scope_of(q)) = Len(q) - 1
         /\ Len(q) # 0
<1>1. Len(q) \in Nat /\ Len(q) # 0
  OBVIOUS
<1>2. \A k \in 1..Len(q) : q[k] \in Nat
  OBVIOUS
<1>3. Len(q) - 1 \in 0..Len(q) /\ Len(q) \in 1..Len(q)
  BY <1>1
<1>5. /\ scope_of(q) \in Seq(Nat) /\ Len(scope_of(q)) = Len(q) - 1
      /\ \A k \in 1..(Len(q) - 1) : scope_of(q)[k] = q[k]
  BY <1>3, PrefixProperties DEF scope_of
<1>6. leaf(q) \in Nat
  BY <1>2, <1>3 DEF leaf
<1>7. /\ Append(scope_of(q), leaf(q)) \in Seq(Nat) /\ Len(Append(scope_of(q), leaf(q))) = Len(q)
      /\ \A k \in 1..Len(q) : Append(scope_of(q), leaf(q))[k] = q[k]
  BY <1>1, <1>5, <1>6 DEF leaf
<1>8. q = Append(scope_of(q), leaf(q))
  BY <1>7, SeqEqual
<1> QED
  BY <1>1, <1>5, <1>6, <1>8

\* The tree is finite: nothing is nested deeper than some number.
LEMMA Depth ==
  ASSUME NEW t, WellFormed(t)
  PROVE  \E m \in Nat : \A p \in DOMAIN t : Len(p) <= m
<1> DEFINE D == DOMAIN t
           T == {n \in Nat : \A S \in SUBSET D :
                               Cardinality(S) = n => \E m \in Nat : \A p \in S : Len(p) <= m}
<1>1. IsFiniteSet(D) /\ \A p \in D : Len(p) \in Nat
  BY DEF WellFormed
<1>2. \A S \in SUBSET D : IsFiniteSet(S)
  BY <1>1, FS_Subset
<1> HIDE DEF D
<1>3. 0 \in T
  <2>1. \A S \in SUBSET D : Cardinality(S) = 0 => S = {}
    BY <1>2, FS_EmptySet
  <2> QED
    BY <2>1
<1>4. ASSUME NEW n \in T PROVE n + 1 \in T
  <2>1. ASSUME NEW S \in SUBSET D, Cardinality(S) = n + 1
        PROVE  \E m \in Nat : \A p \in S : Len(p) <= m
    <3>1. S # {}
      BY <2>1, FS_EmptySet
    <3>2. PICK x \in S : TRUE
      BY <3>1
    <3>3. Cardinality(S \ {x}) = n
      BY <1>2, <2>1, FS_RemoveElement
    <3>4. PICK m \in Nat : \A p \in S \ {x} : Len(p) <= m
      BY <3>3
    <3>5. Len(x) \in Nat /\ Len(x) + m \in Nat
      BY <1>1
    <3>6. \A p \in S : Len(p) <= Len(x) + m
      BY <1>1, <3>4, <3>5
    <3> QED
      BY <3>5, <3>6
  <2> QED
    BY <2>1
<1>5. T = Nat
  <2> HIDE DEF T
  <2>1. T \in SUBSET Nat
    BY DEF T
  <2> QED
    BY <1>3, <1>4, <2>1, NatSetInduction
<1>6. Cardinality(D) \in Nat
  BY <1>1, FS_CardinalityType
<1> QED
  BY <1>5, <1>6 DEF D

(***************************************************************************)
(* The recursive functions of the navigator                                *)
(***************************************************************************)

\* What `first`, `after` and `yield` are at one argument, given the others.
FirstBody(t, f, p) ==
  IF is_empty(t[p]) THEN NoStep
  ELSE IF t[p].prologue THEN Append(p, PROLOGUE_INDEX)
  ELSE IF t[p].steps = << >> THEN Append(p, EPILOGUE_INDEX)
  ELSE IF Append(p, STEP0_INDEX) \in DOMAIN t
       THEN f[Append(p, STEP0_INDEX)]
       ELSE Append(p, STEP0_INDEX)

AfterBody(t, f, s) ==
  IF s = << >> THEN NoStep
  ELSE IF leaf(s) >= Len(t[scope_of(s)].steps)
  THEN IF behavior(t, s) = "Loop" THEN enter_step0(t, s)
       ELSE IF t[scope_of(s)].epilogue THEN replace_leaf(s, EPILOGUE_INDEX)
       ELSE f[scope_of(s)]
  ELSE enter(t, increment_leaf(s))

Frames(t) == (DOMAIN t) \X (Nat \ {0})

YieldBody(t, f, x) ==
  IF x[2] > Len(t[x[1]].steps)
  THEN Optional(t[x[1]].epilogue, Append(x[1], EPILOGUE_INDEX))
  ELSE (IF Append(x[1], x[2]) \in DOMAIN t
        THEN Optional(t[Append(x[1], x[2])].prologue, Append(Append(x[1], x[2]), PROLOGUE_INDEX))
             \o f[<<Append(x[1], x[2]), 1>>]
        ELSE <<Append(x[1], x[2])>>)
       \o f[<<x[1], x[2] + 1>>]

\* The items of a pipeline that are pipelines are one level deeper.
LEMMA NestedPath ==
  ASSUME NEW t, WellFormed(t), NEW p \in DOMAIN t
  PROVE  /\ p \in Seq(Nat)
         /\ Len(t[p].steps) \in Nat
         /\ Len(t[p].steps) < EPILOGUE_INDEX
         /\ DOMAIN t[p].steps = 1..Len(t[p].steps)
         /\ t[p].steps = << >> <=> Len(t[p].steps) = 0
         /\ \A i \in Nat : Append(p, i) \in DOMAIN t => i \in DOMAIN t[p].steps
         /\ \A i \in DOMAIN t[p].steps :
              /\ t[p].steps[i] \in {"Step", "Once", "Loop"}
              /\ t[p].steps[i] \in Behavior <=> Append(p, i) \in DOMAIN t
         /\ p # << >> => scope_of(p) \in DOMAIN t /\ leaf(p) \in DOMAIN t[scope_of(p)].steps
<1>1. /\ p \in Seq(Nat)
      /\ t[p].steps \in Seq(StepOrPipeline)
      /\ Len(t[p].steps) < EPILOGUE_INDEX
      /\ \A i \in DOMAIN t[p].steps : t[p].steps[i] \in Behavior <=> Append(p, i) \in DOMAIN t
      /\ p # << >> => scope_of(p) \in DOMAIN t /\ leaf(p) \in DOMAIN t[scope_of(p)].steps
  BY DEF WellFormed
<1>2. /\ Len(t[p].steps) \in Nat
      /\ DOMAIN t[p].steps = 1..Len(t[p].steps)
      /\ t[p].steps = << >> <=> Len(t[p].steps) = 0
      /\ \A i \in DOMAIN t[p].steps : t[p].steps[i] \in {"Step", "Once", "Loop"}
  BY <1>1 DEF StepOrPipeline, Behavior
<1>3. ASSUME NEW i \in Nat, Append(p, i) \in DOMAIN t PROVE i \in DOMAIN t[p].steps
  <2>1. scope_of(Append(p, i)) = p /\ leaf(Append(p, i)) = i /\ Append(p, i) # << >>
    BY <1>1, AppendPath
  <2> QED
    BY <1>3, <2>1 DEF WellFormed
<1> QED
  BY <1>1, <1>2, <1>3

\* entrypoint goes down from pipeline to pipeline, and comes to an end.
LEMMA EntrypointIs ==
  ASSUME NEW t, WellFormed(t)
  PROVE  \A p \in DOMAIN t : entrypoint(t)[p] = FirstBody(t, entrypoint(t), p)
<1> DEFINE D == DOMAIN t
           Eq(f) == f = [p \in D |-> FirstBody(t, f, p)]
<1>1. PICK m \in Nat : \A p \in D : Len(p) <= m
  BY Depth
<1> DEFINE T == {n \in Nat : \E f : \A p \in D : Len(p) + n > m => f[p] = FirstBody(t, f, p)}
<1>2. \A p \in D : Len(p) \in Nat /\ p \in Seq(Nat)
  BY DEF WellFormed
<1>3. 0 \in T
  <2>1. \A p \in D : ~(Len(p) + 0 > m)
    BY <1>1, <1>2
  <2> QED
    BY <2>1
<1>4. ASSUME NEW n \in T PROVE n + 1 \in T
  <2>1. PICK f : \A p \in D : Len(p) + n > m => f[p] = FirstBody(t, f, p)
    OBVIOUS
  <2> DEFINE g == [p \in D |-> FirstBody(t, f, p)]
  <2>2. \A p \in D : g[p] = FirstBody(t, f, p)
    OBVIOUS
  <2> HIDE DEF g
  <2>3. ASSUME NEW p \in D, Len(p) + (n + 1) > m PROVE g[p] = FirstBody(t, g, p)
    <3> DEFINE c == Append(p, STEP0_INDEX)
    <3>1. c \in D => g[c] = f[c]
      <4>1. Len(c) = Len(p) + 1
        BY <1>2, AppendPath, STEP0_INDEX \in Nat DEF STEP0_INDEX, PROLOGUE_INDEX
      <4>2. n \in Nat /\ Len(c) + n > m
        BY <1>2, <2>3, <4>1
      <4> HIDE DEF c
      <4> QED
        BY <2>1, <2>2, <4>2
    <3> QED
      BY <2>2, <3>1 DEF FirstBody
  <2>4. n + 1 \in Nat
    OBVIOUS
  <2> QED
    BY <2>3, <2>4
<1>5. T = Nat
  <2>1. T \in SUBSET Nat
    OBVIOUS
  <2> HIDE DEF T
  <2> QED
    BY <1>3, <1>4, <2>1, NatSetInduction
<1>6. PICK f : \A p \in D : Len(p) + (m + 1) > m => f[p] = FirstBody(t, f, p)
  <2>1. m + 1 \in T
    <3> HIDE DEF T
    <3>1. m + 1 \in Nat
      OBVIOUS
    <3> QED
      BY <1>5, <3>1
  <2> QED
    BY <2>1
<1>7. \A p \in D : f[p] = FirstBody(t, f, p)
  BY <1>2, <1>6
<1>8. \E g : Eq(g)
  <2> DEFINE g == [p \in D |-> f[p]]
  <2>1. \A p \in D : g[p] = f[p]
    OBVIOUS
  <2>2. g = [p \in D |-> g[p]]
    OBVIOUS
  <2> HIDE DEF g
  <2>3. \A p \in D : g[p] = FirstBody(t, g, p)
    BY <1>7, <2>1 DEF FirstBody
  <2>4. Eq(g)
    BY <2>2, <2>3
  <2> QED
    BY <2>4
<1> DEFINE itself == CHOOSE f_1 : Eq(f_1)
<1>9. Eq(itself)
  BY <1>8
<1>10. entrypoint(t) = itself
  BY DEF entrypoint, FirstBody
<1> HIDE DEF itself
<1> QED
  BY <1>9, <1>10

\* next_in_parent goes up from pipeline to pipeline.
LEMMA AfterIs ==
  ASSUME NEW t, WellFormed(t)
  PROVE  \E f : /\ \A s \in DOMAIN t : f[s] = AfterBody(t, f, s)
                /\ \A q : next_in_parent(t, q) = f[scope_of(q)]
<1> DEFINE D == DOMAIN t
           Eq(f) == f = [p \in D |-> AfterBody(t, f, p)]
           T == {n \in Nat : \E f : \A p \in D : Len(p) < n => f[p] = AfterBody(t, f, p)}
<1>2. \A p \in D : Len(p) \in Nat /\ p \in Seq(Nat)
  BY DEF WellFormed
<1>3. 0 \in T
  <2>1. \A p \in D : ~(Len(p) < 0)
    BY <1>2
  <2> QED
    BY <2>1
<1>4. ASSUME NEW n \in T PROVE n + 1 \in T
  <2>1. PICK f : \A p \in D : Len(p) < n => f[p] = AfterBody(t, f, p)
    OBVIOUS
  <2> DEFINE g == [p \in D |-> AfterBody(t, f, p)]
  <2>2. \A p \in D : g[p] = AfterBody(t, f, p)
    OBVIOUS
  <2> HIDE DEF g
  <2>3. ASSUME NEW p \in D, Len(p) < n + 1 PROVE g[p] = AfterBody(t, g, p)
    <3> DEFINE c == scope_of(p)
    <3>1. p # << >> => g[c] = f[c]
      <4> SUFFICES ASSUME p # << >> PROVE g[c] = f[c]
        OBVIOUS
      <4>1. c \in D /\ Len(c) = Len(p) - 1
        BY <1>2, PathSplit, NestedPath
      <4>2. n \in Nat /\ Len(c) < n
        BY <1>2, <2>3, <4>1
      <4> HIDE DEF c
      <4> QED
        BY <2>1, <2>2, <4>1, <4>2
    <3> QED
      BY <2>2, <3>1 DEF AfterBody
  <2>4. n + 1 \in Nat
    OBVIOUS
  <2> QED
    BY <2>3, <2>4
<1>5. T = Nat
  <2>1. T \in SUBSET Nat
    OBVIOUS
  <2> HIDE DEF T
  <2> QED
    BY <1>3, <1>4, <2>1, NatSetInduction
<1>6. PICK m \in Nat : \A p \in D : Len(p) <= m
  BY Depth
<1>7. PICK f : \A p \in D : Len(p) < m + 1 => f[p] = AfterBody(t, f, p)
  <2>1. m + 1 \in T
    <3> HIDE DEF T
    <3>1. m + 1 \in Nat
      OBVIOUS
    <3> QED
      BY <1>5, <3>1
  <2> QED
    BY <2>1
<1>8. \A p \in D : f[p] = AfterBody(t, f, p)
  BY <1>2, <1>6, <1>7
<1>9. \E g : Eq(g)
  <2> DEFINE g == [p \in D |-> f[p]]
  <2>1. \A p \in D : g[p] = f[p]
    OBVIOUS
  <2>2. g = [p \in D |-> g[p]]
    OBVIOUS
  <2> HIDE DEF g
  <2>3. \A p \in D : p # << >> => scope_of(p) \in D
    BY NestedPath
  <2>4. \A p \in D : g[p] = AfterBody(t, g, p)
    BY <1>8, <2>1, <2>3 DEF AfterBody
  <2>5. Eq(g)
    BY <2>2, <2>4
  <2> QED
    BY <2>5
<1> DEFINE itself == CHOOSE f_1 : Eq(f_1)
<1>10. Eq(itself)
  BY <1>9
<1>11. ASSUME NEW q PROVE next_in_parent(t, q) = itself[scope_of(q)]
  BY DEF next_in_parent, AfterBody
<1> HIDE DEF itself
<1>12. \A s \in D : itself[s] = AfterBody(t, itself, s)
  BY <1>10
<1> QED
  BY <1>11, <1>12

\* The frames of iter_steps: what is left to visit from a frame on gets less with each
\* item and each nested pipeline.
LEMMA FrameRank ==
  ASSUME NEW t, WellFormed(t)
  PROVE  \E R :
           /\ \A x \in Frames(t) : R[x] \in Nat
           /\ \A p \in DOMAIN t, i \in Nat \ {0} :
                i <= Len(t[p].steps) =>
                  /\ R[<<p, i + 1>>] < R[<<p, i>>]
                  /\ Append(p, i) \in DOMAIN t => R[<<Append(p, i), 1>>] < R[<<p, i>>]
<1>1. PICK m \in Nat : \A p \in DOMAIN t : Len(p) <= m
  BY Depth
<1> DEFINE rank(p, i) == IF i > Len(t[p].steps) THEN 0 ELSE (m + 1 - Len(p)) * 1000 - i
           R == [x \in Frames(t) |-> rank(x[1], x[2])]
<1>2. \A p \in DOMAIN t, i \in Nat \ {0} : <<p, i>> \in Frames(t) /\ R[<<p, i>>] = rank(p, i)
  BY DEF Frames
<1>3. \A p \in DOMAIN t : /\ Len(p) \in Nat /\ p \in Seq(Nat)
                          /\ Len(t[p].steps) \in Nat /\ Len(t[p].steps) < 1000
  BY NestedPath DEF EPILOGUE_INDEX
<1>4. ASSUME NEW p \in DOMAIN t, NEW i \in Nat \ {0} PROVE rank(p, i) \in Nat
  BY <1>1, <1>3
<1>5. ASSUME NEW x \in Frames(t) PROVE R[x] \in Nat
  BY <1>4 DEF Frames
<1>6. ASSUME NEW p \in DOMAIN t, NEW i \in Nat \ {0}, i <= Len(t[p].steps)
      PROVE  /\ rank(p, i + 1) < rank(p, i)
             /\ Append(p, i) \in DOMAIN t => rank(Append(p, i), 1) < rank(p, i)
  <2>1. rank(p, i) = (m + 1 - Len(p)) * 1000 - i
    BY <1>3, <1>6
  <2>2. rank(p, i + 1) < rank(p, i)
    BY <1>1, <1>3, <1>6, <2>1
  <2>3. ASSUME Append(p, i) \in DOMAIN t PROVE rank(Append(p, i), 1) < rank(p, i)
    <3>1. Len(Append(p, i)) = Len(p) + 1
      BY <1>3, AppendPath
    <3>2. Len(p) + 1 <= m
      BY <1>1, <2>3, <3>1
    <3> QED
      BY <1>1, <1>3, <1>6, <2>1, <2>3, <3>1, <3>2
  <2> QED
    BY <2>2, <2>3
<1> HIDE DEF R, rank
<1>7. ASSUME NEW p \in DOMAIN t, NEW i \in Nat \ {0}, i <= Len(t[p].steps)
      PROVE  /\ R[<<p, i + 1>>] < R[<<p, i>>]
             /\ Append(p, i) \in DOMAIN t => R[<<Append(p, i), 1>>] < R[<<p, i>>]
  <2>1. i + 1 \in Nat \ {0} /\ 1 \in Nat \ {0}
    OBVIOUS
  <2> QED
    BY <1>2, <1>6, <1>7, <2>1
<1> QED
  BY <1>5, <1>7

\* iter_steps goes through the items of a pipeline, and comes to an end.
LEMMA YieldIs ==
  ASSUME NEW t, WellFormed(t)
  PROVE  \A x \in Frames(t) : iter_frame(t)[x] = YieldBody(t, iter_frame(t), x)
<1> DEFINE D == Frames(t)
           Eq(f) == f = [x \in D |-> YieldBody(t, f, x)]
<1>1. PICK R : /\ \A x \in Frames(t) : R[x] \in Nat
               /\ \A p \in DOMAIN t, i \in Nat \ {0} :
                    i <= Len(t[p].steps) =>
                      /\ R[<<p, i + 1>>] < R[<<p, i>>]
                      /\ Append(p, i) \in DOMAIN t => R[<<Append(p, i), 1>>] < R[<<p, i>>]
  BY FrameRank
<1>2. ASSUME NEW f, NEW g, NEW x \in D, \A y \in D : R[y] < R[x] => g[y] = f[y]
      PROVE  YieldBody(t, f, x) = YieldBody(t, g, x)
  <2>1. PICK p \in DOMAIN t, i \in Nat \ {0} : x = <<p, i>>
    BY DEF Frames
  <2>2. <<p, i + 1>> \in D /\ (Append(p, i) \in DOMAIN t => <<Append(p, i), 1>> \in D)
    <3>1. i + 1 \in Nat \ {0} /\ 1 \in Nat \ {0}
      OBVIOUS
    <3> QED
      BY <3>1 DEF Frames
  <2>3. Len(t[p].steps) \in Nat
    BY NestedPath
  <2>4. ~(i > Len(t[p].steps)) =>
          /\ g[<<p, i + 1>>] = f[<<p, i + 1>>]
          /\ Append(p, i) \in DOMAIN t => g[<<Append(p, i), 1>>] = f[<<Append(p, i), 1>>]
    <3> SUFFICES ASSUME ~(i > Len(t[p].steps))
                 PROVE  /\ g[<<p, i + 1>>] = f[<<p, i + 1>>]
                        /\ Append(p, i) \in DOMAIN t => g[<<Append(p, i), 1>>] = f[<<Append(p, i), 1>>]
      OBVIOUS
    <3>1. i <= Len(t[p].steps)
      BY <2>3
    <3>2. /\ R[<<p, i + 1>>] < R[<<p, i>>]
          /\ Append(p, i) \in DOMAIN t => R[<<Append(p, i), 1>>] < R[<<p, i>>]
      BY <1>1, <3>1
    <3> QED
      BY <1>2, <2>1, <2>2, <3>2
  <2>5. x[1] = p /\ x[2] = i
    BY <2>1
  <2> QED
    BY <2>4, <2>5 DEF YieldBody
<1> DEFINE T == {n \in Nat : \E f : \A x \in D : R[x] < n => f[x] = YieldBody(t, f, x)}
<1>3. 0 \in T
  <2>1. \A x \in D : ~(R[x] < 0)
    BY <1>1
  <2> QED
    BY <2>1
<1>4. ASSUME NEW n \in T PROVE n + 1 \in T
  <2>1. PICK f : \A x \in D : R[x] < n => f[x] = YieldBody(t, f, x)
    OBVIOUS
  <2> DEFINE g == [x \in D |-> YieldBody(t, f, x)]
  <2>2. \A x \in D : g[x] = YieldBody(t, f, x)
    OBVIOUS
  <2> HIDE DEF g
  <2>3. ASSUME NEW x \in D, R[x] < n + 1 PROVE g[x] = YieldBody(t, g, x)
    <3>1. ASSUME NEW y \in D, R[y] < R[x] PROVE g[y] = f[y]
      <4>1. R[y] \in Nat /\ R[x] \in Nat /\ n \in Nat
        BY <1>1
      <4>2. R[y] < n
        BY <2>3, <3>1, <4>1
      <4> QED
        BY <2>1, <2>2, <4>2
    <3>2. YieldBody(t, f, x) = YieldBody(t, g, x)
      BY <1>2, <3>1
    <3> QED
      BY <2>2, <3>2
  <2>4. n + 1 \in Nat
    OBVIOUS
  <2> QED
    BY <2>3, <2>4
<1>5. T = Nat
  <2>1. T \in SUBSET Nat
    OBVIOUS
  <2> HIDE DEF T
  <2> QED
    BY <1>3, <1>4, <2>1, NatSetInduction
\* The functions for all n agree where they are right, so that one is right everywhere.
<1> DEFINE Upto(n, f) == \A x \in D : R[x] < n => f[x] = YieldBody(t, f, x)
           pick == [n \in Nat |-> CHOOSE f : Upto(n, f)]
           h == [x \in D |-> pick[R[x] + 1][x]]
<1>6. ASSUME NEW n \in Nat PROVE Upto(n, pick[n])
  <2>1. \E f : Upto(n, f)
    BY <1>5
  <2> QED
    BY <2>1
<1> HIDE DEF pick, T
<1>7. ASSUME NEW f, NEW g, NEW n \in Nat, NEW k \in Nat, Upto(n, f), Upto(k, g)
      PROVE  \A x \in D : R[x] < n /\ R[x] < k => f[x] = g[x]
  <2> DEFINE S == {x \in D : R[x] < n /\ R[x] < k => f[x] = g[x]}
  <2>1. ASSUME NEW x \in D, \A y \in D : R[y] < R[x] => y \in S PROVE x \in S
    <3> SUFFICES ASSUME R[x] < n, R[x] < k PROVE f[x] = g[x]
      OBVIOUS
    <3>1. \A y \in D : R[y] < R[x] => g[y] = f[y]
      BY <1>1, <2>1
    <3>2. YieldBody(t, f, x) = YieldBody(t, g, x)
      BY <1>2, <3>1
    <3> QED
      BY <1>7, <3>2
  <2>2. S = D
    <3> HIDE DEF S
    <3>1. S \in SUBSET D
      BY DEF S
    <3>2. \A x \in D : R[x] \in Nat
      BY <1>1
    <3> HIDE DEF D
    <3> QED
      BY <2>1, <3>1, <3>2, RankInduction
  <2> QED
    BY <2>2
<1>8. ASSUME NEW x \in D PROVE h[x] = YieldBody(t, h, x)
  <2>1. R[x] \in Nat /\ R[x] + 1 \in Nat /\ R[x] < R[x] + 1
    BY <1>1
  <2> DEFINE f == pick[R[x] + 1]
  <2>2. Upto(R[x] + 1, f)
    BY <1>6, <2>1
  <2> HIDE DEF f
  <2>3. ASSUME NEW y \in D, R[y] < R[x] PROVE h[y] = f[y]
    <3>1. R[y] \in Nat /\ R[y] + 1 \in Nat /\ R[y] < R[y] + 1 /\ R[y] < R[x] + 1
      BY <1>1, <2>1, <2>3
    <3>2. Upto(R[y] + 1, pick[R[y] + 1])
      BY <1>6, <3>1
    <3>3. pick[R[y] + 1][y] = f[y]
      BY <1>7, <2>1, <2>2, <3>1, <3>2
    <3> QED
      BY <3>3
  <2>4. h[x] = f[x]
    BY DEF f
  <2> HIDE DEF h
  <2>5. YieldBody(t, f, x) = YieldBody(t, h, x)
    BY <1>2, <2>3
  <2>6. f[x] = YieldBody(t, f, x)
    BY <2>1, <2>2
  <2> QED
    BY <2>4, <2>5, <2>6
<1>9. \E f : Eq(f)
  <2>1. h = [x \in D |-> h[x]]
    OBVIOUS
  <2> HIDE DEF h
  <2>2. Eq(h)
    BY <1>8, <2>1
  <2> QED
    BY <2>2
<1> DEFINE itself == CHOOSE f_1 : Eq(f_1)
<1>10. Eq(itself)
  BY <1>9
<1>11. iter_frame(t) = itself
  BY DEF iter_frame, YieldBody, Frames
<1> HIDE DEF itself
<1> QED
  BY <1>10, <1>11

(***************************************************************************)
(* Navigation stays among the steps of the pipeline                        *)
(***************************************************************************)

\* What the step at the end of a path can be.
IsStep(t, p, j) ==
  \/ j = PROLOGUE_INDEX /\ t[p].prologue
  \/ j = EPILOGUE_INDEX /\ t[p].epilogue
  \/ j \in DOMAIN t[p].steps /\ t[p].steps[j] = "Step"

\* The steps of a pipeline, item by item.
LEMMA StepAt ==
  ASSUME NEW t, WellFormed(t), NEW p \in DOMAIN t, NEW j \in Nat
  PROVE  Append(p, j) \in StepPaths(t) <=> IsStep(t, p, j)
<1>1. IsStep(t, p, j) => Append(p, j) \in StepPaths(t)
  BY DEF IsStep, StepPaths
<1>2. ASSUME Append(p, j) \in StepPaths(t) PROVE IsStep(t, p, j)
  <2>1. \A q \in DOMAIN t : DOMAIN t[q].steps \subseteq Nat /\ q \in Seq(Nat)
    BY NestedPath
  <2>2. PICK q \in DOMAIN t, i \in Nat : Append(p, j) = Append(q, i) /\ IsStep(t, q, i)
    <3>1. PROLOGUE_INDEX \in Nat /\ EPILOGUE_INDEX \in Nat
      BY DEF PROLOGUE_INDEX, EPILOGUE_INDEX
    <3> QED
      BY <1>2, <2>1, <3>1 DEF StepPaths, IsStep
  <2>3. scope_of(Append(p, j)) = p /\ leaf(Append(p, j)) = j
    BY <2>1, AppendPath
  <2>4. scope_of(Append(q, i)) = q /\ leaf(Append(q, i)) = i
    BY <2>1, AppendPath
  <2> QED
    BY <2>2, <2>3, <2>4
<1> QED
  BY <1>1, <1>2

\* A step is in a pipeline, and no pipeline.
LEMMA StepIs ==
  ASSUME NEW t, WellFormed(t), NEW q \in StepPaths(t)
  PROVE  /\ q \in Seq(Nat)
         /\ q # << >>
         /\ scope_of(q) \in DOMAIN t
         /\ leaf(q) \in Nat
         /\ q = Append(scope_of(q), leaf(q))
         /\ IsStep(t, scope_of(q), leaf(q))
         /\ q \notin DOMAIN t
<1>1. PICK p \in DOMAIN t, j \in Nat : q = Append(p, j)
  <2>1. \A r \in DOMAIN t : DOMAIN t[r].steps \subseteq Nat
    BY NestedPath
  <2> QED
    BY <2>1 DEF StepPaths, PROLOGUE_INDEX, EPILOGUE_INDEX
<1>2. p \in Seq(Nat)
  BY NestedPath
<1>3. q \in Seq(Nat) /\ q # << >> /\ scope_of(q) = p /\ leaf(q) = j
  BY <1>1, <1>2, AppendPath
<1>4. IsStep(t, p, j)
  BY <1>1, StepAt
<1>5. q \notin DOMAIN t
  <2> SUFFICES ASSUME q \in DOMAIN t PROVE FALSE
    OBVIOUS
  <2>1. /\ j \in DOMAIN t[p].steps /\ t[p].steps[j] \in Behavior
        /\ DOMAIN t[p].steps = 1..Len(t[p].steps)
        /\ Len(t[p].steps) \in Nat /\ Len(t[p].steps) < EPILOGUE_INDEX
    BY <1>1, NestedPath
  <2>2. j # PROLOGUE_INDEX /\ j # EPILOGUE_INDEX
    BY <2>1 DEF PROLOGUE_INDEX, EPILOGUE_INDEX
  <2> QED
    BY <1>4, <2>1, <2>2 DEF IsStep, Behavior
<1> QED
  BY <1>1, <1>3, <1>4, <1>5

\* enter, for an item of a pipeline.
LEMMA EnterIs ==
  ASSUME NEW t, WellFormed(t), NEW p \in DOMAIN t, NEW j \in DOMAIN t[p].steps
  PROVE  /\ enter(t, Append(p, j)) = IF Append(p, j) \in DOMAIN t THEN entrypoint(t)[Append(p, j)]
                                     ELSE Append(p, j)
         /\ Append(p, j) \notin DOMAIN t => Append(p, j) \in StepPaths(t)
<1>1. /\ p \in Seq(Nat) /\ j \in Nat /\ DOMAIN t[p].steps = 1..Len(t[p].steps)
      /\ Len(t[p].steps) \in Nat /\ Len(t[p].steps) < EPILOGUE_INDEX
      /\ t[p].steps[j] \in {"Step", "Once", "Loop"}
      /\ t[p].steps[j] \in Behavior <=> Append(p, j) \in DOMAIN t
  BY NestedPath
<1>2. scope_of(Append(p, j)) = p /\ leaf(Append(p, j)) = j
  BY <1>1, AppendPath
<1>3. j # PROLOGUE_INDEX /\ j # EPILOGUE_INDEX
  BY <1>1 DEF PROLOGUE_INDEX, EPILOGUE_INDEX
<1>4. enter(t, Append(p, j)) = IF Append(p, j) \in DOMAIN t THEN entrypoint(t)[Append(p, j)]
                               ELSE Append(p, j)
  BY <1>2, <1>3 DEF enter, is_prologue, is_epilogue
<1>5. Append(p, j) \notin DOMAIN t => IsStep(t, p, j)
  BY <1>1 DEF IsStep, Behavior
<1> QED
  BY <1>1, <1>4, <1>5, StepAt

\* The entrypoint of a pipeline is a step of it; only an empty pipeline, or one that starts
\* with an empty pipeline, has none.
LEMMA EntryIn ==
  ASSUME NEW t, WellFormed(t)
  PROVE  \A p \in DOMAIN t :
           \/ entrypoint(t)[p] \in StepPaths(t) /\ is_ancestor_of(p, entrypoint(t)[p])
           \/ entrypoint(t)[p] = NoStep /\ \E q \in DOMAIN t : Len(q) >= Len(p) /\ is_empty(t[q])
<1> DEFINE D == DOMAIN t
           e == entrypoint(t)
           S == {p \in D : \/ e[p] \in StepPaths(t) /\ is_ancestor_of(p, e[p])
                           \/ e[p] = NoStep /\ \E q \in D : Len(q) >= Len(p) /\ is_empty(t[q])}
<1>1. PICK m \in Nat : \A p \in D : Len(p) <= m
  BY Depth
<1> DEFINE R == [p \in D |-> m - Len(p)]
<1>2. \A p \in D : p \in Seq(Nat) /\ Len(p) \in Nat /\ R[p] \in Nat
  BY <1>1, NestedPath
<1>3. ASSUME NEW p \in D, \A y \in D : R[y] < R[p] => y \in S PROVE p \in S
  <2>1. e[p] = FirstBody(t, e, p)
    BY EntrypointIs
  <2>2. /\ p \in Seq(Nat) /\ Len(p) \in Nat
        /\ Len(t[p].steps) \in Nat /\ DOMAIN t[p].steps = 1..Len(t[p].steps)
        /\ t[p].steps = << >> <=> Len(t[p].steps) = 0
    BY NestedPath
  <2>3. CASE is_empty(t[p])
    BY <2>1, <2>2, <2>3 DEF FirstBody
  <2>4. CASE ~is_empty(t[p]) /\ t[p].prologue
    <3>1. e[p] = Append(p, PROLOGUE_INDEX)
      BY <2>1, <2>4 DEF FirstBody
    <3>2. PROLOGUE_INDEX \in Nat /\ IsStep(t, p, PROLOGUE_INDEX)
      BY <2>4 DEF IsStep, PROLOGUE_INDEX
    <3>3. e[p] \in StepPaths(t) /\ is_ancestor_of(p, e[p])
      BY <2>2, <3>1, <3>2, StepAt, AppendPath
    <3> QED
      BY <3>3
  <2>5. CASE ~is_empty(t[p]) /\ ~t[p].prologue /\ t[p].steps = << >>
    <3>1. e[p] = Append(p, EPILOGUE_INDEX)
      BY <2>1, <2>5 DEF FirstBody
    <3>2. EPILOGUE_INDEX \in Nat /\ IsStep(t, p, EPILOGUE_INDEX)
      BY <2>5 DEF IsStep, EPILOGUE_INDEX, is_empty
    <3>3. e[p] \in StepPaths(t) /\ is_ancestor_of(p, e[p])
      BY <2>2, <3>1, <3>2, StepAt, AppendPath
    <3> QED
      BY <3>3
  <2>6. CASE ~is_empty(t[p]) /\ ~t[p].prologue /\ t[p].steps # << >>
    <3> DEFINE c == Append(p, 1)
    <3>1. e[p] = IF c \in D THEN e[c] ELSE c
      BY <2>1, <2>6 DEF FirstBody, STEP0_INDEX, PROLOGUE_INDEX
    <3>2. 1 \in DOMAIN t[p].steps
      BY <2>2, <2>6
    <3>3. c \in Seq(Nat) /\ Len(c) = Len(p) + 1 /\ is_ancestor_of(p, c)
      BY <2>2, AppendPath
    <3>4. CASE c \notin D
      <4>1. c \in StepPaths(t)
        BY <3>2, <3>4, EnterIs
      <4>2. e[p] \in StepPaths(t) /\ is_ancestor_of(p, e[p])
        BY <3>1, <3>3, <3>4, <4>1
      <4> QED
        BY <4>2
    <3>5. CASE c \in D
      <4> HIDE DEF c
      <4>1. R[c] < R[p]
        BY <1>1, <1>2, <3>3, <3>5
      <4>2. c \in S
        BY <1>3, <3>5, <4>1
      <4>3. CASE e[c] \in StepPaths(t) /\ is_ancestor_of(c, e[c])
        <5>1. e[c] \in Seq(Nat)
          BY <4>3, StepIs
        <5>2. is_ancestor_of(p, e[c])
          BY <2>2, <3>3, <4>3, <5>1, AncestorOrder
        <5> QED
          BY <3>1, <3>5, <4>3, <5>2
      <4>4. CASE e[c] = NoStep /\ \E q \in D : Len(q) >= Len(c) /\ is_empty(t[q])
        <5>1. PICK q \in D : Len(q) >= Len(c) /\ is_empty(t[q])
          BY <4>4
        <5>2. Len(q) >= Len(p)
          BY <1>2, <2>2, <3>3, <5>1
        <5> QED
          BY <3>1, <3>5, <4>4, <5>1, <5>2
      <4> QED
        BY <4>2, <4>3, <4>4
    <3> QED
      BY <3>4, <3>5
  <2> QED
    BY <2>3, <2>4, <2>5, <2>6
<1>4. S = D
  <2>1. S \in SUBSET D
    OBVIOUS
  <2>2. \A p \in D : R[p] \in Nat
    BY <1>2
  <2> HIDE DEF S, D, R
  <2> QED
    BY <1>3, <2>1, <2>2, RankInduction
<1> QED
  BY <1>4

\* enter, and what it leads to.
LEMMA EnterIn ==
  ASSUME NEW t, WellFormed(t), NEW p \in DOMAIN t, NEW j \in DOMAIN t[p].steps
  PROVE  enter(t, Append(p, j)) \in StepPaths(t) \cup {NoStep}
<1>1. CASE Append(p, j) \in DOMAIN t
  <2>1. enter(t, Append(p, j)) = entrypoint(t)[Append(p, j)]
    BY <1>1, EnterIs
  <2>2. entrypoint(t)[Append(p, j)] \in StepPaths(t) \cup {NoStep}
    BY <1>1, EntryIn
  <2> QED
    BY <2>1, <2>2
<1>2. CASE Append(p, j) \notin DOMAIN t
  <2>1. enter(t, Append(p, j)) = Append(p, j) /\ Append(p, j) \in StepPaths(t)
    BY <1>2, EnterIs
  <2> QED
    BY <2>1
<1> QED
  BY <1>1, <1>2

\* What follows a pipeline is a step of a pipeline around it.
LEMMA AfterIn ==
  ASSUME NEW t, WellFormed(t), NEW q, scope_of(q) \in DOMAIN t
  PROVE  next_in_parent(t, q) \in StepPaths(t) \cup {NoStep}
<1> DEFINE D == DOMAIN t
<1>1. PICK f : /\ \A s \in D : f[s] = AfterBody(t, f, s)
               /\ \A r : next_in_parent(t, r) = f[scope_of(r)]
  BY AfterIs
<1> DEFINE S == {s \in D : f[s] \in StepPaths(t) \cup {NoStep}}
           R == [s \in D |-> Len(s)]
<1>2. \A p \in D : p \in Seq(Nat) /\ R[p] \in Nat
  BY NestedPath
<1>3. \A p \in D : \A j \in DOMAIN t[p].steps : enter(t, Append(p, j)) \in StepPaths(t) \cup {NoStep}
  BY EnterIn
<1>4. ASSUME NEW s \in D, \A y \in D : R[y] < R[s] => y \in S PROVE s \in S
  <2>1. f[s] = AfterBody(t, f, s)
    BY <1>1
  <2>2. CASE s = << >>
    BY <2>1, <2>2 DEF AfterBody
  <2>3. CASE s # << >>
    <3> DEFINE p == scope_of(s)
               n == Len(t[p].steps)
    <3>1. /\ p \in D /\ leaf(s) \in DOMAIN t[p].steps /\ s \in Seq(Nat)
      BY <2>3, NestedPath
    <3>2. /\ p \in Seq(Nat) /\ Len(p) = Len(s) - 1 /\ Len(s) \in Nat
      BY <2>3, <3>1, PathSplit
    <3>3. n \in Nat /\ DOMAIN t[p].steps = 1..n
      BY <3>1, NestedPath
    <3>4. p \in S
      <4>1. R[p] < R[s]
        BY <3>1, <3>2
      <4> QED
        BY <1>4, <3>1, <4>1
    <3>5. CASE leaf(s) >= n /\ behavior(t, s) = "Loop"
      <4>1. f[s] = enter(t, Append(p, 1))
        BY <2>1, <2>3, <3>5 DEF AfterBody, enter_step0, replace_leaf, STEP0_INDEX, PROLOGUE_INDEX
      <4>2. 1 \in DOMAIN t[p].steps
        BY <3>1, <3>3
      <4> QED
        BY <1>3, <3>1, <4>1, <4>2
    <3>6. CASE leaf(s) >= n /\ behavior(t, s) # "Loop" /\ t[p].epilogue
      <4>1. f[s] = Append(p, EPILOGUE_INDEX)
        BY <2>1, <2>3, <3>6 DEF AfterBody, replace_leaf
      <4>2. EPILOGUE_INDEX \in Nat /\ IsStep(t, p, EPILOGUE_INDEX)
        BY <3>6 DEF IsStep, EPILOGUE_INDEX
      <4> QED
        BY <3>1, <4>1, <4>2, StepAt
    <3>7. CASE leaf(s) >= n /\ behavior(t, s) # "Loop" /\ ~t[p].epilogue
      BY <2>1, <2>3, <3>4, <3>7 DEF AfterBody
    <3>8. CASE ~(leaf(s) >= n)
      <4>1. f[s] = enter(t, Append(p, leaf(s) + 1))
        BY <2>1, <2>3, <3>8 DEF AfterBody, increment_leaf, replace_leaf
      <4>2. leaf(s) + 1 \in DOMAIN t[p].steps
        BY <3>1, <3>3, <3>8
      <4> QED
        BY <1>3, <3>1, <4>1, <4>2
    <3> QED
      BY <3>5, <3>6, <3>7, <3>8
  <2> QED
    BY <2>2, <2>3
<1>5. S = D
  <2>1. S \in SUBSET D
    OBVIOUS
  <2>2. \A p \in D : R[p] \in Nat
    BY <1>2
  <2> HIDE DEF S, D, R
  <2> QED
    BY <1>4, <2>1, <2>2, RankInduction
<1> QED
  BY <1>1, <1>5

\* Where StepNavigator goes from a step is another step, or the end.
LEMMA NextIn ==
  ASSUME NEW t, WellFormed(t), NEW q \in StepPaths(t)
  PROVE  /\ next_ok(t, q) \in StepPaths(t) \cup {NoStep}
         /\ next_break(t, q) \in StepPaths(t) \cup {NoStep}
<1> DEFINE p == scope_of(q)
           n == Len(t[p].steps)
<1>1. p \in DOMAIN t /\ leaf(q) \in Nat /\ IsStep(t, p, leaf(q))
  BY StepIs
<1>2. n \in Nat /\ DOMAIN t[p].steps = 1..n /\ (t[p].steps = << >> <=> n = 0)
  BY <1>1, NestedPath
<1>3. \A j \in DOMAIN t[p].steps : enter(t, Append(p, j)) \in StepPaths(t) \cup {NoStep}
  BY <1>1, EnterIn
<1>4. next_in_parent(t, q) \in StepPaths(t) \cup {NoStep}
  BY <1>1, AfterIn
<1>5. after_loop(t, q) \in StepPaths(t) \cup {NoStep}
  <2>1. t[p].epilogue => Append(p, EPILOGUE_INDEX) \in StepPaths(t)
    <3>1. EPILOGUE_INDEX \in Nat /\ (t[p].epilogue => IsStep(t, p, EPILOGUE_INDEX))
      BY DEF IsStep, EPILOGUE_INDEX
    <3> QED
      BY <1>1, <3>1, StepAt
  <2> QED
    BY <1>4, <2>1 DEF after_loop, replace_leaf
<1>6. t[p].steps # << >> => enter_step0(t, q) \in StepPaths(t) \cup {NoStep}
  BY <1>2, <1>3 DEF enter_step0, replace_leaf, STEP0_INDEX, PROLOGUE_INDEX
<1>7. after_prologue(t, q) \in StepPaths(t) \cup {NoStep}
  BY <1>5, <1>6 DEF after_prologue
<1>8. ASSUME ~is_epilogue(q), ~is_prologue(q) PROVE next_ok(t, q) \in StepPaths(t) \cup {NoStep}
  <2>1. leaf(q) \in 1..n
    BY <1>1, <1>2, <1>8 DEF IsStep, is_epilogue, is_prologue
  <2>2. leaf(q) < n => enter(t, increment_leaf(q)) \in StepPaths(t) \cup {NoStep}
    BY <1>2, <1>3, <2>1 DEF increment_leaf, replace_leaf
  <2>3. enter(t, replace_leaf(q, STEP0_INDEX)) \in StepPaths(t) \cup {NoStep}
    BY <1>2, <1>3, <2>1 DEF replace_leaf, STEP0_INDEX, PROLOGUE_INDEX
  <2> QED
    BY <1>5, <1>8, <2>2, <2>3 DEF next_ok
<1>9. next_ok(t, q) \in StepPaths(t) \cup {NoStep}
  BY <1>4, <1>7, <1>8 DEF next_ok
<1> QED
  BY <1>4, <1>5, <1>9 DEF next_break

(***************************************************************************)
(* The steps that the hooks are called for                                 *)
(***************************************************************************)

\* The steps in the pipeline at p from its item i on.
From(t, p, i) ==
  {q \in StepPaths(t) : is_ancestor_of(p, q) /\ Len(q) > Len(p) /\ q[Len(p) + 1] >= i}

\* y has exactly these steps, in the order of the pipeline text.
Lists(t, y, S) ==
  /\ y \in Seq(StepPaths(t))
  /\ ToSet(y) = S
  /\ \A i \in 1..(Len(y) - 1) : Precedes(y[i], y[i + 1])

\* One list after the other.
LEMMA ListsConcat ==
  ASSUME NEW t, NEW y, NEW z, NEW A, NEW B, Lists(t, y, A), Lists(t, z, B),
         \A a \in A, b \in B : Precedes(a, b)
  PROVE  Lists(t, y \o z, A \cup B)
<1> DEFINE w == y \o z
<1>1. /\ y \in Seq(StepPaths(t)) /\ z \in Seq(StepPaths(t))
      /\ \A i \in 1..Len(y) : y[i] \in A
      /\ \A i \in 1..Len(z) : z[i] \in B
      /\ \A a \in A : \E i \in 1..Len(y) : a = y[i]
      /\ \A b \in B : \E i \in 1..Len(z) : b = z[i]
  BY SMTT(30) DEF Lists, ToSet
<1>2. /\ Len(y) \in Nat /\ Len(z) \in Nat
      /\ w \in Seq(StepPaths(t)) /\ Len(w) = Len(y) + Len(z) /\ DOMAIN w = 1..(Len(y) + Len(z))
      /\ \A i \in 1..Len(y) : w[i] = y[i]
      /\ \A i \in (Len(y) + 1)..(Len(y) + Len(z)) : w[i] = z[i - Len(y)]
  BY <1>1
<1>3. \A i \in 1..Len(z) : i + Len(y) \in 1..(Len(y) + Len(z)) /\ w[i + Len(y)] = z[i]
  BY <1>2
<1> HIDE DEF w
<1>4. ToSet(w) = A \cup B
  <2>1. ToSet(w) = {w[i] : i \in DOMAIN w}
    BY DEF ToSet
  <2>2. ASSUME NEW i \in DOMAIN w PROVE w[i] \in A \cup B
    <3>1. CASE i <= Len(y)
      BY <1>1, <1>2, <3>1
    <3>2. CASE ~(i <= Len(y))
      <4>1. i \in (Len(y) + 1)..(Len(y) + Len(z)) /\ i - Len(y) \in 1..Len(z)
        BY <1>2, <3>2
      <4> QED
        BY <1>1, <1>2, <4>1
    <3> QED
      BY <3>1, <3>2
  <2>3. ASSUME NEW a \in A \cup B PROVE \E i \in DOMAIN w : a = w[i]
    <3>1. CASE a \in A
      <4>1. PICK i \in 1..Len(y) : a = y[i]
        BY <1>1, <3>1
      <4> QED
        BY <1>2, <4>1
    <3>2. CASE a \in B
      <4>1. PICK i \in 1..Len(z) : a = z[i]
        BY <1>1, <3>2
      <4> QED
        BY <1>2, <1>3, <4>1
    <3> QED
      BY <3>1, <3>2
  <2> QED
    BY <2>1, <2>2, <2>3
<1>5. ASSUME NEW i \in 1..(Len(w) - 1) PROVE Precedes(w[i], w[i + 1])
  <2>1. CASE i < Len(y)
    <3>1. i \in 1..Len(y) /\ i + 1 \in 1..Len(y) /\ i \in 1..(Len(y) - 1)
      BY <1>2, <2>1
    <3> QED
      BY <1>2, <3>1 DEF Lists
  <2>2. CASE i = Len(y)
    <3>1. i \in 1..Len(y) /\ 1 \in 1..Len(z)
      BY <1>2, <2>2
    <3>2. w[i] \in A /\ w[i + 1] \in B
      BY <1>1, <1>2, <1>3, <2>2, <3>1
    <3> QED
      BY <3>2
  <2>3. CASE i > Len(y)
    <3> DEFINE k == i - Len(y)
    <3>1. k \in 1..(Len(z) - 1) /\ k \in 1..Len(z) /\ k + 1 \in 1..Len(z)
          /\ i = k + Len(y) /\ i + 1 = (k + 1) + Len(y)
      BY <1>2, <2>3
    <3> HIDE DEF k
    <3>2. w[i] = z[k] /\ w[i + 1] = z[k + 1]
      BY <1>3, <3>1
    <3> QED
      BY <3>1, <3>2 DEF Lists
  <2> QED
    BY <1>2, <2>1, <2>2, <2>3
<1> QED
  BY <1>2, <1>4, <1>5 DEF Lists, w

\* A list of one step.
LEMMA ListsOne ==
  ASSUME NEW t, NEW q \in StepPaths(t)
  PROVE  Lists(t, <<q>>, {q})
<1>1. <<q>> \in Seq(StepPaths(t)) /\ Len(<<q>>) = 1 /\ DOMAIN <<q>> = {1} /\ <<q>>[1] = q
  OBVIOUS
<1>2. ToSet(<<q>>) = {q}
  BY <1>1 DEF ToSet
<1> QED
  BY <1>1, <1>2 DEF Lists

\* A prologue or an epilogue, if there is one.
LEMMA ListsOptional ==
  ASSUME NEW t, NEW present, NEW q, present => q \in StepPaths(t)
  PROVE  Lists(t, Optional(present, q), IF present THEN {q} ELSE {})
<1>1. CASE present
  BY <1>1, ListsOne DEF Optional
<1>2. CASE ~present
  <2>1. /\ Optional(present, q) = << >> /\ << >> \in Seq(StepPaths(t))
        /\ Len(<< >>) = 0 /\ DOMAIN << >> = {}
    BY <1>2 DEF Optional
  <2>2. ToSet(<< >>) = {}
    BY <2>1 DEF ToSet
  <2> QED
    BY <1>2, <2>1, <2>2 DEF Lists
<1> QED
  BY <1>1, <1>2

\* What is below an item of a pipeline.
LEMMA BelowItem ==
  ASSUME NEW p \in Seq(Nat), NEW i \in Nat, NEW q \in Seq(Nat)
  PROVE  is_ancestor_of(Append(p, i), q)
           <=> is_ancestor_of(p, q) /\ Len(q) > Len(p) /\ q[Len(p) + 1] = i
<1>1. /\ Len(p) \in Nat /\ Len(q) \in Nat
      /\ Len(Append(p, i)) = Len(p) + 1
      /\ \A k \in 1..Len(p) : Append(p, i)[k] = p[k]
      /\ Append(p, i)[Len(p) + 1] = i
  OBVIOUS
<1>2. \A k \in 1..(Len(p) + 1) : k \in 1..Len(p) \/ k = Len(p) + 1
  BY <1>1
<1>3. \A k \in 1..Len(p) : k \in 1..(Len(p) + 1)
  BY <1>1
<1>4. Len(p) + 1 \in 1..(Len(p) + 1)
  BY <1>1
<1>5. Len(p) + 1 <= Len(q) <=> Len(p) <= Len(q) /\ Len(q) > Len(p)
  BY <1>1
<1> HIDE DEF is_ancestor_of
<1> QED
  BY <1>1, <1>2, <1>3, <1>4, <1>5 DEF is_ancestor_of

\* A step that is below a pipeline is an item of it or below one of its pipelines.
LEMMA Below ==
  ASSUME NEW t, WellFormed(t), NEW p \in DOMAIN t, NEW q \in StepPaths(t),
         is_ancestor_of(p, q), Len(q) > Len(p)
  PROVE  /\ q[Len(p) + 1] \in Nat
         /\ \/ q = Append(p, q[Len(p) + 1]) /\ IsStep(t, p, q[Len(p) + 1])
            \/ /\ Append(p, q[Len(p) + 1]) \in DOMAIN t
               /\ is_ancestor_of(Append(p, q[Len(p) + 1]), q)
               /\ Len(q) > Len(p) + 1
<1> DEFINE j == q[Len(p) + 1]
<1>1. p \in Seq(Nat) /\ q \in Seq(Nat) /\ Len(p) \in Nat /\ Len(q) \in Nat /\ q # << >>
  BY NestedPath, StepIs
<1>2. Len(p) + 1 \in 1..Len(q) /\ j \in Nat
  BY <1>1
<1>3. /\ Append(p, j) \in Seq(Nat) /\ Len(Append(p, j)) = Len(p) + 1
      /\ is_ancestor_of(Append(p, j), q)
  BY <1>1, <1>2, AppendPath, BelowItem
<1>4. CASE Len(q) = Len(p) + 1
  <2>1. q = Append(p, j)
    BY <1>1, <1>3, <1>4, SeqEqual DEF is_ancestor_of
  <2>2. IsStep(t, p, j)
    BY <1>2, <2>1, StepAt
  <2> QED
    BY <1>2, <2>1, <2>2
<1>5. CASE Len(q) # Len(p) + 1
  <2> DEFINE s == scope_of(q)
  <2>1. Len(q) > Len(p) + 1
    BY <1>1, <1>2, <1>5
  <2>2. s \in DOMAIN t /\ s \in Seq(Nat) /\ Len(s) = Len(q) - 1 /\ q = Append(s, leaf(q)) /\ leaf(q) \in Nat
    BY <1>1, StepIs, PathSplit
  <2> HIDE DEF s
  <2>3. is_ancestor_of(s, q)
    BY <2>2, AppendPath
  <2>4. Len(Append(p, j)) <= Len(s)
    BY <1>1, <1>3, <2>1, <2>2
  <2>5. is_ancestor_of(Append(p, j), s)
    BY <1>1, <1>3, <2>2, <2>3, <2>4, AncestorOrder
  <2>6. Len(Append(p, j)) \in 0..Len(s) /\ Append(p, j) = SubSeq(s, 1, Len(Append(p, j)))
    BY <1>3, <2>2, <2>5, AncestorIsPrefix
  <2>7. SubSeq(s, 1, Len(Append(p, j))) \in DOMAIN t
    BY <2>2, <2>6, DomainPrefixClosed
  <2> QED
    BY <1>2, <1>3, <2>1, <2>6, <2>7
<1> QED
  BY <1>4, <1>5

\* Steps below different items of a pipeline are in the order of the items.
LEMMA ItemsInOrder ==
  ASSUME NEW p \in Seq(Nat), NEW q \in Seq(Nat), NEW r \in Seq(Nat),
         is_ancestor_of(p, q), is_ancestor_of(p, r), Len(q) > Len(p), Len(r) > Len(p),
         q[Len(p) + 1] < r[Len(p) + 1]
  PROVE  Precedes(q, r)
<1>1. Len(p) \in Nat /\ Len(q) \in Nat /\ Len(r) \in Nat
  OBVIOUS
<1>2. Len(p) + 1 \in 1..Len(r) /\ (Len(p) + 1) - 1 = Len(p)
  BY <1>1
<1>3. \A k \in 1..Len(p) : k <= Len(q) /\ q[k] = r[k]
  BY <1>1 DEF is_ancestor_of
<1> QED
  BY <1>2, <1>3 DEF Precedes

\* The steps below a pipeline: its prologue, and the others.
LEMMA PrologueFirst ==
  ASSUME NEW t, WellFormed(t), NEW p \in DOMAIN t, NEW y, Lists(t, y, From(t, p, 1))
  PROVE  Lists(t, Optional(t[p].prologue, Append(p, PROLOGUE_INDEX)) \o y,
               {q \in StepPaths(t) : is_ancestor_of(p, q) /\ Len(q) > Len(p)})
<1> DEFINE A == IF t[p].prologue THEN {Append(p, PROLOGUE_INDEX)} ELSE {}
           B == From(t, p, 1)
<1>1. p \in Seq(Nat) /\ Len(p) \in Nat /\ PROLOGUE_INDEX = 0 /\ 0 \in Nat
  BY NestedPath DEF PROLOGUE_INDEX
<1>2. Append(p, 0) \in StepPaths(t) <=> IsStep(t, p, 0)
  BY StepAt
<1>3. DOMAIN t[p].steps = 1..Len(t[p].steps) /\ Len(t[p].steps) \in Nat
  BY NestedPath
<1>4. IsStep(t, p, 0) <=> t[p].prologue
  BY <1>3 DEF IsStep, PROLOGUE_INDEX, EPILOGUE_INDEX
<1>5. Lists(t, Optional(t[p].prologue, Append(p, PROLOGUE_INDEX)), A)
  BY <1>1, <1>2, <1>4, ListsOptional
<1>6. /\ Append(p, 0) \in Seq(Nat) /\ is_ancestor_of(p, Append(p, 0))
      /\ Len(Append(p, 0)) > Len(p) /\ Append(p, 0)[Len(p) + 1] = 0
  BY <1>1, AppendPath
<1>7. ASSUME NEW a \in A, NEW b \in B PROVE Precedes(a, b)
  <2>1. a = Append(p, 0)
    BY <1>1
  <2>2. /\ b \in StepPaths(t) /\ is_ancestor_of(p, b) /\ Len(b) > Len(p) /\ b[Len(p) + 1] >= 1
    BY DEF From
  <2>3. b \in Seq(Nat) /\ b[Len(p) + 1] \in Nat
    BY <2>2, StepIs, Below
  <2>4. 0 < b[Len(p) + 1]
    BY <2>2, <2>3
  <2> QED
    BY <1>1, <1>6, <2>1, <2>2, <2>3, <2>4, ItemsInOrder
<1>8. A \cup B = {q \in StepPaths(t) : is_ancestor_of(p, q) /\ Len(q) > Len(p)}
  <2>1. ASSUME NEW q \in StepPaths(t), is_ancestor_of(p, q), Len(q) > Len(p), q \notin B PROVE q \in A
    <3>1. q[Len(p) + 1] \in Nat /\ ~(q[Len(p) + 1] >= 1)
      BY <2>1, Below DEF From
    <3>2. q[Len(p) + 1] = 0
      BY <3>1
    <3>3. Append(p, 0) \notin DOMAIN t
      BY <1>3, NestedPath, 0 \in Nat
    <3>4. q = Append(p, 0) /\ IsStep(t, p, 0)
      BY <2>1, <3>2, <3>3, Below
    <3> QED
      BY <1>1, <1>4, <3>4
  <2>2. A \subseteq {q \in StepPaths(t) : is_ancestor_of(p, q) /\ Len(q) > Len(p)}
    BY <1>1, <1>2, <1>4, <1>6
  <2> QED
    BY <2>1, <2>2 DEF From
<1> HIDE DEF A, B
<1>9. Lists(t, y, B)
  BY DEF B
<1> QED
  BY <1>5, <1>7, <1>8, <1>9, ListsConcat

\* Every frame of iter_steps yields the steps of its pipeline from its item on.
LEMMA FramesList ==
  ASSUME NEW t, WellFormed(t)
  PROVE  \A p \in DOMAIN t, i \in Nat \ {0} :
           i <= Len(t[p].steps) + 1 => Lists(t, iter_frame(t)[<<p, i>>], From(t, p, i))
<1> DEFINE D == Frames(t)
           y == iter_frame(t)
           S == {x \in D : x[2] <= Len(t[x[1]].steps) + 1 => Lists(t, y[x], From(t, x[1], x[2]))}
<1>1. PICK R : /\ \A x \in Frames(t) : R[x] \in Nat
               /\ \A p \in DOMAIN t, i \in Nat \ {0} :
                    i <= Len(t[p].steps) =>
                      /\ R[<<p, i + 1>>] < R[<<p, i>>]
                      /\ Append(p, i) \in DOMAIN t => R[<<Append(p, i), 1>>] < R[<<p, i>>]
  BY FrameRank
<1>2. ASSUME NEW p \in DOMAIN t, NEW i \in Nat \ {0}, i <= Len(t[p].steps) + 1,
             \A x \in D : R[x] < R[<<p, i>>] => x \in S
      PROVE  Lists(t, y[<<p, i>>], From(t, p, i))
  <2>1. <<p, i>> \in D
    BY DEF Frames
  <2>2. y[<<p, i>>] = YieldBody(t, y, <<p, i>>)
    BY <2>1, YieldIs
  <2>3. /\ p \in Seq(Nat) /\ Len(p) \in Nat
        /\ Len(t[p].steps) \in Nat /\ DOMAIN t[p].steps = 1..Len(t[p].steps)
        /\ Len(t[p].steps) < 1000
    BY NestedPath DEF EPILOGUE_INDEX
  <2> DEFINE c == Append(p, i)
  <2>4. c \in Seq(Nat) /\ Len(c) = Len(p) + 1 /\ is_ancestor_of(p, c) /\ c[Len(p) + 1] = i
    BY <2>3, AppendPath
  <2>5. CASE i > Len(t[p].steps)
    <3>1. y[<<p, i>>] = Optional(t[p].epilogue, Append(p, EPILOGUE_INDEX))
      BY <2>2, <2>5 DEF YieldBody
    <3>2. EPILOGUE_INDEX = 1000 /\ EPILOGUE_INDEX \in Nat /\ 1000 >= i
      BY <1>2, <2>3 DEF EPILOGUE_INDEX
    <3>3. IsStep(t, p, 1000) <=> t[p].epilogue
      BY <2>3 DEF IsStep, EPILOGUE_INDEX, PROLOGUE_INDEX
    <3>4. Append(p, 1000) \in StepPaths(t) <=> t[p].epilogue
      BY <3>3, StepAt, 1000 \in Nat
    <3> DEFINE A == IF t[p].epilogue THEN {Append(p, 1000)} ELSE {}
    <3>5. Lists(t, y[<<p, i>>], A)
      <4> DEFINE last == Append(p, 1000)
      <4>1. y[<<p, i>>] = Optional(t[p].epilogue, last) /\ (t[p].epilogue => last \in StepPaths(t))
        BY <3>1, <3>2, <3>4
      <4> HIDE DEF last
      <4>2. Lists(t, Optional(t[p].epilogue, last), IF t[p].epilogue THEN {last} ELSE {})
        BY <4>1, ListsOptional
      <4> QED
        BY <4>1, <4>2 DEF last
    <3>6. /\ Append(p, 1000) \in Seq(Nat) /\ is_ancestor_of(p, Append(p, 1000))
          /\ Len(Append(p, 1000)) > Len(p) /\ Append(p, 1000)[Len(p) + 1] = 1000
      BY <2>3, AppendPath, 1000 \in Nat
    <3>7. A \subseteq From(t, p, i)
      <4>1. t[p].epilogue => Append(p, 1000) \in From(t, p, i)
        <5> DEFINE last == Append(p, 1000)
        <5>1. /\ last[Len(p) + 1] >= i /\ is_ancestor_of(p, last) /\ Len(last) > Len(p)
              /\ t[p].epilogue => last \in StepPaths(t)
          BY <3>2, <3>4, <3>6
        <5> HIDE DEF last
        <5>2. t[p].epilogue => last \in From(t, p, i)
          BY <5>1 DEF From
        <5> QED
          BY <5>2 DEF last
      <4> QED
        BY <4>1, ZenonT(40)
    <3>8. ASSUME NEW q \in From(t, p, i) PROVE q \in A
      <4>1. q \in StepPaths(t) /\ is_ancestor_of(p, q) /\ Len(q) > Len(p) /\ q[Len(p) + 1] >= i
        BY DEF From
      <4> DEFINE j == q[Len(p) + 1]
      <4>2. j \in Nat /\ \/ q = Append(p, j) /\ IsStep(t, p, j)
                         \/ Append(p, j) \in DOMAIN t
        BY <4>1, Below
      <4>3. j \notin DOMAIN t[p].steps /\ j # 0
        BY <2>3, <2>5, <4>1, <4>2
      <4>4. q = Append(p, j) /\ IsStep(t, p, j)
        BY <4>2, <4>3, NestedPath
      <4>5. j = 1000 /\ t[p].epilogue
        BY <4>3, <4>4 DEF IsStep, EPILOGUE_INDEX, PROLOGUE_INDEX
      <4> QED
        BY <4>4, <4>5
    <3>9. A = From(t, p, i)
      BY <3>7, <3>8
    <3> QED
      BY <3>5, <3>9, ZenonT(40)
  <2>6. CASE ~(i > Len(t[p].steps))
    <3> DEFINE here == {q \in StepPaths(t) : is_ancestor_of(p, q) /\ Len(q) > Len(p) /\ q[Len(p) + 1] = i}
               rest == From(t, p, i + 1)
    <3>1. i <= Len(t[p].steps) /\ i \in DOMAIN t[p].steps /\ i + 1 \in Nat \ {0}
          /\ i + 1 <= Len(t[p].steps) + 1
      BY <2>3, <2>6
    <3>2. Lists(t, y[<<p, i + 1>>], rest)
      <4>1. <<p, i + 1>> \in D
        BY <3>1 DEF Frames
      <4>2. R[<<p, i + 1>>] < R[<<p, i>>]
        BY <1>1, <3>1
      <4>3. <<p, i + 1>> \in S
        BY <1>2, <4>1, <4>2
      <4> QED
        BY <3>1, <4>3
    <3>3. From(t, p, i) = here \cup rest
      <4>1. \A q \in StepPaths(t) : is_ancestor_of(p, q) /\ Len(q) > Len(p) => q[Len(p) + 1] \in Nat
        BY Below
      <4>2. \A j \in Nat : j >= i <=> j = i \/ j >= i + 1
        OBVIOUS
      <4> QED
        BY <4>1, <4>2 DEF From
    <3>4. ASSUME NEW a \in here, NEW b \in rest PROVE Precedes(a, b)
      <4>1. /\ a \in StepPaths(t) /\ is_ancestor_of(p, a) /\ Len(a) > Len(p) /\ a[Len(p) + 1] = i
            /\ b \in StepPaths(t) /\ is_ancestor_of(p, b) /\ Len(b) > Len(p) /\ b[Len(p) + 1] >= i + 1
        BY DEF From
      <4>2. a \in Seq(Nat) /\ b \in Seq(Nat) /\ b[Len(p) + 1] \in Nat
        BY <4>1, StepIs, Below
      <4>3. a[Len(p) + 1] < b[Len(p) + 1]
        BY <4>1, <4>2
      <4> QED
        BY <2>3, <4>1, <4>2, <4>3, ItemsInOrder
    <3>5. ASSUME NEW q \in StepPaths(t) PROVE q \in here <=> is_ancestor_of(c, q)
      <4>1. q \in Seq(Nat)
        BY StepIs
      <4> QED
        BY <2>3, <4>1, BelowItem
    <3>6. CASE c \in DOMAIN t
      <4>1. y[<<p, i>>] = (Optional(t[c].prologue, Append(c, PROLOGUE_INDEX)) \o y[<<c, 1>>])
                          \o y[<<p, i + 1>>]
        BY <2>2, <2>6, <3>6 DEF YieldBody
      <4>2. Lists(t, y[<<c, 1>>], From(t, c, 1))
        <5>1. <<c, 1>> \in D
          <6>1. 1 \in Nat \ {0}
            OBVIOUS
          <6> HIDE DEF c
          <6> QED
            BY <3>6, <6>1 DEF Frames
        <5>2. R[<<c, 1>>] < R[<<p, i>>]
          BY <1>1, <3>1, <3>6
        <5>3. <<c, 1>> \in S
          BY <1>2, <5>1, <5>2
        <5>4. 1 <= Len(t[c].steps) + 1
          BY <3>6, NestedPath
        <5> HIDE DEF c
        <5> QED
          BY <5>3, <5>4
      <4>3. here = {q \in StepPaths(t) : is_ancestor_of(c, q) /\ Len(q) > Len(c)}
        <5>1. ASSUME NEW q \in StepPaths(t), is_ancestor_of(c, q) PROVE Len(q) > Len(c)
          <6>1. q \in Seq(Nat) /\ q # c
            <7>1. q \in Seq(Nat) /\ q \notin DOMAIN t
              BY StepIs
            <7> HIDE DEF c
            <7> QED
              BY <3>6, <7>1
          <6>2. Len(q) # Len(c)
            BY <2>4, <5>1, <6>1, SeqEqual DEF is_ancestor_of
          <6> QED
            BY <2>4, <5>1, <6>1, <6>2 DEF is_ancestor_of
        <5> HIDE DEF c
        <5> QED
          BY <3>5, <5>1
      <4> HIDE DEF here, c
      <4>4. Lists(t, Optional(t[c].prologue, Append(c, PROLOGUE_INDEX)) \o y[<<c, 1>>], here)
        BY <3>6, <4>2, <4>3, PrologueFirst
      <4> HIDE DEF y, rest
      <4> QED
        BY <3>2, <3>3, <3>4, <4>1, <4>4, ListsConcat
    <3>7. CASE c \notin DOMAIN t
      <4>1. y[<<p, i>>] = <<c>> \o y[<<p, i + 1>>]
        BY <2>2, <2>6, <3>7 DEF YieldBody
      <4>2. c \in StepPaths(t)
        BY <3>1, <3>7, EnterIs
      <4>3. here = {c}
        <5>1. c \in here
          <6>1. is_ancestor_of(c, c)
            BY <2>4, AncestorOrder
          <6> QED
            BY <3>5, <4>2, <6>1
        <5>2. ASSUME NEW q \in here PROVE q = c
          BY <3>7, Below
        <5> QED
          BY <5>1, <5>2
      <4>4. Lists(t, <<c>>, here)
        BY <4>2, <4>3, ListsOne
      <4> HIDE DEF here, c, y, rest
      <4> QED
        BY <3>2, <3>3, <3>4, <4>1, <4>4, ListsConcat
    <3> QED
      BY <3>6, <3>7
  <2> QED
    BY <2>5, <2>6
<1>3. S = D
  <2>1. ASSUME NEW z \in D, \A x \in D : R[x] < R[z] => x \in S PROVE z \in S
    <3>1. PICK p \in DOMAIN t, i \in Nat \ {0} : z = <<p, i>>
      BY DEF Frames
    <3>2. z[1] = p /\ z[2] = i
      BY <3>1
    <3> QED
      BY <1>2, <2>1, <3>1, <3>2
  <2>2. S \in SUBSET D
    OBVIOUS
  <2>3. \A x \in D : R[x] \in Nat
    BY <1>1
  <2> HIDE DEF S, D
  <2> QED
    BY <2>1, <2>2, <2>3, RankInduction
<1> HIDE DEF y
<1>4. \A p \in DOMAIN t, i \in Nat \ {0} : <<p, i>> \in D
  BY DEF Frames
<1>5. \A x \in D : x[2] <= Len(t[x[1]].steps) + 1 => Lists(t, y[x], From(t, x[1], x[2]))
  BY <1>3
<1>6. ASSUME NEW p \in DOMAIN t, NEW i \in Nat \ {0}, i <= Len(t[p].steps) + 1
      PROVE  Lists(t, y[<<p, i>>], From(t, p, i))
  <2> DEFINE x == <<p, i>>
  <2>1. x \in D /\ x[1] = p /\ x[2] = i
    BY <1>4
  <2> QED
    BY <1>5, <1>6, <2>1
<1> QED
  BY <1>6 DEF y

\* iter_steps yields every step of the pipeline once, in the order of its text.
LEMMA StepsList ==
  ASSUME NEW t, WellFormed(t)
  PROVE  Lists(t, iter_steps(t), StepPaths(t))
<1>1. << >> \in DOMAIN t
  BY DEF WellFormed
<1>2. 1 <= Len(t[<< >>].steps) + 1
  BY <1>1, NestedPath
<1>3. Lists(t, iter_frame(t)[<< << >>, 1>>], From(t, << >>, 1))
  BY <1>1, <1>2, FramesList, 1 \in Nat \ {0}
<1>4. Append(<< >>, PROLOGUE_INDEX) = <<PROLOGUE_INDEX>>
  OBVIOUS
<1>5. \A q \in StepPaths(t) : is_ancestor_of(<< >>, q) /\ Len(q) > Len(<< >>)
  <2>1. ASSUME NEW q \in StepPaths(t) PROVE is_ancestor_of(<< >>, q) /\ Len(q) > 0
    <3>1. q \in Seq(Nat) /\ q # << >>
      BY StepIs
    <3> QED
      BY <3>1 DEF is_ancestor_of
  <2> QED
    BY <2>1
<1>6. {q \in StepPaths(t) : is_ancestor_of(<< >>, q) /\ Len(q) > Len(<< >>)} = StepPaths(t)
  BY <1>5
<1>7. Lists(t, Optional(t[<< >>].prologue, Append(<< >>, PROLOGUE_INDEX)) \o iter_frame(t)[<< << >>, 1>>],
            StepPaths(t))
  BY <1>1, <1>3, <1>6, PrologueFirst
<1> QED
  BY <1>4, <1>7 DEF iter_steps

\* Navigation stays inside the pipeline, and the hooks visit its steps.
LEMMA NaviClosed ==
  ASSUME NEW t, WellFormed(t)
  PROVE  /\ iter_steps(t) \in Seq(StepPaths(t))
         /\ entrypoint(t)[<< >>] \in StepPaths(t) \cup {NoStep}
         /\ \A p \in StepPaths(t) : /\ next_ok(t, p) \in StepPaths(t) \cup {NoStep}
                                    /\ next_break(t, p) \in StepPaths(t) \cup {NoStep}
<1>1. << >> \in DOMAIN t
  BY DEF WellFormed
<1>2. entrypoint(t)[<< >>] \in StepPaths(t) \cup {NoStep}
  BY <1>1, EntryIn
<1>3. iter_steps(t) \in Seq(StepPaths(t))
  BY StepsList DEF Lists
<1> QED
  BY <1>2, <1>3, NextIn

(***************************************************************************)
(* Entering and leaving                                                    *)
(***************************************************************************)

\* The scopes that are active when control is in the pipeline at path p.
Chain(p) == {s \in DOMAIN pipeline : is_ancestor_of(s, p)}

\* When the active scopes are a chain, Scope::leave reaches all that are nested
\* in the scope it leaves.
LEMMA LeftWith ==
  ASSUME WellFormed(pipeline), current \in DOMAIN pipeline, active = Chain(current),
         NEW s \in Seq(Nat)
  PROVE  left_with(s) = {d \in active : is_ancestor_of(s, d)}
<1> SUFFICES ASSUME NEW d \in active, is_ancestor_of(s, d), NEW k \in Len(s)..Len(d)
             PROVE  SubSeq(d, 1, k) \in active
  BY DEF left_with
<1>1. /\ d \in DOMAIN pipeline /\ is_ancestor_of(d, current)
      /\ d \in Seq(Nat) /\ current \in Seq(Nat)
  BY DEF Chain, WellFormed
<1>2. k \in 0..Len(d)
  BY <1>1
<1>3. SubSeq(d, 1, k) \in DOMAIN pipeline
  BY <1>1, <1>2, DomainPrefixClosed
<1>4. SubSeq(d, 1, k) \in Seq(Nat) /\ is_ancestor_of(SubSeq(d, 1, k), d)
  BY <1>1, <1>2, PrefixProperties
<1>5. is_ancestor_of(SubSeq(d, 1, k), current)
  BY <1>1, <1>4, AncestorOrder
<1> QED
  BY <1>3, <1>5 DEF Chain

\* Leaving the root scope leaves every scope.
LEMMA LeaveRoot ==
  ASSUME WellFormed(pipeline), current \in DOMAIN pipeline,
         active = {} \/ active = Chain(current),
         leave_root
  PROVE  active' = {}
<1>1. CASE active = {}
  BY <1>1 DEF leave_root
<1>2. CASE active = Chain(current)
  <2>1. \A d \in active : d \in Seq(Nat) /\ is_ancestor_of(<< >>, d)
    BY <1>2, AncestorOrder DEF Chain, WellFormed
  <2>2. left_with(<< >>) = {d \in active : is_ancestor_of(<< >>, d)}
    BY <1>2, LeftWith, << >> \in Seq(Nat)
  <2>3. << >> \in active
    <3>1. << >> \in DOMAIN pipeline /\ current \in Seq(Nat)
      BY DEF WellFormed
    <3>2. is_ancestor_of(<< >>, current)
      BY <3>1, AncestorOrder
    <3> QED
      BY <1>2, <3>1, <3>2 DEF Chain
  <2> QED
    BY <2>1, <2>2, <2>3 DEF leave_root
<1> QED
  BY <1>1, <1>2

\* The scope around a nested scope is an ancestor of it.
LEMMA OuterScope ==
  ASSUME WellFormed(pipeline), NEW s \in DOMAIN pipeline, s # << >>
  PROVE  /\ scope_of(s) \in DOMAIN pipeline
         /\ is_ancestor_of(scope_of(s), s)
<1>1. s \in Seq(Nat) /\ scope_of(s) \in DOMAIN pipeline
  BY DEF WellFormed
<1>2. Len(s) - 1 \in 0..Len(s)
  BY <1>1, EmptySeq
<1> QED
  BY <1>1, <1>2, PrefixProperties DEF scope_of

\* Where the executor goes, the chain of active scopes follows: no assertion of
\* Scope::enter and Scope::leave fails, exactly the scopes around the next step
\* are active, and exactly those the last step was not in have new limits.
LEMMA SwitchContext ==
  ASSUME WellFormed(pipeline), current \in DOMAIN pipeline, active = Chain(current),
         limits \in [DOMAIN pipeline -> LimitsSet],
         NEW next_step, scope_of(next_step) \in DOMAIN pipeline,
         switch_context(next_step)
  PROVE  /\ current' = scope_of(next_step)
         /\ panicked' = FALSE
         /\ active' = Chain(scope_of(next_step))
         /\ renewed' = {s \in active' : ~is_ancestor_of(s, current)}
         /\ limits' \in [DOMAIN pipeline -> LimitsSet]
         /\ \A s \in renewed' :
              s # << >> /\ limits'[s] \in scope_limits(pipeline[s].limits, limits'[scope_of(s)])
         /\ \A s \in DOMAIN pipeline \ renewed' : limits'[s] = limits[s]
<1> DEFINE next == scope_of(next_step)
           common == common_ancestor(current, next)
           leaving == between(current, common)
           entering == {between(common, next)[i] : i \in DOMAIN between(common, next)}
           left == UNION {left_with(leaving[i]) : i \in DOMAIN leaving}
           n == Len(current) - Len(common)
           m == Len(next) - Len(common)
<1>1. current \in Seq(Nat) /\ next \in Seq(Nat) /\ \A s \in DOMAIN pipeline : s \in Seq(Nat)
  BY DEF WellFormed
<1>2. /\ common \in Seq(Nat)
      /\ is_ancestor_of(common, current) /\ is_ancestor_of(common, next)
      /\ \A s \in Seq(Nat) : is_ancestor_of(s, current) /\ is_ancestor_of(s, next)
           => is_ancestor_of(s, common)
  BY <1>1, CommonAncestor
<1>3. /\ DOMAIN leaving = 1..n
      /\ \A i \in 1..n : leaving[i] = SubSeq(current, 1, Len(current) + 1 - i)
  BY <1>1, <1>2, BetweenUp
<1>4. /\ DOMAIN between(common, next) = 1..m
      /\ \A i \in 1..m : between(common, next)[i] = SubSeq(next, 1, Len(common) + i)
  BY <1>1, <1>2, BetweenDown
<1>5. /\ Len(common) \in 0..Len(current) /\ Len(common) \in 0..Len(next)
      /\ n \in Nat /\ m \in Nat
  <2>1. Len(common) <= Len(current) /\ Len(common) <= Len(next)
    BY <1>2 DEF is_ancestor_of
  <2>2. Len(common) \in Nat /\ Len(current) \in Nat /\ Len(next) \in Nat
    BY <1>1, <1>2
  <2> QED
    BY <2>1, <2>2
\* An ancestor of one of the two is one of their common ancestor iff it is no longer.
<1>6. ASSUME NEW s \in Seq(Nat), is_ancestor_of(s, current) \/ is_ancestor_of(s, next)
      PROVE  is_ancestor_of(s, common) <=> Len(s) <= Len(common)
  BY <1>1, <1>2, <1>6, AncestorOrder DEF is_ancestor_of
<1> HIDE DEF next, common
<1>7. ASSUME NEW i \in 1..n
      PROVE  /\ leaving[i] \in active
             /\ leaving[i] \in Seq(Nat)
             /\ Len(leaving[i]) = Len(current) + 1 - i
  <2>1. Len(current) + 1 - i \in 0..Len(current)
    BY <1>5
  <2>2. /\ leaving[i] \in Seq(Nat)
        /\ Len(leaving[i]) = Len(current) + 1 - i
        /\ is_ancestor_of(leaving[i], current)
    BY <2>1, <1>1, <1>3, PrefixProperties
  <2>3. leaving[i] \in DOMAIN pipeline
    BY <2>1, <1>3, DomainPrefixClosed
  <2> QED
    BY <2>2, <2>3 DEF Chain
<1>8. entering = {s \in Chain(next) : Len(s) > Len(common)}
  <2>1. ASSUME NEW i \in 1..m
        PROVE  between(common, next)[i] \in Chain(next)
               /\ Len(between(common, next)[i]) > Len(common)
    <3>1. Len(common) + i \in 0..Len(next) /\ Len(common) + i > Len(common)
      BY <1>5
    <3>2. next \in DOMAIN pipeline
      BY DEF next
    <3>3. SubSeq(next, 1, Len(common) + i) \in DOMAIN pipeline
      BY <3>1, <3>2, DomainPrefixClosed
    <3>4. /\ is_ancestor_of(SubSeq(next, 1, Len(common) + i), next)
          /\ Len(SubSeq(next, 1, Len(common) + i)) = Len(common) + i
      BY <3>1, <1>1, PrefixProperties
    <3> QED
      BY <3>1, <3>3, <3>4, <1>4 DEF Chain
  <2>2. ASSUME NEW s \in Chain(next), Len(s) > Len(common)
        PROVE  \E i \in 1..m : s = between(common, next)[i]
    <3>1. s \in Seq(Nat) /\ is_ancestor_of(s, next)
      BY <1>1 DEF Chain
    <3>2. Len(s) \in 0..Len(next) /\ s = SubSeq(next, 1, Len(s))
      BY <3>1, <1>1, AncestorIsPrefix
    <3>3. Len(s) - Len(common) \in 1..m /\ Len(common) + (Len(s) - Len(common)) = Len(s)
      BY <3>2, <2>2, <1>5
    <3> QED
      BY <3>2, <3>3, <1>4
  <2> QED
    BY <2>1, <2>2, <1>4
<1>9. left = {d \in active : Len(d) > Len(common)}
  <2>1. \A i \in 1..n : left_with(leaving[i]) = {d \in active : is_ancestor_of(leaving[i], d)}
    BY <1>7, LeftWith
  <2>2. ASSUME NEW i \in 1..n, NEW d \in active, is_ancestor_of(leaving[i], d)
        PROVE  Len(d) > Len(common)
    <3>1. d \in Seq(Nat)
      BY <1>1 DEF Chain
    <3> QED
      BY <2>2, <3>1, <1>5, <1>7 DEF is_ancestor_of
  <2>3. ASSUME NEW d \in active, Len(d) > Len(common)
        PROVE  \E i \in 1..n : is_ancestor_of(leaving[i], d)
    <3>1. d \in Seq(Nat) /\ is_ancestor_of(d, current)
      BY <1>1 DEF Chain
    <3>2. Len(d) \in 0..Len(current) /\ d = SubSeq(current, 1, Len(d))
      BY <3>1, <1>1, AncestorIsPrefix
    <3>3. /\ Len(current) + 1 - Len(d) \in 1..n
          /\ Len(current) + 1 - (Len(current) + 1 - Len(d)) = Len(d)
      BY <3>2, <2>3, <1>5
    <3>4. leaving[Len(current) + 1 - Len(d)] = d
      BY <3>2, <3>3, <1>3
    <3> QED
      BY <3>1, <3>3, <3>4, AncestorOrder
  <2> QED
    BY <2>1, <2>2, <2>3, <1>3
\* Leaving from the bottom up, no scope is left along with one left before it.
<1>10. ASSUME NEW i \in 1..n, NEW j \in 1..(i - 1)
       PROVE  leaving[i] \notin left_with(leaving[j])
  <2>1. j \in 1..n /\ j < i
    OBVIOUS
  <2>2. left_with(leaving[j]) = {d \in active : is_ancestor_of(leaving[j], d)}
    BY <2>1, <1>7, LeftWith
  <2>3. Len(leaving[i]) < Len(leaving[j])
    <3>1. Len(leaving[i]) = Len(current) + 1 - i /\ Len(leaving[j]) = Len(current) + 1 - j
      BY <2>1, <1>7
    <3>2. Len(current) \in Nat
      BY <1>1
    <3> QED
      BY <2>1, <3>1, <3>2
  <2>4. ~is_ancestor_of(leaving[j], leaving[i])
    BY <2>1, <2>3, <1>7 DEF is_ancestor_of
  <2> QED
    BY <2>2, <2>4
<1> HIDE DEF left, entering
<1>11. active \ left = Chain(common)
  <2>1. \A d \in active : d \in Seq(Nat) /\ is_ancestor_of(d, current)
    BY <1>1 DEF Chain
  <2>2. \A d \in active : d \notin left <=> Len(d) <= Len(common)
    BY <2>1, <1>2, <1>9
  <2>3. \A d \in active : d \notin left <=> is_ancestor_of(d, common)
    BY <2>1, <2>2, <1>6
  <2>4. \A d \in Chain(common) : d \in active
    BY <1>1, <1>2, AncestorOrder DEF Chain
  <2>5. active \subseteq DOMAIN pipeline
    BY DEF Chain
  <2> QED
    BY <2>3, <2>4, <2>5 DEF Chain
<1>12. entering = {s \in Chain(next) : ~is_ancestor_of(s, current)}
  <2>1. \A s \in Chain(next) : s \in Seq(Nat) /\ is_ancestor_of(s, next)
    BY <1>1 DEF Chain
  <2>2. \A s \in Chain(next) : is_ancestor_of(s, current) <=> is_ancestor_of(s, common)
    BY <2>1, <1>1, <1>2, AncestorOrder
  <2>3. \A s \in Chain(next) : is_ancestor_of(s, common) <=> Len(s) <= Len(common)
    BY <2>1, <1>6
  <2>4. \A s \in Chain(next) : Len(s) <= Len(common) <=> ~(Len(s) > Len(common))
    BY <2>1, <1>2
  <2> QED
    BY <2>2, <2>3, <2>4, <1>8
<1>13. (active \ left) \cup entering = Chain(next)
  <2>1. \A s \in Chain(common) : s \in Chain(next)
    BY <1>1, <1>2, AncestorOrder DEF Chain
  <2>2. \A s \in Chain(next) : is_ancestor_of(s, current) => s \in Chain(common)
    BY <1>1, <1>2 DEF Chain
  <2> QED
    BY <2>1, <2>2, <1>11, <1>12
<1>14. \A s \in entering : s \notin active \ left
  BY <1>11, <1>12, <1>1, <1>2, AncestorOrder DEF Chain
<1>15. << >> \notin entering
  BY <1>12, <1>1, AncestorOrder
<1>16. /\ current' = next
       /\ active' = (active \ left) \cup entering
       /\ renewed' = entering
       /\ panicked' = ((\E i \in DOMAIN leaving :
                          \/ leaving[i] \notin active
                          \/ \E j \in 1..(i - 1) : leaving[i] \in left_with(leaving[j]))
                       \/ \E s \in entering : s \in active \ left)
  BY DEF switch_context, next, common, left, entering
<1>17. panicked' = FALSE
  BY <1>3, <1>7, <1>10, <1>14, <1>16
<1>18. PICK new \in [entering -> LimitsSet] :
         /\ limits' = [s \in DOMAIN pipeline |-> IF s \in entering THEN new[s] ELSE limits[s]]
         /\ \A s \in entering :
              new[s] \in scope_limits(pipeline[s].limits, enclosing_limits(limits', s))
  BY DEF switch_context, next, common, entering
<1>19. entering \subseteq DOMAIN pipeline
  BY <1>12 DEF Chain
<1>20. limits' \in [DOMAIN pipeline -> LimitsSet]
  BY <1>18
<1>21. \A s \in DOMAIN pipeline : limits'[s] = IF s \in entering THEN new[s] ELSE limits[s]
  BY <1>18
<1>22. \A s \in entering :
         s # << >> /\ limits'[s] \in scope_limits(pipeline[s].limits, limits'[scope_of(s)])
  BY <1>15, <1>18, <1>19, <1>21 DEF enclosing_limits
<1> QED
  BY <1>12, <1>13, <1>16, <1>17, <1>20, <1>21, <1>22 DEF next

(***************************************************************************)
(* The run                                                                 *)
(***************************************************************************)

\* clamp bounds the limits a factory creates by the limits around them.
LEMMA ClampedLimits ==
  ASSUME NEW t \in Pipelines, NEW s \in DOMAIN t, NEW outer \in LimitsSet,
         NEW l \in scope_limits(t[s].limits, outer)
  PROVE  /\ l \in LimitsSet
         /\ l.gas_limit <= outer.gas_limit
         /\ outer.max_blob_count # NoLimit => /\ l.max_blob_count # NoLimit
                                             /\ l.max_blob_count <= outer.max_blob_count
         /\ l.deadline # NoLimit => outer.deadline # NoLimit /\ l.deadline <= outer.deadline
<1>1. l \in LimitsSet
  BY LimitsClosed
<1>2. PICK c \in create(t[s].limits, outer) : l = clamp(c, outer)
  BY DEF scope_limits
<1>3. c \in Limits /\ outer \in Limits
  BY LimitsClosed
<1>4. /\ c.gas_limit \in Int /\ outer.gas_limit \in Int
      /\ c.deadline \in Int /\ c.deadline >= NoLimit
      /\ outer.deadline \in Int /\ outer.deadline >= NoLimit
      /\ c.max_blob_count \in Int /\ outer.max_blob_count \in Int
  BY <1>3, IntMaxNat DEF Limits, UInt, OptUInt, NoLimit
<1>5. /\ l.gas_limit = least(c.gas_limit, outer.gas_limit)
      /\ l.deadline = least(c.deadline, outer.deadline)
      /\ l.max_blob_count = clamp_blobs(c.max_blob_count, outer.max_blob_count)
  BY <1>2 DEF clamp
<1> QED
  BY <1>1, <1>4, <1>5 DEF least, clamp_blobs, NoLimit

\* The pipeline of a job is well-formed, and navigation stays inside it.
LEMMA PipelineFacts ==
  ASSUME pipeline \in Pipelines
  PROVE  /\ WellFormed(pipeline)
         /\ << >> \in DOMAIN pipeline
         /\ Len(steps) \in Nat
         /\ entrypoint(pipeline)[<< >>] \in StepPaths(pipeline) \cup {NoStep}
         /\ \A p \in StepPaths(pipeline) :
              /\ p # NoStep
              /\ scope_of(p) \in DOMAIN pipeline
              /\ next_ok(pipeline, p) \in StepPaths(pipeline) \cup {NoStep}
              /\ next_break(pipeline, p) \in StepPaths(pipeline) \cup {NoStep}
<1>1. WellFormed(pipeline)
  BY PipelinesWellFormed
<1>2. << >> \in DOMAIN pipeline
  BY <1>1 DEF WellFormed
<1>3. steps \in Seq(StepPaths(pipeline))
  BY <1>1, NaviClosed DEF steps
<1>4. Len(steps) \in Nat
  BY <1>3, LenProperties
<1>5. \A p \in StepPaths(pipeline) : p # NoStep /\ scope_of(p) \in DOMAIN pipeline
  BY <1>1, StepScope
<1> QED
  BY <1>1, <1>2, <1>4, <1>5, NaviClosed

(***************************************************************************)
(* The inductive invariant                                                 *)
(***************************************************************************)

\* A run starts with all scopes inactive and nothing decided.
LEMMA InitIndInv == Init => IndInv
<1> SUFFICES ASSUME Init PROVE IndInv
  OBVIOUS
<1>1. pipeline \in Pipelines
  BY DEF Init
<1>2. << >> \in DOMAIN pipeline /\ Len(steps) \in Nat
  BY <1>1, PipelineFacts
<1>3. TypeOK
  <2>1. events \in Seq({"PayloadJobStarted", "PayloadJobCompleted", "PayloadJobFailed"})
    BY DEF Init
  <2>2. 0 \in 0..Len(steps)
    BY <1>2
  <2> QED
    BY <1>1, <1>2, <2>1, <2>2 DEF Init, rooted_at, TypeOK
<1> QED
  BY <1>3 DEF Init, rooted_at, IndInv, NoScopePanic, ActiveScopesAreAChain,
       NestedLimitsWithinEnclosing, RunsInRootScope, ScopesLeftAtTheEnd

\* A step of the executor that leaves the scopes alone keeps what is said of them.
LEMMA ScopesUnchanged ==
  ASSUME IndInv, UNCHANGED <<pipeline, current, active, limits, panicked>>
  PROVE  NoScopePanic' /\ ActiveScopesAreAChain' /\ NestedLimitsWithinEnclosing'
BY DEF IndInv, NoScopePanic, ActiveScopesAreAChain, NestedLimitsWithinEnclosing

\* Leaving the root scope, at the end of a run or when it is dropped.
LEMMA ScopesLeft ==
  ASSUME IndInv, leave_root, UNCHANGED pipeline
  PROVE  /\ NoScopePanic' /\ ActiveScopesAreAChain' /\ NestedLimitsWithinEnclosing'
         /\ active' = {} /\ renewed' = {} /\ UNCHANGED <<current, limits, panicked>>
<1>1. WellFormed(pipeline) /\ current \in DOMAIN pipeline
  BY PipelineFacts DEF IndInv, TypeOK
<1>2. active = {} \/ active = Chain(current)
  BY DEF IndInv, ActiveScopesAreAChain, Chain
<1>3. active' = {}
  BY <1>1, <1>2, LeaveRoot
<1> QED
  BY <1>3 DEF leave_root, IndInv, NoScopePanic, ActiveScopesAreAChain, NestedLimitsWithinEnclosing

\* Going on to another step, from a step that runs.
LEMMA ScopesSwitched ==
  ASSUME IndInv, cursor = "StepInProgress", UNCHANGED pipeline,
         NEW next \in StepPaths(pipeline), switch_context(next)
  PROVE  /\ NoScopePanic' /\ ActiveScopesAreAChain' /\ NestedLimitsWithinEnclosing'
         /\ current' = scope_of(next) /\ << >> \in active'
         /\ current' \in DOMAIN pipeline
         /\ active' \subseteq DOMAIN pipeline /\ renewed' \subseteq DOMAIN pipeline
         /\ limits' \in [DOMAIN pipeline -> LimitsSet]
         /\ renewed' = {s \in active' : ~is_ancestor_of(s, current)}
         /\ \A s \in renewed' :
              limits'[s] \in scope_limits(pipeline[s].limits, limits'[scope_of(s)])
<1>1. /\ pipeline \in Pipelines /\ WellFormed(pipeline) /\ << >> \in DOMAIN pipeline
      /\ current \in DOMAIN pipeline /\ scope_of(next) \in DOMAIN pipeline
      /\ limits \in [DOMAIN pipeline -> LimitsSet]
  BY PipelineFacts DEF IndInv, TypeOK
<1>2. << >> \in active
  BY DEF IndInv, RunsInRootScope
<1>3. active = Chain(current)
  BY <1>2 DEF IndInv, ActiveScopesAreAChain, Chain
<1>4. /\ current' = scope_of(next)
      /\ panicked' = FALSE
      /\ active' = Chain(scope_of(next))
      /\ renewed' = {s \in active' : ~is_ancestor_of(s, current)}
      /\ limits' \in [DOMAIN pipeline -> LimitsSet]
      /\ \A s \in renewed' :
           s # << >> /\ limits'[s] \in scope_limits(pipeline[s].limits, limits'[scope_of(s)])
      /\ \A s \in DOMAIN pipeline \ renewed' : limits'[s] = limits[s]
  BY <1>1, <1>3, SwitchContext
<1>5. ActiveScopesAreAChain'
  BY <1>4 DEF ActiveScopesAreAChain, Chain
<1>6. << >> \in active'
  <2>1. scope_of(next) \in Seq(Nat)
    BY <1>1 DEF WellFormed
  <2>2. is_ancestor_of(<< >>, scope_of(next))
    BY <2>1, AncestorOrder
  <2> QED
    BY <2>2, <1>1, <1>4 DEF Chain
<1>7. NestedLimitsWithinEnclosing'
  <2> SUFFICES ASSUME NEW s \in active', s # << >>
               PROVE  LET outer == limits'[scope_of(s)] IN
                      /\ limits'[s].gas_limit <= outer.gas_limit
                      /\ outer.max_blob_count # NoLimit =>
                           /\ limits'[s].max_blob_count # NoLimit
                           /\ limits'[s].max_blob_count <= outer.max_blob_count
                      /\ limits'[s].deadline # NoLimit =>
                           /\ outer.deadline # NoLimit
                           /\ limits'[s].deadline <= outer.deadline
    BY DEF NestedLimitsWithinEnclosing
  <2>1. s \in DOMAIN pipeline /\ scope_of(s) \in DOMAIN pipeline /\ is_ancestor_of(scope_of(s), s)
    BY <1>1, <1>4, OuterScope DEF Chain
  <2>2. CASE s \in renewed'
    BY <2>1, <2>2, <1>1, <1>4, ClampedLimits
  <2>3. CASE s \notin renewed'
    <3>1. is_ancestor_of(s, current) /\ s \in active
      BY <2>1, <2>3, <1>3, <1>4 DEF Chain
    <3>2. is_ancestor_of(scope_of(s), current)
      <4>1. s \in Seq(Nat) /\ scope_of(s) \in Seq(Nat) /\ current \in Seq(Nat)
        BY <2>1, <1>1 DEF WellFormed
      <4> QED
        BY <4>1, <3>1, <2>1, AncestorOrder
    <3>3. limits'[s] = limits[s] /\ limits'[scope_of(s)] = limits[scope_of(s)]
      BY <2>1, <2>3, <3>2, <1>4
    <3> QED
      BY <3>1, <3>3 DEF IndInv, NestedLimitsWithinEnclosing
  <2> QED
    BY <2>2, <2>3
<1> QED
  BY <1>1, <1>4, <1>5, <1>6, <1>7 DEF NoScopePanic, Chain

\* The rest of the invariant, apart from the types.
RestInv ==
  /\ RunsInRootScope
  /\ ScopesLeftAtTheEnd
  /\ cursor = "Initializing" => active = {} /\ current = << >>
  /\ cursor \in {"BeforeStep", "StepInProgress"} => path # NoStep
  /\ cursor \in {"Initializing", "BeforeStep", "StepInProgress"} => output = "none"
  /\ cursor = "Finalizing" => output # "none"
  /\ cursor # "Done" => result = "none"

\* The run goes on to the step `next`, or to its end.
LEMMA AdvanceIndInv ==
  ASSUME IndInv, cursor = "StepInProgress",
         NEW next \in StepPaths(pipeline) \cup {NoStep}, advance_cursor(next)
  PROVE  IndInv'
<1>1. TypeOK /\ RestInv /\ pipeline \in Pipelines
  BY DEF IndInv, RestInv, TypeOK
<1>2. CASE next = NoStep
  <2>1. PICK built \in {"ok", "err"} : finalize(built)
    BY <1>2 DEF advance_cursor
  <2>2. UNCHANGED <<pipeline, current, active, limits, panicked>> /\ renewed' = {}
    BY <1>2 DEF advance_cursor
  <2>3. NoScopePanic' /\ ActiveScopesAreAChain' /\ NestedLimitsWithinEnclosing'
    BY <2>2, ScopesUnchanged
  <2>4. TypeOK'
    BY <1>1, <2>1, <2>2 DEF TypeOK, finalize, steps
  <2>5. RestInv'
    BY <1>1, <2>1, <2>2 DEF RestInv, finalize, RunsInRootScope, ScopesLeftAtTheEnd
  <2> QED
    BY <2>3, <2>4, <2>5 DEF IndInv, RestInv
<1>3. CASE next # NoStep
  <2>1. /\ switch_context(next)
        /\ cursor' = "BeforeStep" /\ path' = next
        /\ UNCHANGED <<pipeline, before, after, output, result, events>>
    BY <1>3 DEF advance_cursor
  <2>2. next \in StepPaths(pipeline)
    BY <1>3
  <2>3. /\ NoScopePanic' /\ ActiveScopesAreAChain' /\ NestedLimitsWithinEnclosing'
        /\ current' = scope_of(next) /\ << >> \in active'
        /\ current' \in DOMAIN pipeline
        /\ active' \subseteq DOMAIN pipeline /\ renewed' \subseteq DOMAIN pipeline
        /\ limits' \in [DOMAIN pipeline -> LimitsSet]
    BY <2>1, <2>2, ScopesSwitched
  <2>4. TypeOK'
    BY <1>1, <2>1, <2>2, <2>3 DEF TypeOK, NoScopePanic, steps
  <2>5. RestInv'
    BY <1>1, <1>3, <2>1, <2>3 DEF RestInv, RunsInRootScope, ScopesLeftAtTheEnd
  <2> QED
    BY <2>3, <2>4, <2>5 DEF IndInv, RestInv
<1> QED
  BY <1>2, <1>3

\* Every step of the executor keeps the invariant.
LEMMA NextIndInv == IndInv /\ [Next]_vars => IndInv'
<1> SUFFICES ASSUME IndInv, [Next]_vars PROVE IndInv'
  OBVIOUS
<1> DEFINE ScopeInv == NoScopePanic /\ ActiveScopesAreAChain /\ NestedLimitsWithinEnclosing
<1>1. TypeOK /\ RestInv /\ pipeline \in Pipelines
  BY DEF IndInv, RestInv, TypeOK
<1>2. /\ Len(steps) \in Nat /\ << >> \in DOMAIN pipeline
      /\ entrypoint(pipeline)[<< >>] \in StepPaths(pipeline) \cup {NoStep}
      /\ \A p \in StepPaths(pipeline) :
           /\ next_ok(pipeline, p) \in StepPaths(pipeline) \cup {NoStep}
           /\ next_break(pipeline, p) \in StepPaths(pipeline) \cup {NoStep}
  BY <1>1, PipelineFacts
<1>3. /\ before \in 0..Len(steps) /\ (before < Len(steps) => before + 1 \in 0..Len(steps))
      /\ after \in 0..Len(steps) /\ (after < Len(steps) => after + 1 \in 0..Len(steps))
  BY <1>1, <1>2 DEF TypeOK
<1>4. ASSUME TypeOK', ScopeInv', RestInv' PROVE IndInv'
  BY <1>4 DEF IndInv, RestInv
<1>5. CASE BeforeJobOk
  <2>1. ScopeInv'
    BY <1>5, ScopesUnchanged DEF BeforeJobOk
  <2>2. TypeOK'
    BY <1>1, <1>3, <1>5 DEF BeforeJobOk, TypeOK, steps
  <2>3. RestInv'
    BY <1>1, <1>5 DEF BeforeJobOk, RestInv, RunsInRootScope, ScopesLeftAtTheEnd
  <2> QED
    BY <1>4, <2>1, <2>2, <2>3
<1>6. CASE BeforeJobErr
  <2>1. ScopeInv'
    BY <1>6, ScopesUnchanged DEF BeforeJobErr
  <2>2. TypeOK'
    BY <1>1, <1>3, <1>6 DEF BeforeJobErr, TypeOK, steps
  <2>3. RestInv'
    BY <1>1, <1>6 DEF BeforeJobErr, RestInv, RunsInRootScope, ScopesLeftAtTheEnd
  <2> QED
    BY <1>4, <2>1, <2>2, <2>3
<1>7. CASE FirstStepEmpty
  <2>1. ScopeInv'
    BY <1>7, ScopesUnchanged DEF FirstStepEmpty
  <2>2. TypeOK'
    BY <1>1, <1>7 DEF FirstStepEmpty, finalize, TypeOK, steps
  <2>3. RestInv'
    BY <1>1, <1>7 DEF FirstStepEmpty, finalize, RestInv, RunsInRootScope, ScopesLeftAtTheEnd
  <2> QED
    BY <1>4, <2>1, <2>2, <2>3
<1>8. CASE FirstStep
  <2>1. active = {} /\ current = << >>
    BY <1>1, <1>8 DEF FirstStep, RestInv
  <2>2. /\ active' = {<< >>} /\ current' = << >> /\ panicked' = FALSE /\ renewed' = {<< >>}
        /\ UNCHANGED pipeline
    <3>1. panicked' = (<< >> \in active)
      BY <1>8 DEF FirstStep, enter_root
    <3>2. (<< >> \in active) = FALSE
      BY <2>1
    <3>3. panicked' = FALSE
      BY <3>1, <3>2
    <3>4. active' = active \cup {<< >>} /\ current' = current /\ renewed' = {<< >>} /\ pipeline' = pipeline
      BY <1>8 DEF FirstStep, enter_root
    <3> QED
      BY <2>1, <3>3, <3>4
  <2>3. PICK l \in scope_limits(pipeline[<< >>].limits, limits[<< >>]) :
          limits' = [limits EXCEPT ![<< >>] = l]
    BY <1>8 DEF FirstStep, enter_root
  <2>4. limits' \in [DOMAIN pipeline -> LimitsSet]
    <3>1. l \in LimitsSet
      BY <1>1, <1>2, ClampedLimits DEF TypeOK
    <3> QED
      BY <1>1, <2>3, <3>1 DEF TypeOK
  <2>5. ScopeInv'
    <3>1. \A s \in DOMAIN pipeline : is_ancestor_of(s, << >>) <=> s = << >>
      <4>1. \A s \in DOMAIN pipeline : s \in Seq(Nat)
        BY <1>1, PipelinesWellFormed DEF WellFormed
      <4> QED
        BY <4>1, AncestorOrder, << >> \in Seq(Nat)
    <3> QED
      BY <1>2, <2>2, <3>1 DEF NoScopePanic, ActiveScopesAreAChain, NestedLimitsWithinEnclosing
  <2>6. TypeOK'
    BY <1>1, <1>2, <1>8, <2>2, <2>4 DEF FirstStep, TypeOK, steps
  <2>7. RestInv'
    BY <1>1, <1>8, <2>2 DEF FirstStep, RestInv, RunsInRootScope, ScopesLeftAtTheEnd
  <2> QED
    BY <1>4, <2>5, <2>6, <2>7
<1>9. CASE ExecuteStep
  <2>1. ScopeInv'
    BY <1>9, ScopesUnchanged DEF ExecuteStep
  <2>2. TypeOK'
    BY <1>1, <1>9 DEF ExecuteStep, TypeOK, steps
  <2>3. RestInv'
    BY <1>1, <1>9 DEF ExecuteStep, RestInv, RunsInRootScope, ScopesLeftAtTheEnd
  <2> QED
    BY <1>4, <2>1, <2>2, <2>3
<1>10. CASE StepOk \/ StepBreak
  <2>1. cursor = "StepInProgress" /\ path \in StepPaths(pipeline)
    BY <1>1, <1>10 DEF StepOk, StepBreak, RestInv, TypeOK
  <2>2. \/ advance_cursor(next_ok(pipeline, path))
        \/ advance_cursor(next_break(pipeline, path))
    BY <1>10 DEF StepOk, StepBreak
  <2> QED
    BY <1>2, <2>1, <2>2, AdvanceIndInv
<1>11. CASE StepFail
  <2>1. ScopeInv'
    BY <1>11, ScopesUnchanged DEF StepFail
  <2>2. TypeOK'
    BY <1>1, <1>11 DEF StepFail, finalize, TypeOK, steps
  <2>3. RestInv'
    BY <1>1, <1>11 DEF StepFail, finalize, RestInv, RunsInRootScope, ScopesLeftAtTheEnd
  <2> QED
    BY <1>4, <2>1, <2>2, <2>3
<1>12. CASE AfterJobOk
  <2>1. ScopeInv'
    BY <1>12, ScopesUnchanged DEF AfterJobOk
  <2>2. TypeOK'
    BY <1>1, <1>3, <1>12 DEF AfterJobOk, TypeOK, steps
  <2>3. RestInv'
    BY <1>1, <1>12 DEF AfterJobOk, RestInv, RunsInRootScope, ScopesLeftAtTheEnd
  <2> QED
    BY <1>4, <2>1, <2>2, <2>3
<1>13. CASE AfterJobErr \/ FinalizeDone
  <2>1. PICK res \in {"ok", "err"} : resolve(res)
    BY <1>1, <1>13 DEF AfterJobErr, FinalizeDone, RestInv, TypeOK
  <2>2. UNCHANGED <<pipeline, before, output>> /\ after' \in 0..Len(steps)
    BY <1>3, <1>13 DEF AfterJobErr, FinalizeDone
  <2>3. ScopeInv' /\ active' = {} /\ renewed' = {} /\ UNCHANGED <<current, limits, panicked>>
    BY <2>1, <2>2, ScopesLeft DEF resolve
  <2>4. TypeOK'
    <3>1. events' \in Seq({"PayloadJobStarted", "PayloadJobCompleted", "PayloadJobFailed"})
      BY <1>1, <2>1, AppendProperties DEF resolve, TypeOK
    <3> QED
      BY <1>1, <2>1, <2>2, <2>3, <3>1 DEF resolve, TypeOK, steps
  <2>5. RestInv'
    BY <1>1, <2>1, <2>2, <2>3 DEF resolve, RestInv, RunsInRootScope, ScopesLeftAtTheEnd
  <2> QED
    BY <1>4, <2>3, <2>4, <2>5
<1>14. CASE Drop
  <2>1. ScopeInv' /\ active' = {} /\ renewed' = {} /\ UNCHANGED <<current, limits, panicked>>
    BY <1>14, ScopesLeft DEF Drop
  <2>2. TypeOK'
    BY <1>1, <1>14, <2>1 DEF Drop, TypeOK, steps
  <2>3. RestInv'
    BY <1>1, <1>14, <2>1 DEF Drop, RestInv, RunsInRootScope, ScopesLeftAtTheEnd
  <2> QED
    BY <1>4, <2>1, <2>2, <2>3
<1>15. CASE UNCHANGED vars
  BY <1>15 DEF vars, scopeVars, execVars, IndInv, TypeOK, NoScopePanic, ActiveScopesAreAChain,
       NestedLimitsWithinEnclosing, RunsInRootScope, ScopesLeftAtTheEnd, steps
<1> QED
  BY <1>5, <1>6, <1>7, <1>8, <1>9, <1>10, <1>11, <1>12, <1>13, <1>14, <1>15 DEF Next, Poll

\* IndInv holds in every reachable state.
THEOREM Invariance == Spec => []IndInv
BY InitIndInv, NextIndInv, PTL DEF Spec

(***************************************************************************)
(* What follows from it                                                    *)
(***************************************************************************)

\* Type correctness of the executor and its scopes.
THEOREM TypeCorrect == Spec => []TypeOK
<1>1. IndInv => TypeOK
  BY DEF IndInv
<1> QED
  BY <1>1, Invariance, PTL

\* Whatever the pipeline and the outcomes of its steps: no assertion of Scope::enter
\* and Scope::leave fails, the active scopes are the scope control is in and those
\* around it, and none is left behind when the run ends or is dropped.
THEOREM ScopeSafety == Spec => [](NoScopePanic /\ ActiveScopesAreAChain /\ ScopesLeftAtTheEnd)
<1>1. IndInv => NoScopePanic /\ ActiveScopesAreAChain /\ ScopesLeftAtTheEnd
  BY DEF IndInv
<1> QED
  BY <1>1, Invariance, PTL

\* What a move from a step to another does to the scopes.
LEMMA MovesOn ==
  ASSUME IndInv, Next, cursor = "StepInProgress", cursor' = "BeforeStep"
  PROVE  /\ ActiveScopesAreAChain' /\ current' = scope_of(path') /\ << >> \in active'
         /\ UNCHANGED pipeline
         /\ renewed' = {d \in active' : ~is_ancestor_of(d, current)}
         /\ \A d \in renewed' :
              limits'[d] \in scope_limits(pipeline[d].limits, limits'[scope_of(d)])
<1>1. pipeline \in Pipelines /\ path \in StepPaths(pipeline)
  BY DEF IndInv, TypeOK
<1>2. PICK next \in StepPaths(pipeline) \cup {NoStep} : advance_cursor(next)
  <2>1. StepOk \/ StepBreak
    BY DEF Next, Poll, BeforeJobOk, BeforeJobErr, FirstStepEmpty, FirstStep, ExecuteStep,
         StepFail, finalize, AfterJobOk, AfterJobErr, FinalizeDone, Drop
  <2> QED
    BY <1>1, <2>1, PipelineFacts DEF StepOk, StepBreak
<1>3. next # NoStep /\ switch_context(next) /\ path' = next /\ UNCHANGED pipeline
  BY <1>2 DEF advance_cursor, finalize
<1>4. next \in StepPaths(pipeline)
  BY <1>3
<1> QED
  BY <1>3, <1>4, ScopesSwitched

\* The active scopes are exactly those of the pipelines that contain the step control
\* has moved to from another.
THEOREM StepScopes == Spec => StepsRunInTheirScope
<1>1. ASSUME IndInv, Next, cursor = "StepInProgress", cursor' = "BeforeStep"
      PROVE  active' = {s \in DOMAIN pipeline : is_ancestor_of(s, scope_of(path'))}
  BY <1>1, MovesOn DEF ActiveScopesAreAChain
<1>2. IndInv /\ [Next]_vars =>
        [cursor = "StepInProgress" /\ cursor' = "BeforeStep" =>
           active' = {s \in DOMAIN pipeline : is_ancestor_of(s, scope_of(path'))}]_vars
  BY <1>1
<1> QED
  BY <1>2, Invariance, PTL DEF Spec, StepsRunInTheirScope

\* Nested scopes stay within the gas limit and the deadline around them, for every
\* limits factory, user-defined ones included.
THEOREM LimitsNested == Spec => []NestedLimitsWithinEnclosing
<1>1. IndInv => NestedLimitsWithinEnclosing
  BY DEF IndInv
<1> QED
  BY <1>1, Invariance, PTL

\* Going from a step into other pipelines renews the limits of all of them.
THEOREM ScopesRenewed == Spec => EnteredScopesAreRenewed
<1>1. ASSUME IndInv, Next, cursor = "StepInProgress", cursor' = "BeforeStep",
             NEW s \in DOMAIN pipeline,
             is_ancestor_of(s, scope_of(path')), ~is_ancestor_of(s, current)
      PROVE  /\ s \in renewed' /\ s \in active'
             /\ limits'[s] \in scope_limits(pipeline[s].limits, limits'[scope_of(s)])
  <2>1. s \in active'
    BY <1>1, MovesOn DEF ActiveScopesAreAChain
  <2> QED
    BY <1>1, <2>1, MovesOn
<1>2. IndInv /\ [Next]_vars =>
        [cursor = "StepInProgress" /\ cursor' = "BeforeStep" =>
           \A s \in DOMAIN pipeline :
             is_ancestor_of(s, scope_of(path')) /\ ~is_ancestor_of(s, current) =>
               /\ s \in renewed' /\ s \in active'
               /\ limits'[s] \in scope_limits(pipeline[s].limits, limits'[scope_of(s)])]_vars
  BY <1>1
<1> QED
  BY <1>2, Invariance, PTL DEF Spec, EnteredScopesAreRenewed

(***************************************************************************)
(* The executor keeps the promises of PayloadJobLifecycle                  *)
(***************************************************************************)

\* A run is a PayloadJobLifecycle: it resolves at most once, with a payload only if
\* nothing failed, and publishes exactly the terminal event of its result.
THEOREM Refinement == Spec => ImplementsLifecycle
<1>1. Init => Lifecycle!Init
  BY DEF Init, Lifecycle!Init
<1>2. IndInv /\ [Next]_vars => [Lifecycle!Next]_(Lifecycle!vars)
  <2> SUFFICES ASSUME IndInv, [Next]_vars
               PROVE  Lifecycle!Next \/ UNCHANGED Lifecycle!vars
    OBVIOUS
  <2>1. RestInv /\ TypeOK
    BY DEF IndInv, RestInv
  <2>2. CASE BeforeJobOk \/ ExecuteStep \/ AfterJobOk
    BY <2>2 DEF BeforeJobOk, ExecuteStep, AfterJobOk, Lifecycle!vars
  <2>3. CASE BeforeJobErr
    BY <2>1, <2>3 DEF BeforeJobErr, RestInv, Lifecycle!Next, Lifecycle!FailToStart
  <2>4. CASE FirstStepEmpty
    BY <2>1, <2>4 DEF FirstStepEmpty, finalize, RestInv, Lifecycle!Next, Lifecycle!Start
  <2>5. CASE FirstStep
    BY <2>1, <2>5 DEF FirstStep, RestInv, Lifecycle!Next, Lifecycle!Start
  <2>6. CASE StepOk \/ StepBreak \/ StepFail
    <3>1. PICK out \in {"ok", "err"} : cursor' = "BeforeStep" \/ finalize(out)
      BY <2>6 DEF StepOk, StepBreak, StepFail, advance_cursor
    <3>2. CASE finalize(out)
      BY <2>1, <2>6, <3>2 DEF StepOk, StepBreak, StepFail, finalize, RestInv,
           Lifecycle!Next, Lifecycle!Finish
    <3>3. CASE cursor' = "BeforeStep"
      BY <2>1, <2>6, <3>3 DEF StepOk, StepBreak, StepFail, advance_cursor, finalize, Lifecycle!vars
    <3> QED
      BY <3>1, <3>2, <3>3
  <2>7. CASE AfterJobErr
    BY <2>1, <2>7 DEF AfterJobErr, resolve, RestInv, Lifecycle!Next, Lifecycle!Resolve
  <2>8. CASE FinalizeDone
    BY <2>1, <2>8 DEF FinalizeDone, resolve, RestInv, TypeOK, Lifecycle!Next, Lifecycle!Resolve
  <2>9. CASE Drop
    BY <2>1, <2>9 DEF Drop, RestInv, Lifecycle!Next, Lifecycle!Drop
  <2>10. CASE UNCHANGED vars
    BY <2>10 DEF vars, execVars, Lifecycle!vars
  <2> QED
    BY <2>2, <2>3, <2>4, <2>5, <2>6, <2>7, <2>8, <2>9, <2>10 DEF Next, Poll
<1> QED
  BY <1>1, <1>2, Invariance, PTL DEF Spec, ImplementsLifecycle, Lifecycle!Spec

(***************************************************************************)
(* The navigator and the reference                                         *)
(***************************************************************************)

\* What the reference has to do after the item at q, and after all of its work e.
AfterItem(t, q) ==
  IF q = << >> THEN << >>
  ELSE IF leaf(q) < Len(t[scope_of(q)].steps) THEN <<Run(Append(scope_of(q), leaf(q) + 1))>>
  ELSE <<Mark(scope_of(q))>>

Following(t, e) ==
  IF e.mark \/ e.path \in DOMAIN t THEN AfterItem(t, e.path)
  ELSE IF is_epilogue(e.path) THEN AfterItem(t, scope_of(e.path))
  ELSE IF is_prologue(e.path)
  THEN IF t[scope_of(e.path)].steps = << >> THEN <<Mark(scope_of(e.path))>>
       ELSE <<Run(Append(scope_of(e.path), STEP0_INDEX))>>
  ELSE AfterItem(t, e.path)

Work(t) == {Run(q) : q \in StepPaths(t) \cup DOMAIN t} \cup {Mark(q) : q \in DOMAIN t}

\* The work that is left is what follows what is on top of it.
Chained(t, k) ==
  /\ k \in Seq(Work(t))
  /\ \A i \in 1..Len(k) :
       Following(t, k[i]) = IF i < Len(k) THEN <<k[i + 1]>> ELSE << >>

\* Where the navigator is when e is what the reference does next.
Expected(t, e) ==
  IF e.mark
  THEN IF Repeats(t, e.path) THEN enter(t, Append(e.path, STEP0_INDEX))
       ELSE after_loop(t, Append(e.path, STEP0_INDEX))
  ELSE IF e.path \in DOMAIN t THEN entrypoint(t)[e.path] ELSE e.path

\* The same for a stack.
ExpectedOf(t, k) == IF k = << >> THEN NoStep ELSE Expected(t, k[1])

\* The navigator and the reference agree on what follows a pipeline ...
LEMMA AfterAgrees ==
  ASSUME NEW t, WellFormed(t), NEW p \in DOMAIN t, NEW q, scope_of(q) = p
  PROVE  next_in_parent(t, q) = ExpectedOf(t, AfterItem(t, p))
<1>1. PICK f : /\ \A s \in DOMAIN t : f[s] = AfterBody(t, f, s)
               /\ \A r : next_in_parent(t, r) = f[scope_of(r)]
  BY AfterIs
<1>2. next_in_parent(t, q) = AfterBody(t, f, p)
  BY <1>1
<1>3. CASE p = << >>
  BY <1>2, <1>3 DEF AfterBody, AfterItem, ExpectedOf
<1>4. CASE p # << >>
  <2> DEFINE s == scope_of(p)
             j == leaf(p)
             n == Len(t[s].steps)
  <2>1. s \in DOMAIN t /\ j \in DOMAIN t[s].steps /\ p \in Seq(Nat)
    BY <1>4, NestedPath
  <2>2. n \in Nat /\ DOMAIN t[s].steps = 1..n /\ s \in Seq(Nat) /\ (t[s].steps = << >> <=> n = 0)
    BY <2>1, NestedPath
  <2>3. p = Append(s, j) /\ j \in Nat
    BY <1>4, <2>1, PathSplit
  <2>4. (is_toplevel(p) <=> s = << >>)
    BY <2>2, <2>3, AppendPath, ZenonT(40)
  <2>5. scope_of(Append(s, 1)) = s
    BY <2>2, AppendPath, 1 \in Nat
  <2> HIDE DEF s, j
  <2>6. AfterBody(t, f, p) =
          IF j >= n THEN IF behavior(t, p) = "Loop" THEN enter(t, Append(s, 1))
                         ELSE IF t[s].epilogue THEN Append(s, EPILOGUE_INDEX)
                         ELSE f[s]
          ELSE enter(t, Append(s, j + 1))
    BY <1>4 DEF AfterBody, enter_step0, replace_leaf, increment_leaf, STEP0_INDEX, PROLOGUE_INDEX, s, j
  <2>7. CASE j < n
    <3>1. j + 1 \in DOMAIN t[s].steps /\ ~(j >= n)
      BY <2>1, <2>2, <2>7
    <3>2. AfterItem(t, p) = <<Run(Append(s, j + 1))>>
      BY <1>4, <2>7 DEF AfterItem, s, j
    <3>3. ExpectedOf(t, AfterItem(t, p)) = Expected(t, Run(Append(s, j + 1)))
      BY <3>2 DEF ExpectedOf
    <3>4. enter(t, Append(s, j + 1)) = Expected(t, Run(Append(s, j + 1)))
      BY <2>1, <3>1, EnterIs DEF Expected, Run
    <3> QED
      BY <1>2, <2>6, <3>1, <3>3, <3>4
  <2>8. CASE ~(j < n)
    <3>1. j >= n /\ t[s].steps # << >>
      BY <2>1, <2>2, <2>8
    <3>2. AfterItem(t, p) = <<Mark(s)>>
      BY <1>4, <2>8 DEF AfterItem, s, j
    <3>3. ExpectedOf(t, AfterItem(t, p)) = Expected(t, Mark(s))
      BY <3>2 DEF ExpectedOf
    <3>4. behavior(t, p) = "Loop" <=> Repeats(t, s)
      <4>1. behavior(t, p) = IF s = << >> THEN "Once" ELSE t[scope_of(s)].steps[leaf(s)]
        BY <2>4 DEF behavior, s
      <4> QED
        BY <3>1, <4>1 DEF Repeats
    <3>5. after_loop(t, Append(s, 1)) = IF t[s].epilogue THEN Append(s, EPILOGUE_INDEX) ELSE f[s]
      BY <1>1, <2>5 DEF after_loop, replace_leaf
    <3>6. Expected(t, Mark(s)) = IF Repeats(t, s) THEN enter(t, Append(s, 1))
                                 ELSE after_loop(t, Append(s, 1))
      BY DEF Expected, Mark, STEP0_INDEX, PROLOGUE_INDEX
    <3> QED
      BY <1>2, <2>6, <3>1, <3>3, <3>4, <3>5, <3>6
  <2> QED
    BY <2>7, <2>8
<1> QED
  BY <1>3, <1>4

\* ... and on what follows a step that returned Ok.
LEMMA OkAgrees ==
  ASSUME NEW t, WellFormed(t), NEW q \in StepPaths(t)
  PROVE  next_ok(t, q) = ExpectedOf(t, Following(t, Run(q)))
<1> DEFINE p == scope_of(q)
           j == leaf(q)
           n == Len(t[p].steps)
<1>1. p \in DOMAIN t /\ j \in Nat /\ IsStep(t, p, j) /\ q \notin DOMAIN t /\ q # << >> /\ q = Append(p, j)
  BY StepIs
<1>2. n \in Nat /\ DOMAIN t[p].steps = 1..n /\ (t[p].steps = << >> <=> n = 0) /\ p \in Seq(Nat)
  BY <1>1, NestedPath
<1>3. scope_of(Append(p, 1)) = p /\ (is_toplevel(q) <=> p = << >>)
  <2> HIDE DEF p, j
  <2>1. scope_of(Append(p, 1)) = p
    BY <1>2, AppendPath, 1 \in Nat
  <2>2. is_toplevel(Append(p, j)) <=> p = << >>
    BY <1>1, <1>2, AppendPath
  <2> QED
    BY <1>1, <2>1, <2>2
<1>4. Run(q).mark = FALSE /\ Run(q).path = q
  BY DEF Run
<1>5. next_in_parent(t, Append(p, 1)) = next_in_parent(t, q)
  BY <1>1, <1>3, AfterAgrees
<1>6. after_loop(t, Append(p, 1)) = after_loop(t, q)
  BY <1>3, <1>5 DEF after_loop, replace_leaf
<1>7. Expected(t, Mark(p)) = IF Repeats(t, p) THEN enter(t, Append(p, 1)) ELSE after_loop(t, q)
  BY <1>6 DEF Expected, Mark, STEP0_INDEX, PROLOGUE_INDEX
<1>8. \A i \in DOMAIN t[p].steps : enter(t, Append(p, i)) = Expected(t, Run(Append(p, i)))
  BY <1>1, EnterIs DEF Expected, Run
<1>9. CASE is_epilogue(q)
  <2>1. Following(t, Run(q)) = AfterItem(t, p)
    BY <1>1, <1>4, <1>9 DEF Following
  <2>2. next_ok(t, q) = next_in_parent(t, q)
    BY <1>9 DEF next_ok
  <2> QED
    BY <1>1, <2>1, <2>2, AfterAgrees
<1>10. CASE ~is_epilogue(q) /\ is_prologue(q)
  <2>1. next_ok(t, q) = IF n = 0 THEN after_loop(t, q) ELSE enter(t, Append(p, 1))
    BY <1>2, <1>10 DEF next_ok, after_prologue, enter_step0, replace_leaf, STEP0_INDEX, PROLOGUE_INDEX
  <2>2. Following(t, Run(q)) = IF n = 0 THEN <<Mark(p)>> ELSE <<Run(Append(p, 1))>>
    BY <1>1, <1>2, <1>4, <1>10 DEF Following, STEP0_INDEX, PROLOGUE_INDEX
  <2>3. n = 0 => ~Repeats(t, p)
    BY <1>2 DEF Repeats
  <2>4. ExpectedOf(t, Following(t, Run(q))) =
          IF n = 0 THEN Expected(t, Mark(p)) ELSE Expected(t, Run(Append(p, 1)))
    BY <2>2 DEF ExpectedOf
  <2>5. n # 0 => 1 \in DOMAIN t[p].steps
    BY <1>2
  <2> QED
    BY <1>7, <1>8, <2>1, <2>3, <2>4, <2>5
<1>11. CASE ~is_epilogue(q) /\ ~is_prologue(q)
  <2>1. j \in 1..n /\ t[p].steps # << >>
    BY <1>1, <1>2, <1>11 DEF IsStep, is_epilogue, is_prologue
  <2>2. next_ok(t, q) = IF j < n THEN enter(t, Append(p, j + 1))
                        ELSE IF behavior(t, q) = "Loop" THEN enter(t, Append(p, 1))
                        ELSE after_loop(t, q)
    BY <1>11 DEF next_ok, increment_leaf, replace_leaf, STEP0_INDEX, PROLOGUE_INDEX
  <2>3. Following(t, Run(q)) = IF j < n THEN <<Run(Append(p, j + 1))>> ELSE <<Mark(p)>>
    BY <1>1, <1>4, <1>11 DEF Following, AfterItem
  <2>4. ExpectedOf(t, Following(t, Run(q))) =
          IF j < n THEN Expected(t, Run(Append(p, j + 1))) ELSE Expected(t, Mark(p))
    BY <2>3 DEF ExpectedOf
  <2>5. behavior(t, q) = "Loop" <=> Repeats(t, p)
    BY <1>3, <2>1 DEF behavior, Repeats
  <2>6. j < n => j + 1 \in DOMAIN t[p].steps
    BY <1>2, <2>1
  <2> QED
    BY <1>7, <1>8, <2>2, <2>4, <2>5, <2>6
<1> QED
  BY <1>9, <1>10, <1>11

HeadOf(k) == IF k = << >> THEN << >> ELSE <<k[1]>>

\* A part of the stack from below some work on.
LEMMA ChainedRest ==
  ASSUME NEW t, NEW k, Chained(t, k), NEW m \in 1..Len(k)
  PROVE  /\ Chained(t, SubSeq(k, m + 1, Len(k)))
         /\ HeadOf(SubSeq(k, m + 1, Len(k))) = Following(t, k[m])
<1> DEFINE n == Len(k)
           r == SubSeq(k, m + 1, n)
<1>1. k \in Seq(Work(t)) /\ n \in Nat /\ m \in Nat /\ m <= n /\ 1 <= m
  BY DEF Chained
<1>2. \A i \in 1..n : k[i] \in Work(t)
  BY <1>1
<1>3. /\ r \in Seq(Work(t)) /\ Len(r) = n - m
      /\ \A i \in 1..(n - m) : r[i] = k[m + i]
  <2>1. \A i \in (m + 1)..n : k[i] \in Work(t)
    BY <1>1, <1>2
  <2> QED
    BY <1>1, <2>1
<1> HIDE DEF r
<1>4. \A i \in 1..n : Following(t, k[i]) = IF i < n THEN <<k[i + 1]>> ELSE << >>
  BY DEF Chained
<1> HIDE DEF n
<1>5. ASSUME NEW i \in 1..Len(r)
      PROVE  Following(t, r[i]) = IF i < Len(r) THEN <<r[i + 1]>> ELSE << >>
  <2>1. i \in 1..(n - m) /\ m + i \in 1..n /\ (i < Len(r) <=> m + i < n)
    BY <1>1, <1>3
  <2>2. i < Len(r) => i + 1 \in 1..(n - m) /\ m + (i + 1) = (m + i) + 1
    BY <1>1, <1>3, <2>1
  <2>3. r[i] = k[m + i] /\ (i < Len(r) => r[i + 1] = k[(m + i) + 1])
    BY <1>3, <2>1, <2>2
  <2> QED
    BY <1>4, <2>1, <2>3
<1>6. HeadOf(r) = Following(t, k[m])
  <2>0. Following(t, k[m]) = IF m < n THEN <<k[m + 1]>> ELSE << >>
    BY <1>1, <1>4
  <2>1. CASE m < n
    <3>1. 1 \in 1..(n - m) /\ r # << >>
      BY <1>1, <1>3, <2>1
    <3>2. r[1] = k[m + 1]
      BY <1>3, <3>1
    <3> QED
      BY <2>0, <2>1, <3>1, <3>2 DEF HeadOf
  <2>2. CASE ~(m < n)
    <3>1. r = << >>
      BY <1>1, <1>3, <2>2
    <3> QED
      BY <2>0, <2>2, <3>1 DEF HeadOf
  <2> QED
    BY <2>1, <2>2
<1> QED
  BY <1>3, <1>5, <1>6 DEF Chained, r, n

\* The stack without what is on top of it.
LEMMA ChainedTail ==
  ASSUME NEW t, NEW k, Chained(t, k), k # << >>
  PROVE  /\ Chained(t, Tail(k))
         /\ HeadOf(Tail(k)) = Following(t, k[1])
         /\ Head(k) = k[1] /\ k[1] \in Work(t)
<1>1. k \in Seq(Work(t)) /\ Len(k) \in Nat /\ Len(k) # 0
  BY DEF Chained
<1>2. 1 \in 1..Len(k) /\ Head(k) = k[1] /\ k[1] \in Work(t)
  BY <1>1
<1>3. Tail(k) = SubSeq(k, 1 + 1, Len(k))
  BY <1>1
<1> QED
  BY <1>2, <1>3, ChainedRest

\* Work on top of a stack that follows it.
LEMMA ChainedCons ==
  ASSUME NEW t, NEW k, Chained(t, k), NEW e \in Work(t), Following(t, e) = HeadOf(k)
  PROVE  Chained(t, <<e>> \o k) /\ <<e>> \o k # << >> /\ (<<e>> \o k)[1] = e
<1> DEFINE w == <<e>> \o k
<1>1. k \in Seq(Work(t)) /\ Len(k) \in Nat
  BY DEF Chained
<1>2. /\ w \in Seq(Work(t)) /\ Len(w) = Len(k) + 1 /\ w[1] = e /\ w # << >>
      /\ \A i \in 1..Len(k) : w[i + 1] = k[i]
  BY <1>1
<1> HIDE DEF w
<1>3. ASSUME NEW i \in 1..Len(w)
      PROVE  Following(t, w[i]) = IF i < Len(w) THEN <<w[i + 1]>> ELSE << >>
  <2>1. CASE i = 1
    <3>1. CASE k = << >>
      BY <1>2, <2>1, <3>1 DEF HeadOf
    <3>2. CASE k # << >>
      <4>1. 1 \in 1..Len(k) /\ 1 < Len(w) /\ w[1 + 1] = k[1]
        BY <1>1, <1>2, <3>2
      <4> QED
        BY <1>2, <2>1, <3>2, <4>1 DEF HeadOf
    <3> QED
      BY <3>1, <3>2
  <2>2. CASE i # 1
    <3> DEFINE j == i - 1
    <3>1. j \in 1..Len(k) /\ i = j + 1 /\ (i < Len(w) <=> j < Len(k))
      BY <1>1, <1>2, <2>2
    <3>2. j < Len(k) => j + 1 \in 1..Len(k)
      BY <1>1, <3>1
    <3> HIDE DEF j
    <3>3. w[i] = k[j] /\ (j < Len(k) => w[i + 1] = k[j + 1])
      BY <1>2, <3>1, <3>2
    <3> QED
      BY <3>1, <3>3 DEF Chained
  <2> QED
    BY <2>1, <2>2
<1> QED
  BY <1>2, <1>3 DEF Chained, w

\* What follows an item of a pipeline is the next item, or the end of the pipeline.
LEMMA FollowingItem ==
  ASSUME NEW t, WellFormed(t), NEW p \in DOMAIN t, NEW i \in DOMAIN t[p].steps
  PROVE  /\ Following(t, Run(Append(p, i))) =
              IF i < Len(t[p].steps) THEN <<Run(Append(p, i + 1))>> ELSE <<Mark(p)>>
         /\ Run(Append(p, i)) \in Work(t)
<1> DEFINE q == Append(p, i)
<1>1. /\ p \in Seq(Nat) /\ i \in Nat /\ DOMAIN t[p].steps = 1..Len(t[p].steps)
      /\ Len(t[p].steps) \in Nat /\ Len(t[p].steps) < EPILOGUE_INDEX
  BY NestedPath
<1>2. scope_of(q) = p /\ leaf(q) = i /\ q # << >>
  BY <1>1, AppendPath
<1>3. i # PROLOGUE_INDEX /\ i # EPILOGUE_INDEX
  BY <1>1 DEF PROLOGUE_INDEX, EPILOGUE_INDEX
<1>4. q \in StepPaths(t) \cup DOMAIN t
  BY EnterIs
<1> HIDE DEF q
<1>5. Following(t, Run(q)) = AfterItem(t, q)
  BY <1>2, <1>3 DEF Following, Run, is_epilogue, is_prologue
<1>6. Run(q) \in Work(t)
  BY <1>4 DEF Work
<1>7. AfterItem(t, q) = IF i < Len(t[p].steps) THEN <<Run(Append(p, i + 1))>> ELSE <<Mark(p)>>
  BY <1>2 DEF AfterItem
<1> QED
  BY <1>5, <1>6, <1>7 DEF q

\* The items of a pipeline and its mark, on top of what follows the pipeline.
LEMMA ChainedItems ==
  ASSUME NEW t, WellFormed(t), NEW p \in DOMAIN t, NEW k, Chained(t, k),
         HeadOf(k) = AfterItem(t, p)
  PROVE  LET w == (Items(t, p) \o <<Mark(p)>>) \o k
         IN /\ Chained(t, w)
            /\ w # << >>
            /\ w[1] = IF t[p].steps = << >> THEN Mark(p) ELSE Run(Append(p, 1))
<1> DEFINE n == Len(t[p].steps)
           its == Items(t, p)
           w == (its \o <<Mark(p)>>) \o k
           m == Len(k)
<1>1. n \in Nat /\ DOMAIN t[p].steps = 1..n /\ (t[p].steps = << >> <=> n = 0)
  BY NestedPath
<1>2. k \in Seq(Work(t)) /\ m \in Nat
  BY DEF Chained
<1>3. \A i \in 1..n : Run(Append(p, i)) \in Work(t)
  BY <1>1, FollowingItem
<1>4. its \in Seq(Work(t)) /\ Len(its) = n /\ \A i \in 1..n : its[i] = Run(Append(p, i))
  <2>1. its = [i \in 1..n |-> Run(Append(p, i))]
    BY <1>1 DEF Items
  <2>2. its \in [1..n -> Work(t)]
    BY <1>3, <2>1
  <2> QED
    BY <1>1, <2>1, <2>2
<1>5. Mark(p) \in Work(t) /\ Following(t, Mark(p)) = AfterItem(t, p)
  BY DEF Work, Following, Mark
<1> HIDE DEF its, n
<1> DEFINE mark == Mark(p)
<1> HIDE DEF mark
<1>6. /\ w \in Seq(Work(t)) /\ Len(w) = n + 1 + m
      /\ \A i \in 1..n : w[i] = Run(Append(p, i))
      /\ w[n + 1] = Mark(p)
      /\ \A i \in 1..m : w[n + 1 + i] = k[i]
  <2> DEFINE v == its \o <<mark>>
  <2>1. /\ v \in Seq(Work(t)) /\ Len(v) = n + 1
        /\ \A i \in 1..n : v[i] = its[i]
        /\ v[n + 1] = mark
    BY <1>1, <1>4, <1>5 DEF mark
  <2>2. w = v \o k
    BY DEF mark
  <2> HIDE DEF v, w, m
  <2>3. /\ w \in Seq(Work(t)) /\ Len(w) = n + 1 + m
        /\ \A i \in 1..(n + 1) : w[i] = v[i]
        /\ \A i \in 1..m : w[n + 1 + i] = k[i]
    <3>1. /\ v \o k \in Seq(Work(t)) /\ Len(v \o k) = Len(v) + Len(k)
          /\ \A i \in 1..(Len(v) + Len(k)) :
               (v \o k)[i] = IF i <= Len(v) THEN v[i] ELSE k[i - Len(v)]
      BY <1>2, <2>1, ConcatProperties
    <3>2. /\ w \in Seq(Work(t)) /\ Len(w) = (n + 1) + m
          /\ \A i \in 1..((n + 1) + m) : w[i] = IF i <= n + 1 THEN v[i] ELSE k[i - (n + 1)]
      BY <2>1, <2>2, <3>1 DEF m
    <3>3. m \in Nat /\ n \in Nat
      BY <1>1, <1>2 DEF m
    <3>4. \A i \in 1..(n + 1) : i \in 1..((n + 1) + m) /\ i <= n + 1
      BY <3>3
    <3>5. \A i \in 1..m : /\ n + 1 + i \in 1..((n + 1) + m) /\ ~(n + 1 + i <= n + 1)
                          /\ (n + 1 + i) - (n + 1) = i
      BY <3>3
    <3> QED
      BY <3>2, <3>4, <3>5
  <2>4. \A i \in 1..n : i \in 1..(n + 1)
    BY <1>1
  <2>5. n + 1 \in 1..(n + 1)
    BY <1>1
  <2> QED
    BY <1>4, <2>1, <2>3, <2>4, <2>5 DEF mark
<1> HIDE DEF w, m
<1>7. ASSUME NEW i \in 1..Len(w)
      PROVE  Following(t, w[i]) = IF i < Len(w) THEN <<w[i + 1]>> ELSE << >>
  <2>1. CASE i < n
    <3>1. i \in 1..n /\ i + 1 \in 1..n /\ i < Len(w) /\ i \in DOMAIN t[p].steps
      BY <1>1, <1>2, <1>6, <2>1 DEF m
    <3>2. w[i] = Run(Append(p, i)) /\ w[i + 1] = Run(Append(p, i + 1))
      BY <1>6, <3>1
    <3>3. Following(t, Run(Append(p, i))) = <<Run(Append(p, i + 1))>>
      BY <2>1, <3>1, FollowingItem DEF n
    <3> QED
      BY <3>1, <3>2, <3>3
  <2>2. CASE i = n
    <3>1. i \in 1..n /\ i < Len(w) /\ i \in DOMAIN t[p].steps /\ ~(i < n)
      BY <1>1, <1>2, <1>6, <2>2 DEF m
    <3>2. w[i] = Run(Append(p, i)) /\ w[i + 1] = Mark(p)
      BY <1>6, <2>2, <3>1
    <3>3. Following(t, Run(Append(p, i))) = <<Mark(p)>>
      BY <3>1, FollowingItem DEF n
    <3> QED
      BY <3>1, <3>2, <3>3
  <2>3. CASE i = n + 1
    <3>1. w[i] = Mark(p) /\ Following(t, w[i]) = HeadOf(k)
      BY <1>5, <1>6, <2>3
    <3>2. CASE k = << >>
      <4>1. m = 0
        BY <3>2 DEF m
      <4>2. ~(i < Len(w))
        BY <1>1, <1>6, <2>3, <4>1
      <4> QED
        BY <3>1, <3>2, <4>2 DEF HeadOf
    <3>3. CASE k # << >>
      <4>1. m \in Nat /\ m # 0
        BY <1>2, <3>3 DEF m
      <4>2. i < Len(w) /\ 1 \in 1..m
        BY <1>1, <1>6, <2>3, <4>1
      <4>3. w[i + 1] = k[1]
        BY <1>6, <2>3, <4>2
      <4> QED
        BY <3>1, <3>3, <4>2, <4>3 DEF HeadOf
    <3> QED
      BY <3>2, <3>3
  <2>4. CASE i > n + 1
    <3> DEFINE j == i - (n + 1)
    <3>1. j \in 1..m /\ i = n + 1 + j /\ (i < Len(w) <=> j < m) /\ j \in Nat
      BY <1>1, <1>2, <1>6, <2>4 DEF m
    <3>2. j < m => j + 1 \in 1..m /\ i + 1 = n + 1 + (j + 1)
      BY <1>1, <1>2, <3>1 DEF m
    <3> HIDE DEF j
    <3>3. w[i] = k[j] /\ (j < m => w[i + 1] = k[j + 1])
      BY <1>6, <3>1, <3>2
    <3>4. Following(t, k[j]) = IF j < m THEN <<k[j + 1]>> ELSE << >>
      BY <3>1 DEF Chained, m
    <3> QED
      BY <3>1, <3>3, <3>4
  <2> QED
    BY <1>1, <2>1, <2>2, <2>3, <2>4
<1>8. w # << >> /\ w[1] = IF t[p].steps = << >> THEN Mark(p) ELSE Run(Append(p, 1))
  <2>1. Len(w) # 0
    BY <1>1, <1>2, <1>6 DEF m
  <2>2. CASE n = 0
    BY <1>1, <1>6, <2>1, <2>2
  <2>3. CASE n # 0
    <3>1. 1 \in 1..n
      BY <1>1, <2>3
    <3> QED
      BY <1>1, <1>6, <2>1, <2>3, <3>1
  <2> QED
    BY <2>2, <2>3
<1>9. Chained(t, w)
  BY <1>6, <1>7 DEF Chained
<1> QED
  BY <1>8, <1>9 DEF w, its

\* From an item of a pipeline the stack leads to the mark of the pipeline.
LEMMA MarkBelowItem ==
  ASSUME NEW t, WellFormed(t), NEW k, Chained(t, k), NEW p \in DOMAIN t,
         NEW b \in 1..Len(k), NEW j \in DOMAIN t[p].steps, k[b] = Run(Append(p, j))
  PROVE  \E i \in 1..Len(k) : k[i] = Mark(p)
<1> DEFINE n == Len(t[p].steps)
           Left(d) == \E c \in 1..Len(k), i \in 1..n : d = n - i /\ k[c] = Run(Append(p, i))
           T == {d \in Nat : Left(d)}
<1>1. n \in Nat /\ DOMAIN t[p].steps = 1..n /\ Len(k) \in Nat
  BY NestedPath DEF Chained
<1>2. T \in SUBSET Nat /\ T # {}
  <2>1. n - j \in Nat
    BY <1>1
  <2>2. Left(n - j)
    BY <1>1
  <2> QED
    BY <2>1, <2>2
<1> HIDE DEF n
<1>3. PICK d \in T : \A y \in T : d <= y
  BY <1>2, LeastNat
<1>4. PICK c \in 1..Len(k), i \in 1..n : d = n - i /\ k[c] = Run(Append(p, i))
  BY <1>3
<1>5. /\ Following(t, k[c]) = IF i < n THEN <<Run(Append(p, i + 1))>> ELSE <<Mark(p)>>
  BY <1>1, <1>4, FollowingItem DEF n
<1>6. Following(t, k[c]) = IF c < Len(k) THEN <<k[c + 1]>> ELSE << >>
  BY DEF Chained
<1>7. c < Len(k) /\ c + 1 \in 1..Len(k)
  <2>1. Following(t, k[c]) # << >>
    BY <1>5
  <2> QED
    BY <1>1, <1>6, <2>1
<1>8. CASE i < n
  <2>1. k[c + 1] = Run(Append(p, i + 1)) /\ i + 1 \in 1..n
    BY <1>1, <1>5, <1>6, <1>7, <1>8
  <2>2. n - (i + 1) \in Nat /\ n - (i + 1) < d
    BY <1>1, <1>4, <1>8
  <2>3. Left(n - (i + 1))
    BY <1>7, <2>1
  <2>4. n - (i + 1) \in T
    BY <2>2, <2>3
  <2>5. d \in Nat
    BY <1>3
  <2>6. d <= n - (i + 1)
    BY <1>3, <2>4
  <2> HIDE DEF T, Left
  <2>7. FALSE
    BY <2>2, <2>5, <2>6
  <2> QED
    BY <2>7
<1>9. CASE ~(i < n)
  <2>1. <<k[c + 1]>> = <<Mark(p)>>
    BY <1>5, <1>6, <1>7, <1>9
  <2>2. k[c + 1] = Mark(p)
    BY <2>1
  <2> QED
    BY <1>7, <2>2
<1> QED
  BY <1>8, <1>9

\* How deep the pipeline is whose work this is; an epilogue is work of the pipeline around.
Level(t, e) ==
  IF e.mark THEN Len(e.path)
  ELSE IF e.path \notin DOMAIN t /\ is_epilogue(e.path) THEN Len(e.path) - 2
  ELSE Len(e.path) - 1

\* The level of an item.
LEMMA LevelOfItem ==
  ASSUME NEW t, WellFormed(t), NEW p \in DOMAIN t, NEW i \in DOMAIN t[p].steps
  PROVE  Level(t, Run(Append(p, i))) = Len(p)
<1>1. /\ p \in Seq(Nat) /\ i \in Nat /\ DOMAIN t[p].steps = 1..Len(t[p].steps)
      /\ Len(t[p].steps) \in Nat /\ Len(t[p].steps) < EPILOGUE_INDEX
  BY NestedPath
<1>2. leaf(Append(p, i)) = i /\ Len(Append(p, i)) = Len(p) + 1 /\ Len(p) \in Nat
  BY <1>1, AppendPath
<1>3. i # EPILOGUE_INDEX
  BY <1>1 DEF EPILOGUE_INDEX
<1> QED
  BY <1>2, <1>3 DEF Level, Run, is_epilogue

\* What follows an item is no deeper than the item.
LEMMA LevelAfter ==
  ASSUME NEW t, WellFormed(t), NEW q \in Seq(Nat), q # << >>, scope_of(q) \in DOMAIN t,
         leaf(q) \in DOMAIN t[scope_of(q)].steps, NEW x, AfterItem(t, q) = <<x>>
  PROVE  Level(t, x) = Len(q) - 1
<1> DEFINE p == scope_of(q)
           j == leaf(q)
<1>1. Len(p) = Len(q) - 1
  BY PathSplit
<1>2. /\ DOMAIN t[p].steps = 1..Len(t[p].steps) /\ Len(t[p].steps) \in Nat
  BY NestedPath
<1>3. CASE j < Len(t[p].steps)
  <2>1. x = Run(Append(p, j + 1))
    BY <1>3 DEF AfterItem
  <2>2. j + 1 \in DOMAIN t[p].steps
    BY <1>2, <1>3
  <2> QED
    BY <1>1, <2>1, <2>2, LevelOfItem
<1>4. CASE ~(j < Len(t[p].steps))
  <2>1. x = Mark(p)
    BY <1>4 DEF AfterItem
  <2> QED
    BY <1>1, <2>1 DEF Level, Mark
<1> QED
  BY <1>3, <1>4

\* Work is a step, a pipeline, or the mark of a pipeline.
LEMMA WorkIs ==
  ASSUME NEW t, NEW e \in Work(t)
  PROVE  /\ e.mark => e.path \in DOMAIN t /\ e = Mark(e.path)
         /\ ~e.mark => e.path \in StepPaths(t) \cup DOMAIN t /\ e = Run(e.path)
         /\ e.mark \in BOOLEAN
<1>1. CASE e \in {Run(q) : q \in StepPaths(t) \cup DOMAIN t}
  <2>1. PICK q \in StepPaths(t) \cup DOMAIN t : e = Run(q)
    BY <1>1
  <2>2. e.mark = FALSE /\ e.path = q
    BY <2>1 DEF Run
  <2> QED
    BY <2>1, <2>2
<1>2. CASE e \in {Mark(q) : q \in DOMAIN t}
  <2>1. PICK q \in DOMAIN t : e = Mark(q)
    BY <1>2
  <2>2. e.mark = TRUE /\ e.path = q
    BY <2>1 DEF Mark
  <2> QED
    BY <2>1, <2>2
<1> QED
  BY <1>1, <1>2 DEF Work

\* The stack gets no deeper towards its end.
LEMMA LevelsFall ==
  ASSUME NEW t, WellFormed(t), NEW e \in Work(t), NEW x, Following(t, e) = <<x>>
  PROVE  /\ Level(t, e) \in Int
         /\ Level(t, x) \in Int
         /\ Level(t, x) <= Level(t, e)
<1> DEFINE q == e.path
<1>1. /\ e.mark => q \in DOMAIN t
      /\ ~e.mark => q \in StepPaths(t) \cup DOMAIN t
      /\ e.mark \in BOOLEAN
  BY WorkIs
<1>2. q \in Seq(Nat) /\ Len(q) \in Nat
  BY <1>1, NestedPath, StepIs
<1>3. Level(t, e) \in Int
  BY <1>2 DEF Level
<1>4. CASE q \in DOMAIN t
  <2>1. AfterItem(t, q) = <<x>>
    BY <1>4 DEF Following
  <2>2. q # << >>
    BY <2>1 DEF AfterItem
  <2>3. Level(t, x) = Len(q) - 1
    BY <1>2, <1>4, <2>1, <2>2, NestedPath, LevelAfter
  <2>4. Level(t, e) >= Len(q) - 1
    BY <1>2, <1>4 DEF Level
  <2> QED
    BY <1>2, <1>3, <2>3, <2>4
<1>5. CASE q \notin DOMAIN t
  <2> DEFINE p == scope_of(q)
  <2>1. ~e.mark /\ q \in StepPaths(t)
    BY <1>1, <1>5
  <2>2. /\ p \in DOMAIN t /\ q # << >> /\ leaf(q) \in Nat /\ IsStep(t, p, leaf(q))
    BY <2>1, StepIs
  <2>3. Len(p) = Len(q) - 1 /\ Len(p) \in Nat
    <3>1. Len(p) = Len(q) - 1 /\ Len(q) # 0
      BY <1>2, <2>2, PathSplit
    <3> QED
      BY <1>2, <3>1
  <2>4. CASE is_epilogue(q)
    <3>1. AfterItem(t, p) = <<x>>
      BY <1>5, <2>1, <2>4 DEF Following
    <3>2. p # << >>
      BY <3>1 DEF AfterItem
    <3>3. p \in Seq(Nat) /\ scope_of(p) \in DOMAIN t /\ leaf(p) \in DOMAIN t[scope_of(p)].steps
      BY <2>2, <3>2, NestedPath
    <3> HIDE DEF p
    <3>4. Level(t, x) = Len(p) - 1
      BY <3>1, <3>2, <3>3, LevelAfter
    <3>5. Level(t, e) = Len(q) - 2
      BY <1>5, <2>1, <2>4 DEF Level
    <3> QED
      BY <1>2, <2>3, <3>4, <3>5
  <2>5. CASE ~is_epilogue(q) /\ is_prologue(q)
    <3>1. Level(t, e) = Len(q) - 1
      BY <2>1, <2>5 DEF Level
    <3>2. CASE t[p].steps = << >>
      <4>1. x = Mark(p)
        BY <1>5, <2>1, <2>5, <3>2 DEF Following
      <4> QED
        BY <2>3, <3>1, <4>1 DEF Level, Mark
    <3>3. CASE t[p].steps # << >>
      <4>1. x = Run(Append(p, 1))
        BY <1>5, <2>1, <2>5, <3>3 DEF Following, STEP0_INDEX, PROLOGUE_INDEX
      <4>2. 1 \in DOMAIN t[p].steps
        BY <2>2, <3>3, NestedPath
      <4>3. Level(t, x) = Len(p)
        BY <2>2, <4>1, <4>2, LevelOfItem
      <4> QED
        BY <1>2, <2>3, <3>1, <4>3
    <3> QED
      BY <3>2, <3>3
  <2>6. CASE ~is_epilogue(q) /\ ~is_prologue(q)
    <3>1. Level(t, e) = Len(q) - 1
      BY <2>1, <2>6 DEF Level
    <3>2. leaf(q) \in DOMAIN t[p].steps
      BY <2>2, <2>6 DEF IsStep, is_epilogue, is_prologue
    <3>3. AfterItem(t, q) = <<x>>
      BY <1>5, <2>1, <2>6 DEF Following
    <3>4. Level(t, x) = Len(q) - 1
      BY <1>2, <2>2, <3>2, <3>3, LevelAfter
    <3> QED
      BY <1>2, <3>1, <3>4
  <2> QED
    BY <2>4, <2>5, <2>6
<1> QED
  BY <1>4, <1>5

\* Below an epilogue there is no mark of its pipeline.
LEMMA NoMarkBelow ==
  ASSUME NEW t, WellFormed(t), NEW k, Chained(t, k), k # << >>,
         NEW q \in StepPaths(t), is_epilogue(q), k[1] = Run(q)
  PROVE  \A i \in 1..Len(k) : k[i] # Mark(scope_of(q))
<1> DEFINE top == Level(t, k[1])
           T == {i \in 1..Len(k) : ~(Level(t, k[i]) <= top)}
<1>1. k \in Seq(Work(t)) /\ Len(k) \in Nat /\ Len(k) # 0
  BY DEF Chained
<1>2. q \in Seq(Nat) /\ q # << >> /\ q \notin DOMAIN t
  BY StepIs
<1>3. Len(scope_of(q)) = Len(q) - 1 /\ Len(q) \in Nat
  BY <1>2, PathSplit
<1>4. top = Len(q) - 2
  BY <1>2 DEF Level, Run
<1>5. T = {}
  <2> SUFFICES ASSUME T # {} PROVE FALSE
    OBVIOUS
  <2>1. T \in SUBSET Nat
    BY <1>1
  <2>2. PICK i \in T : \A y \in T : i <= y
    BY <2>1, LeastNat
  <2>3. i # 1
    BY <1>3, <1>4, <2>2
  <2>4. i - 1 \in 1..Len(k) /\ i - 1 < Len(k) /\ (i - 1) + 1 = i /\ ~(i <= i - 1)
    BY <1>1, <2>2, <2>3
  <2> DEFINE b == i - 1
  <2>5. Level(t, k[b]) <= top
    BY <2>2, <2>4
  <2>6. Following(t, k[b]) = <<k[b + 1]>>
    BY <2>4 DEF Chained
  <2>7. k[b] \in Work(t) /\ b + 1 = i
    BY <1>1, <2>4
  <2> HIDE DEF b, T
  <2>8. /\ Level(t, k[b]) \in Int /\ Level(t, k[i]) \in Int /\ Level(t, k[i]) <= Level(t, k[b])
    BY <2>6, <2>7, LevelsFall
  <2>9. Level(t, k[i]) <= top
    BY <1>3, <1>4, <2>5, <2>8
  <2> QED
    BY <2>2, <2>9 DEF T
<1>6. Level(t, Mark(scope_of(q))) = Len(q) - 1
  BY <1>3 DEF Level, Mark
<1>7. ~(Len(q) - 1 <= Len(q) - 2)
  BY <1>3
<1> QED
  BY <1>4, <1>5, <1>6, <1>7

\* At the end of a pipeline comes its epilogue, and then what follows it.
LEMMA EpilogueNext ==
  ASSUME NEW t, WellFormed(t), NEW p \in DOMAIN t, NEW r, Chained(t, r),
         HeadOf(r) = AfterItem(t, p), NEW q, scope_of(q) = p
  PROVE  /\ Chained(t, RunEpilogue(t, p) \o r)
         /\ ExpectedOf(t, RunEpilogue(t, p) \o r) = after_loop(t, q)
<1> DEFINE z == Append(p, EPILOGUE_INDEX)
<1>1. p \in Seq(Nat) /\ EPILOGUE_INDEX \in Nat
  BY NestedPath DEF EPILOGUE_INDEX
<1>2. scope_of(z) = p /\ leaf(z) = EPILOGUE_INDEX
  BY <1>1, AppendPath
<1>3. CASE t[p].epilogue
  <2>1. IsStep(t, p, EPILOGUE_INDEX)
    BY <1>3 DEF IsStep
  <2>2. z \in StepPaths(t) /\ z \notin DOMAIN t
    BY <1>1, <2>1, StepAt, StepIs
  <2>3. RunEpilogue(t, p) = <<Run(z)>>
    BY <1>3 DEF RunEpilogue, RunIf
  <2>4. after_loop(t, q) = z
    BY <1>3 DEF after_loop, replace_leaf
  <2> HIDE DEF z
  <2>5. Run(z) \in Work(t) /\ Following(t, Run(z)) = AfterItem(t, p)
    BY <1>2, <2>2 DEF Work, Following, Run, is_epilogue
  <2>6. /\ Chained(t, <<Run(z)>> \o r)
        /\ <<Run(z)>> \o r # << >> /\ (<<Run(z)>> \o r)[1] = Run(z)
    BY <2>5, ChainedCons
  <2>7. Expected(t, Run(z)) = z
    BY <2>2 DEF Expected, Run
  <2> QED
    BY <2>3, <2>4, <2>6, <2>7 DEF ExpectedOf
<1>4. CASE ~t[p].epilogue
  <2>1. r \in Seq(Work(t))
    BY DEF Chained
  <2>2. RunEpilogue(t, p) \o r = r
    BY <1>4, <2>1 DEF RunEpilogue, RunIf
  <2>3. after_loop(t, q) = next_in_parent(t, q)
    BY <1>4 DEF after_loop
  <2>4. next_in_parent(t, q) = ExpectedOf(t, AfterItem(t, p))
    BY AfterAgrees
  <2>5. ExpectedOf(t, HeadOf(r)) = ExpectedOf(t, r)
    BY DEF ExpectedOf, HeadOf
  <2> QED
    BY <2>2, <2>3, <2>4, <2>5
<1> QED
  BY <1>3, <1>4

\* What the reference unfolds, the navigator has already gone into.
LEMMA UnfoldAgrees ==
  ASSUME NEW t \in Programs, NEW k, Chained(t, k), k # << >>, ~IsSettled(t, k)
  PROVE  /\ Chained(t, Unfolded(t, k))
         /\ ExpectedOf(t, Unfolded(t, k)) = ExpectedOf(t, k)
<1> DEFINE e == k[1]
           p == e.path
           r == Tail(k)
           its == Items(t, p) \o <<Mark(p)>>
           w == its \o r
<1>1. WellFormed(t) /\ \A s \in DOMAIN t \ {<< >>} : ~is_empty(t[s])
  BY NestedHaveSteps
<1>2. /\ Chained(t, r) /\ HeadOf(r) = Following(t, e) /\ Head(k) = e /\ e \in Work(t)
  BY ChainedTail
<1>3. p \in DOMAIN t /\ Following(t, e) = AfterItem(t, p)
  <2>1. e.mark \/ p \in DOMAIN t
    BY <1>2 DEF IsSettled
  <2>2. p \in DOMAIN t
    BY <1>2, <2>1, WorkIs
  <2> QED
    BY <2>2 DEF Following
<1>4. /\ Chained(t, w) /\ w # << >>
      /\ w[1] = IF t[p].steps = << >> THEN Mark(p) ELSE Run(Append(p, 1))
  BY <1>1, <1>2, <1>3, ChainedItems
<1>5. /\ p \in Seq(Nat) /\ DOMAIN t[p].steps = 1..Len(t[p].steps)
      /\ t[p].steps = << >> <=> Len(t[p].steps) = 0
      /\ Len(t[p].steps) \in Nat
  BY <1>1, <1>3, NestedPath
<1>6. scope_of(Append(p, 1)) = p /\ Append(p, 1) \in Seq(Nat)
  BY <1>5, AppendPath, 1 \in Nat
<1>7. t[p].steps # << >> => /\ 1 \in DOMAIN t[p].steps
                            /\ enter(t, Append(p, 1)) = Expected(t, Run(Append(p, 1)))
  <2> SUFFICES ASSUME t[p].steps # << >>
               PROVE  /\ 1 \in DOMAIN t[p].steps
                      /\ enter(t, Append(p, 1)) = Expected(t, Run(Append(p, 1)))
    OBVIOUS
  <2>1. 1 \in DOMAIN t[p].steps
    BY <1>5
  <2> QED
    BY <1>1, <1>3, <2>1, EnterIs DEF Expected, Run
<1>8. ExpectedOf(t, k) = Expected(t, e)
  BY DEF ExpectedOf
<1>9. CASE e.mark /\ Repeats(t, p)
  <2>1. Unfolded(t, k) = w
    BY <1>2, <1>9 DEF Unfolded
  <2>2. t[p].steps # << >>
    BY <1>9 DEF Repeats
  <2>3. Expected(t, e) = enter(t, Append(p, 1))
    BY <1>9 DEF Expected, STEP0_INDEX, PROLOGUE_INDEX
  <2> HIDE DEF w, e
  <2>4. ExpectedOf(t, w) = Expected(t, Run(Append(p, 1)))
    BY <1>4, <2>2 DEF ExpectedOf
  <2> QED
    BY <1>4, <1>7, <1>8, <2>1, <2>2, <2>3, <2>4
<1>10. CASE e.mark /\ ~Repeats(t, p)
  <2>1. Unfolded(t, k) = RunEpilogue(t, p) \o r
    BY <1>2, <1>10 DEF Unfolded
  <2>2. Expected(t, e) = after_loop(t, Append(p, 1))
    BY <1>10 DEF Expected, STEP0_INDEX, PROLOGUE_INDEX
  <2> HIDE DEF r, e, p
  <2> QED
    BY <1>1, <1>2, <1>3, <1>6, <1>8, <2>1, <2>2, EpilogueNext
<1>11. CASE ~e.mark
  <2> DEFINE z == Append(p, PROLOGUE_INDEX)
  <2>1. Unfolded(t, k) = ((RunIf(t[p].prologue, z) \o Items(t, p)) \o <<Mark(p)>>) \o r
    BY <1>2, <1>11 DEF Unfolded
  <2>2. Expected(t, e) = FirstBody(t, entrypoint(t), p)
    <3>1. Expected(t, e) = entrypoint(t)[p]
      BY <1>3, <1>11 DEF Expected
    <3>2. entrypoint(t)[p] = FirstBody(t, entrypoint(t), p)
      BY <1>1, <1>3, EntrypointIs
    <3> QED
      BY <3>1, <3>2
  <2> DEFINE items == Items(t, p)
             mark == Mark(p)
  <2>3. items \in Seq(Work(t)) /\ mark \in Work(t) /\ r \in Seq(Work(t))
    <3>1. mark \in Work(t)
      BY <1>3 DEF Work
    <3>2. \A i \in DOMAIN t[p].steps : Run(Append(p, i)) \in Work(t)
      BY <1>1, <1>3, FollowingItem
    <3>3. items = [i \in 1..Len(t[p].steps) |-> Run(Append(p, i))]
      BY <1>5 DEF Items
    <3>4. items \in [1..Len(t[p].steps) -> Work(t)]
      BY <1>5, <3>2, <3>3
    <3>5. items \in Seq(Work(t))
      <4> HIDE DEF items
      <4> QED
        BY <1>5, <3>4
    <3> QED
      BY <1>2, <3>1, <3>5 DEF Chained
  <2>4. w = (items \o <<mark>>) \o r
    OBVIOUS
  <2>5. CASE t[p].prologue
    <3>1. 0 \in Nat /\ PROLOGUE_INDEX = 0
      BY DEF PROLOGUE_INDEX
    <3>2. z \in StepPaths(t) /\ z \notin DOMAIN t
      <4>1. IsStep(t, p, PROLOGUE_INDEX)
        BY <2>5 DEF IsStep
      <4> QED
        BY <1>1, <1>3, <3>1, <4>1, StepAt, StepIs
    <3>3. scope_of(z) = p /\ leaf(z) = 0
      BY <1>5, <3>1, AppendPath
    <3>4. FirstBody(t, entrypoint(t), p) = z
      BY <2>5 DEF FirstBody, is_empty
    <3> HIDE DEF z, items, mark, r, p, w
    <3>5. Run(z) \in Work(t)
      BY <3>2 DEF Work
    <3>6. Following(t, Run(z)) = HeadOf(w)
      <4>1. Following(t, Run(z)) =
              IF t[p].steps = << >> THEN <<Mark(p)>> ELSE <<Run(Append(p, 1))>>
        BY <3>2, <3>3 DEF Following, Run, is_epilogue, is_prologue, EPILOGUE_INDEX,
                          PROLOGUE_INDEX, STEP0_INDEX
      <4> QED
        BY <1>4, <4>1 DEF HeadOf
    <3>7. Unfolded(t, k) = <<Run(z)>> \o w
      <4> DEFINE one == <<Run(z)>>
                 two == <<mark>>
      <4>1. one \in Seq(Work(t)) /\ two \in Seq(Work(t))
        BY <2>3, <3>5
      <4>2. Unfolded(t, k) = ((one \o items) \o two) \o r
        BY <2>1, <2>5 DEF RunIf, items, mark
      <4>3. w = (items \o two) \o r
        BY <2>4
      <4> HIDE DEF one, two
      <4>4. (one \o items) \o two = one \o (items \o two)
        BY <2>3, <4>1, ConcatAssociative, SMTT(30)
      <4>5. items \o two \in Seq(Work(t))
        BY <2>3, <4>1, ConcatProperties
      <4>6. (one \o (items \o two)) \o r = one \o ((items \o two) \o r)
        BY <2>3, <4>1, <4>5, ConcatAssociative, SMTT(30)
      <4> QED
        BY <4>2, <4>3, <4>4, <4>6 DEF one
    <3>8. /\ Chained(t, <<Run(z)>> \o w)
          /\ <<Run(z)>> \o w # << >> /\ (<<Run(z)>> \o w)[1] = Run(z)
      BY <1>4, <3>5, <3>6, ChainedCons
    <3>9. Expected(t, Run(z)) = z
      BY <3>2 DEF Expected, Run
    <3> QED
      BY <1>8, <2>2, <3>4, <3>7, <3>8, <3>9 DEF ExpectedOf
  <2>6. CASE ~t[p].prologue
    <3>1. Unfolded(t, k) = w
      <4>1. RunIf(t[p].prologue, z) \o items = items
        BY <2>3, <2>6 DEF RunIf
      <4> QED
        BY <2>1, <2>4, <4>1
    <3> HIDE DEF items, mark, r, w
    <3>2. CASE t[p].steps # << >>
      <4>1. ExpectedOf(t, w) = Expected(t, Run(Append(p, 1)))
        BY <1>4, <3>2 DEF ExpectedOf
      <4>2. FirstBody(t, entrypoint(t), p) = Expected(t, Run(Append(p, 1)))
        BY <2>6, <3>2 DEF FirstBody, Expected, Run, is_empty, STEP0_INDEX, PROLOGUE_INDEX
      <4> QED
        BY <1>4, <1>8, <2>2, <3>1, <4>1, <4>2
    <3>3. CASE t[p].steps = << >>
      <4>1. ExpectedOf(t, w) = after_loop(t, Append(p, 1))
        <5>1. Expected(t, Mark(p)) = after_loop(t, Append(p, 1))
          BY <3>3 DEF Expected, Mark, Repeats, STEP0_INDEX, PROLOGUE_INDEX
        <5> QED
          BY <1>4, <3>3, <5>1 DEF ExpectedOf
      <4>2. CASE t[p].epilogue
        <5>1. after_loop(t, Append(p, 1)) = Append(p, EPILOGUE_INDEX)
          BY <1>6, <4>2 DEF after_loop, replace_leaf
        <5>2. FirstBody(t, entrypoint(t), p) = Append(p, EPILOGUE_INDEX)
          BY <2>6, <3>3, <4>2 DEF FirstBody, is_empty
        <5> QED
          BY <1>4, <1>8, <2>2, <3>1, <4>1, <5>1, <5>2
      <4>3. CASE ~t[p].epilogue
        <5>1. is_empty(t[p])
          BY <2>6, <3>3, <4>3 DEF is_empty
        <5>2. p = << >>
          BY <1>1, <1>3, <5>1
        <5>3. after_loop(t, Append(p, 1)) = ExpectedOf(t, AfterItem(t, p))
          BY <1>1, <1>3, <1>6, <4>3, AfterAgrees DEF after_loop
        <5>4. ExpectedOf(t, AfterItem(t, p)) = NoStep
          BY <5>2 DEF AfterItem, ExpectedOf
        <5>5. FirstBody(t, entrypoint(t), p) = NoStep
          BY <5>1 DEF FirstBody
        <5> QED
          BY <1>4, <1>8, <2>2, <3>1, <4>1, <5>3, <5>4, <5>5
      <4> QED
        BY <4>2, <4>3
    <3> QED
      BY <3>2, <3>3
  <2> QED
    BY <2>5, <2>6
<1> QED
  BY <1>9, <1>10, <1>11

\* Away from the epilogue a break leads to the mark of the pipeline the step is in.
LEMMA MarkAhead ==
  ASSUME NEW t, WellFormed(t), NEW k, Chained(t, k), k # << >>,
         NEW q \in StepPaths(t), ~is_epilogue(q), k[1] = Run(q)
  PROVE  \E i \in 1..Len(k) : k[i] = Mark(scope_of(q))
<1> DEFINE p == scope_of(q)
           j == leaf(q)
<1>1. p \in DOMAIN t /\ j \in Nat /\ IsStep(t, p, j) /\ q = Append(p, j) /\ q \notin DOMAIN t
  BY StepIs
<1>2. k \in Seq(Work(t)) /\ Len(k) \in Nat /\ Len(k) # 0 /\ 1 \in 1..Len(k)
  BY DEF Chained
<1>3. CASE ~is_prologue(q)
  <2>1. j \in DOMAIN t[p].steps
    BY <1>1, <1>3 DEF IsStep, is_epilogue, is_prologue
  <2>2. k[1] = Run(Append(p, j))
    BY <1>1
  <2> HIDE DEF p, j
  <2>3. \E i \in 1..Len(k) : k[i] = Mark(p)
    BY <1>1, <1>2, <2>1, <2>2, MarkBelowItem
  <2> QED
    BY <2>3 DEF p
<1>4. CASE is_prologue(q)
  <2>1. Following(t, k[1]) = IF t[p].steps = << >> THEN <<Mark(p)>> ELSE <<Run(Append(p, 1))>>
    BY <1>1, <1>4 DEF Following, Run, STEP0_INDEX, PROLOGUE_INDEX
  <2>2. Following(t, k[1]) = IF 1 < Len(k) THEN <<k[1 + 1]>> ELSE << >>
    BY <1>2 DEF Chained
  <2>3. Following(t, k[1]) # << >>
    BY <2>1
  <2>4. 1 < Len(k) /\ 2 \in 1..Len(k) /\ Following(t, k[1]) = <<k[2]>>
    BY <1>2, <2>2, <2>3
  <2>5. CASE t[p].steps = << >>
    <3>1. k[2] = Mark(p)
      BY <2>1, <2>4, <2>5
    <3> QED
      BY <2>4, <3>1
  <2>6. CASE t[p].steps # << >>
    <3>1. k[2] = Run(Append(p, 1))
      BY <2>1, <2>4, <2>6
    <3>2. 1 \in DOMAIN t[p].steps
      BY <1>1, <2>6, NestedPath
    <3> HIDE DEF p
    <3>3. \E i \in 1..Len(k) : k[i] = Mark(p)
      BY <1>1, <2>4, <3>1, <3>2, MarkBelowItem
    <3> QED
      BY <3>3 DEF p
  <2> QED
    BY <2>5, <2>6
<1> QED
  BY <1>3, <1>4

\* The navigator and the reference agree on what follows a step that returned Break.
LEMMA BreakAgrees ==
  ASSUME NEW t, WellFormed(t), NEW k, Chained(t, k), k # << >>,
         NEW q \in StepPaths(t), k[1] = Run(q)
  PROVE  /\ Chained(t, Unwind(t, k))
         /\ next_break(t, q) = ExpectedOf(t, Unwind(t, k))
<1> DEFINE p == scope_of(q)
           marks == {i \in DOMAIN k : k[i] = Mark(p)}
<1>1. p \in DOMAIN t /\ q \notin DOMAIN t
  BY StepIs
<1>2. k \in Seq(Work(t)) /\ Len(k) \in Nat /\ DOMAIN k = 1..Len(k)
  BY DEF Chained
<1>3. Chained(t, Tail(k)) /\ HeadOf(Tail(k)) = Following(t, Run(q)) /\ Head(k) = Run(q)
  BY ChainedTail
<1>4. Unwind(t, k) = IF marks = {} THEN Tail(k)
                     ELSE RunEpilogue(t, p) \o SubSeq(k, Min(marks) + 1, Len(k))
  <2>1. scope_of(Head(k).path) = p
    BY <1>3 DEF Run
  <2> HIDE DEF p
  <2> QED
    BY <2>1, Zenon DEF Unwind
<1>5. CASE is_epilogue(q)
  <2>1. marks = {}
    BY <1>2, <1>5, NoMarkBelow
  <2>2. Following(t, Run(q)) = AfterItem(t, p)
    BY <1>1, <1>5 DEF Following, Run
  <2>3. next_break(t, q) = ExpectedOf(t, AfterItem(t, p))
    BY <1>1, <1>5, AfterAgrees DEF next_break
  <2>4. ExpectedOf(t, HeadOf(Tail(k))) = ExpectedOf(t, Tail(k))
    BY DEF ExpectedOf, HeadOf
  <2> QED
    BY <1>3, <1>4, <2>1, <2>2, <2>3, <2>4
<1>6. CASE ~is_epilogue(q)
  <2>1. marks # {} /\ marks \in SUBSET Nat
    BY <1>2, <1>6, MarkAhead
  <2> DEFINE m == Min(marks)
  <2>2. m \in marks
    <3> HIDE DEF marks
    <3>1. \E x \in marks : \A y \in marks : x <= y
      BY <2>1, LeastNat
    <3> QED
      BY <3>1 DEF Min
  <2>3. m \in 1..Len(k) /\ k[m] = Mark(p)
    BY <1>2, <2>2
  <2> DEFINE r == SubSeq(k, m + 1, Len(k))
  <2>4. Unwind(t, k) = RunEpilogue(t, p) \o r
    BY <1>4, <2>1
  <2> HIDE DEF m, marks
  <2>5. Chained(t, r) /\ HeadOf(r) = Following(t, Mark(p))
    BY <2>3, ChainedRest
  <2>6. Following(t, Mark(p)) = AfterItem(t, p)
    BY DEF Following, Mark
  <2>7. next_break(t, q) = after_loop(t, q)
    BY <1>6 DEF next_break
  <2> HIDE DEF r
  <2> QED
    BY <1>1, <2>4, <2>5, <2>6, <2>7, EpilogueNext
<1> QED
  BY <1>5, <1>6

\* Between the steps of the reference: its stack is what is left of the pipeline, and the
\* navigator is where the top of it begins.
WalkInv ==
  /\ program \in Programs
  /\ Chained(program, cont)
  /\ at = ExpectedOf(program, cont)
  /\ at \in StepPaths(program) \cup {NoStep}

\* A settled stack has the step of the navigator on top.
LEMMA SettledAt ==
  ASSUME WalkInv, IsSettled(program, cont)
  PROVE  /\ at \in StepPaths(program)
         /\ cont[1] = Run(at)
         /\ Head(cont).path = at
         /\ at # NoStep
<1>1. WellFormed(program)
  BY NestedHaveSteps DEF WalkInv
<1>2. cont # << >> /\ ~Head(cont).mark /\ Head(cont).path \notin DOMAIN program
  BY DEF IsSettled
<1>3. Head(cont) = cont[1] /\ cont[1] \in Work(program)
  BY <1>2, ChainedTail DEF WalkInv
<1>4. cont[1].path \in StepPaths(program) /\ cont[1] = Run(cont[1].path)
  BY <1>2, <1>3, WorkIs
<1>5. at = cont[1].path
  BY <1>2, <1>3 DEF WalkInv, ExpectedOf, Expected
<1>6. at # NoStep
  BY <1>1, <1>4, <1>5, StepIs DEF NoStep
<1> QED
  BY <1>3, <1>4, <1>5, <1>6

\* The walk begins at the top of the pipeline.
LEMMA WalkBegins == WalkInit => WalkInv
<1> SUFFICES ASSUME WalkInit PROVE WalkInv
  OBVIOUS
<1> DEFINE t == program
           e == Run(<< >>)
<1>1. t \in Programs /\ WellFormed(t) /\ at = entrypoint(t)[<< >>] /\ cont = <<e>>
  BY NestedHaveSteps DEF WalkInit
<1>2. << >> \in DOMAIN t
  BY <1>1 DEF WellFormed
<1>3. e \in Work(t) /\ Following(t, e) = << >>
  BY <1>2 DEF Work, Following, AfterItem, Run
<1>4. Expected(t, e) = entrypoint(t)[<< >>]
  BY <1>2 DEF Expected, Run
<1> HIDE DEF e
<1>5. cont \in Seq(Work(t)) /\ Len(cont) = 1 /\ cont[1] = e /\ cont # << >>
  BY <1>1, <1>3
<1>6. Chained(t, cont)
  BY <1>3, <1>5 DEF Chained
<1>7. at \in StepPaths(t) \cup {NoStep}
  BY <1>1, NaviClosed
<1> QED
  BY <1>1, <1>4, <1>5, <1>6, <1>7 DEF WalkInv, ExpectedOf

\* Unfolding, going on and breaking keep the navigator and the reference together.
LEMMA WalkGoesOn == WalkInv /\ [WalkNext]_walkVars => WalkInv'
<1> SUFFICES ASSUME WalkInv, [WalkNext]_walkVars PROVE WalkInv'
  OBVIOUS
<1> USE DEF WalkInv
<1>1. WellFormed(program)
  BY NestedHaveSteps
<1>2. CASE Unfold
  <2>1. /\ Chained(program, Unfolded(program, cont))
        /\ ExpectedOf(program, Unfolded(program, cont)) = ExpectedOf(program, cont)
    BY <1>2, UnfoldAgrees DEF Unfold
  <2> QED
    BY <1>2, <2>1 DEF Unfold
<1>3. CASE WalkOk
  <2>1. /\ at \in StepPaths(program) /\ cont[1] = Run(at) /\ cont # << >>
    BY <1>3, SettledAt DEF WalkOk, IsSettled
  <2>2. Chained(program, Tail(cont)) /\ HeadOf(Tail(cont)) = Following(program, Run(at))
    BY <2>1, ChainedTail
  <2>3. next_ok(program, at) = ExpectedOf(program, Following(program, Run(at)))
    BY <1>1, <2>1, OkAgrees
  <2>4. ExpectedOf(program, HeadOf(Tail(cont))) = ExpectedOf(program, Tail(cont))
    BY DEF ExpectedOf, HeadOf
  <2>5. next_ok(program, at) \in StepPaths(program) \cup {NoStep}
    BY <1>1, <2>1, NextIn
  <2> QED
    BY <1>3, <2>2, <2>3, <2>4, <2>5 DEF WalkOk
<1>4. CASE WalkBreak
  <2>1. /\ at \in StepPaths(program) /\ cont[1] = Run(at) /\ cont # << >>
    BY <1>4, SettledAt DEF WalkBreak, IsSettled
  <2>2. /\ Chained(program, Unwind(program, cont))
        /\ next_break(program, at) = ExpectedOf(program, Unwind(program, cont))
    BY <1>1, <2>1, BreakAgrees
  <2>3. next_break(program, at) \in StepPaths(program) \cup {NoStep}
    BY <1>1, <2>1, NextIn
  <2> QED
    BY <1>4, <2>2, <2>3 DEF WalkBreak
<1>5. CASE UNCHANGED walkVars
  BY <1>5 DEF walkVars
<1> QED
  BY <1>2, <1>3, <1>4, <1>5 DEF WalkNext

\* Whatever the outcomes of the steps are, the work that is left in the structured reading of
\* the pipeline is in the order of its text, and the navigator is where it begins.
THEOREM WalkInvariance == WalkSpec => []WalkInv
<1> QED
  BY WalkBegins, WalkGoesOn, PTL DEF WalkSpec

\* For every well-formed pipeline without empty nested pipelines and every sequence of
\* outcomes, the path arithmetic of StepNavigator (next_ok, next_break, entrypoint) is at the
\* step that the structured reading of the pipeline runs next, and ends with it.
THEOREM NavigationCorrect == WalkSpec => []NavigatorFollowsReference
<1>1. WalkInv => NavigatorFollowsReference
  <2> SUFFICES ASSUME WalkInv PROVE NavigatorFollowsReference
    OBVIOUS
  <2>1. WellFormed(program) /\ \A p \in DOMAIN program \ {<< >>} : ~is_empty(program[p])
    BY NestedHaveSteps DEF WalkInv
  <2>2. cont = << >> => at = NoStep
    BY DEF WalkInv, ExpectedOf
  <2>3. IsSettled(program, cont) => at = Head(cont).path
    BY SettledAt
  <2>4. ASSUME cont # << >>, ~Head(cont).mark, Head(cont).path # << >>
        PROVE  at # NoStep /\ is_ancestor_of(Head(cont).path, at)
    <3> DEFINE p == Head(cont).path
    <3>1. Head(cont) = cont[1] /\ cont[1] \in Work(program)
      BY <2>4, ChainedTail DEF WalkInv
    <3>2. p \in StepPaths(program) \cup DOMAIN program
      BY <2>4, <3>1, WorkIs
    <3>3. at = IF p \in DOMAIN program THEN entrypoint(program)[p] ELSE p
      BY <2>4, <3>1 DEF WalkInv, ExpectedOf, Expected
    <3> HIDE DEF p
    <3>4. CASE p \in DOMAIN program
      <4>1. p \in Seq(Nat) /\ Len(p) # 0 /\ Len(p) \in Nat
        BY <2>1, <2>4, <3>4, NestedPath DEF p
      <4>2. ASSUME NEW q \in DOMAIN program, Len(q) >= Len(p) PROVE ~is_empty(program[q])
        <5>1. Len(<< >>) = 0
          OBVIOUS
        <5>2. q # << >>
          BY <4>1, <4>2, <5>1
        <5> QED
          BY <2>1, <5>2
      <4>3. at \in StepPaths(program) /\ is_ancestor_of(p, at)
        BY <2>1, <3>3, <3>4, <4>2, EntryIn
      <4> QED
        BY <2>1, <4>3, StepIs DEF NoStep, p
    <3>5. CASE p \notin DOMAIN program
      <4>1. p \in StepPaths(program) /\ at = p
        BY <3>2, <3>3, <3>5
      <4>2. p \in Seq(Nat) /\ p # << >>
        BY <2>1, <4>1, StepIs
      <4> QED
        BY <4>1, <4>2, AncestorOrder DEF NoStep, p
    <3> QED
      BY <3>4, <3>5
  <2> QED
    BY <2>2, <2>3, <2>4 DEF NavigatorFollowsReference
<1> QED
  BY <1>1, WalkInvariance, PTL

\* For every such pipeline, iter_steps calls the hooks of every step that navigation can
\* reach, each once and in the order of the pipeline text.
THEOREM HooksComplete == WalkSpec => []HooksCoverEveryReachableStep
<1>1. WalkInv => HooksCoverEveryReachableStep
  <2> SUFFICES ASSUME WalkInv PROVE HooksCoverEveryReachableStep
    OBVIOUS
  <2>1. WellFormed(program)
    BY NestedHaveSteps DEF WalkInv
  <2>2. Lists(program, iter_steps(program), StepPaths(program))
    BY <2>1, StepsList
  <2>3. at # NoStep => at \in StepPaths(program)
    BY DEF WalkInv
  <2> QED
    BY <2>2, <2>3 DEF HooksCoverEveryReachableStep, Lists
<1> QED
  BY <1>1, WalkInvariance, PTL
=============================================================================
