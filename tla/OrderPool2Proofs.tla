-------------------------- MODULE OrderPool2Proofs --------------------------
(***************************************************************************)
(* The two structures of orderpool2, for any orders and accounts: no order *)
(* waits in a SimTree for what has come, and the indexes of a prioritized  *)
(* pool agree with each other and with the payload.                        *)
(***************************************************************************)
EXTENDS SimTree, PrioritizedPool, FunctionTheorems, FiniteSetTheorems,
  SequenceTheorems, WellFoundedInduction, TLAPS

TypeOK ==
  /\ sims_that_update_one_nonce = [k \in AccountNonce |-> sims_that_update_one_nonce[k]]
  /\ pending_orders \in [Ids -> Nat]
  /\ pending_nonces \in [AccountNonce -> SUBSET Ids]

\* The nonces that an order waits for.
waiting(o) == {k \in AccountNonce : o \in pending_nonces[k]}

IndInv == TypeOK /\ WaitingOrdersAreWoken

\* There are finitely many nonces below the bound.
LEMMA FiniteNonces == IsFiniteSet(AccountNonce)
<1> DEFINE pairs == Accounts \X (0..MaxNonce)
           f == [p \in pairs |-> [account |-> p[1], nonce |-> p[2]]]
<1>1. IsFiniteSet(0..MaxNonce)
  BY SimConstants, FS_Interval
<1>2. IsFiniteSet(pairs)
  BY <1>1, SimConstants, FS_Product
<1>3. f \in [pairs -> AccountNonce]
  BY DEF AccountNonce
<1>4. ASSUME NEW k \in AccountNonce
      PROVE  \E p \in pairs : f[p] = k
  <2>1. <<k.account, k.nonce>> \in pairs
    BY DEF AccountNonce
  <2>2. f[<<k.account, k.nonce>>] = [account |-> k.account, nonce |-> k.nonce]
    BY <2>1
  <2>3. k = [account |-> k.account, nonce |-> k.nonce]
    BY DEF AccountNonce
  <2> QED
    BY <2>1, <2>2, <2>3
<1> HIDE DEF f, pairs
<1>5. f \in Surjection(pairs, AccountNonce)
  BY <1>3, <1>4, Fun_IsSurj
<1> QED
  BY <1>2, <1>5, FS_Surjection

\* An order is listed under finitely many of them.
LEMMA WaitingIsFinite ==
  ASSUME NEW o
  PROVE  IsFiniteSet(waiting(o)) /\ Cardinality(waiting(o)) \in Nat
BY FiniteNonces, FS_Subset, FS_CardinalityType DEF waiting

\* push_order counts the nonces under which it lists the order.
LEMMA NonceKeysOfOrders ==
  ASSUME NEW o \in Ids, NEW provided
  PROVE  PendingNonces(o, provided) \subseteq AccountNonce
BY SimConstants DEF PendingNonces, ahead, considered, account_nonce, AccountNonce, Ids

\* push_order of an order that has to wait.
LEMMA Pushed ==
  ASSUME IndInv, NEW o \in Ids, PushOrderPending(o)
  PROVE  IndInv'
<1>1. PICK wanted : /\ wanted = PendingNonces(o, sims_that_update_one_nonce)
                    /\ pending_nonces' = [k \in AccountNonce |->
                         IF k \in wanted THEN pending_nonces[k] \cup {o} ELSE pending_nonces[k]]
                    /\ pending_orders' = [pending_orders EXCEPT ![o] = Cardinality(wanted)]
  BY DEF PushOrderPending
<1>2. UNCHANGED sims_that_update_one_nonce /\ pending_orders[o] = 0
  BY DEF PushOrderPending
<1>3. wanted \subseteq AccountNonce /\ \A k \in wanted : sims_that_update_one_nonce[k] = NoSim
  <2>1. wanted \subseteq AccountNonce
    BY <1>1, NonceKeysOfOrders
  <2> QED
    BY <1>1, <2>1 DEF PendingNonces
<1>4. IsFiniteSet(wanted) /\ Cardinality(wanted) \in Nat
  BY <1>3, FiniteNonces, FS_Subset, FS_CardinalityType
<1>5. TypeOK'
  BY <1>1, <1>2, <1>4 DEF IndInv, TypeOK
<1>6. waiting(o) = {}
  <2>1. Cardinality(waiting(o)) = 0
    BY <1>2 DEF IndInv, WaitingOrdersAreWoken, waiting
  <2> QED
    BY <2>1, WaitingIsFinite, FS_EmptySet
<1>7. waiting(o)' = wanted
  BY <1>1, <1>3, <1>6 DEF waiting
<1>8. \A p \in Ids : p # o => waiting(p)' = waiting(p) /\ pending_orders'[p] = pending_orders[p]
  BY <1>1 DEF waiting, IndInv, TypeOK
<1>9. pending_orders'[o] = Cardinality(wanted)
  BY <1>1 DEF IndInv, TypeOK
<1>10. \A p \in Ids : pending_orders'[p] = Cardinality(waiting(p)')
  BY <1>7, <1>8, <1>9 DEF IndInv, WaitingOrdersAreWoken, waiting
<1>11. \A p \in Ids, k \in AccountNonce :
         p \in pending_nonces'[k] => sims_that_update_one_nonce'[k] = NoSim
  BY <1>1, <1>2, <1>3 DEF IndInv, WaitingOrdersAreWoken
<1> QED
  BY <1>5, <1>10, <1>11 DEF IndInv, WaitingOrdersAreWoken, waiting

\* The first simulation that leads to a nonce.
LEMMA Woken ==
  ASSUME IndInv, NEW result, NEW results, NEW key \in AccountNonce,
         process_new_nonce(result, key, results)
  PROVE  IndInv'
<1>1. /\ sims_that_update_one_nonce' = [sims_that_update_one_nonce EXCEPT ![key] = result.id]
      /\ pending_nonces' = [pending_nonces EXCEPT ![key] = {}]
      /\ pending_orders' = [o \in Ids |-> IF o \in pending_nonces[key] THEN pending_orders[o] - 1
                                          ELSE pending_orders[o]]
  BY DEF process_new_nonce
<1>2. ASSUME NEW o \in Ids
      PROVE  /\ waiting(o)' = waiting(o) \ {key}
             /\ pending_orders'[o] = Cardinality(waiting(o)')
             /\ pending_orders'[o] \in Nat
  <2>1. waiting(o)' = waiting(o) \ {key}
    BY <1>1 DEF waiting, IndInv, TypeOK
  <2>2. /\ IsFiniteSet(waiting(o) \ {key})
        /\ Cardinality(waiting(o) \ {key}) =
             IF key \in waiting(o) THEN Cardinality(waiting(o)) - 1 ELSE Cardinality(waiting(o))
    BY WaitingIsFinite, FS_RemoveElement
  <2>3. pending_orders[o] = Cardinality(waiting(o))
    BY DEF IndInv, WaitingOrdersAreWoken, waiting
  <2>4. pending_orders'[o] = IF key \in waiting(o) THEN pending_orders[o] - 1 ELSE pending_orders[o]
    BY <1>1 DEF waiting
  <2>5. Cardinality(waiting(o) \ {key}) \in Nat
    BY <2>2, FS_CardinalityType
  <2> QED
    BY <2>1, <2>2, <2>3, <2>4, <2>5
<1>3. TypeOK'
  BY <1>1, <1>2 DEF IndInv, TypeOK
<1>4. \A o \in Ids, k \in AccountNonce :
        o \in pending_nonces'[k] => sims_that_update_one_nonce'[k] = NoSim
  BY <1>1 DEF IndInv, TypeOK, WaitingOrdersAreWoken
<1> QED
  BY <1>2, <1>3, <1>4 DEF IndInv, WaitingOrdersAreWoken, waiting

\* A simulation that leads to a nonce that another one has led to.
LEMMA Replaced ==
  ASSUME IndInv, NEW result, NEW results, NEW key \in AccountNonce,
         sims_that_update_one_nonce[key] # NoSim,
         process_known_nonce(result, key, results)
  PROVE  IndInv'
<1>1. /\ \E id : sims_that_update_one_nonce' = [sims_that_update_one_nonce EXCEPT ![key] = id]
      /\ UNCHANGED <<pending_orders, pending_nonces>>
  BY DEF process_known_nonce
<1>2. TypeOK'
  BY <1>1 DEF IndInv, TypeOK
<1>3. \A o \in Ids, k \in AccountNonce :
        o \in pending_nonces'[k] => sims_that_update_one_nonce'[k] = NoSim
  BY <1>1 DEF IndInv, TypeOK, WaitingOrdersAreWoken
<1> QED
  BY <1>1, <1>2, <1>3 DEF IndInv, WaitingOrdersAreWoken

\* No order is there.
LEMMA InitIndInv == SimInit => IndInv
<1> SUFFICES ASSUME SimInit PROVE IndInv
  OBVIOUS
<1>1. TypeOK
  BY DEF SimInit, TypeOK
<1>2. \A o \in Ids : waiting(o) = {}
  BY DEF SimInit, waiting
<1> QED
  BY <1>1, <1>2, FS_EmptySet DEF SimInit, IndInv, WaitingOrdersAreWoken, waiting

\* Every operation keeps the counts and the lists.
LEMMA IndInvStep == IndInv /\ [SimNext]_simVars => IndInv'
<1> SUFFICES ASSUME IndInv, [SimNext]_simVars PROVE IndInv'
  OBVIOUS
<1>1. CASE UNCHANGED <<sims_that_update_one_nonce, pending_orders, pending_nonces>>
  BY <1>1 DEF IndInv, TypeOK, WaitingOrdersAreWoken
<1>2. ASSUME NEW o \in Ids, PushOrderPending(o)
      PROVE  IndInv'
  BY <1>2, Pushed
<1>3. ASSUME NEW r, NEW failing, SubmitResult(r, failing)
      PROVE  IndInv'
  <2>1. \/ \E result, results : \E key \in AccountNonce :
             IF sims_that_update_one_nonce[key] = NoSim
             THEN process_new_nonce(result, key, results)
             ELSE process_known_nonce(result, key, results)
        \/ UNCHANGED <<sims_that_update_one_nonce, pending_orders, pending_nonces>>
    BY <1>3 DEF SubmitResult
  <2> QED
    BY <1>1, <2>1, Woken, Replaced
<1>4. \/ UNCHANGED <<sims_that_update_one_nonce, pending_orders, pending_nonces>>
      \/ \E o \in Ids : PushOrderPending(o)
      \/ \E r \in running : \E failing \in SUBSET {tx \in ToSet(SimOrders[r.order]) : tx.optional} :
           SubmitResult(r, failing)
  BY DEF SimNext, simVars, PushOrderReady, PopSimulationTasks, SimulationFails
<1> QED
  BY <1>1, <1>2, <1>3, <1>4

\* "SimTree bug" is unreachable: an order counts the nonces it is listed under, and waits
\* only for nonces that no simulation has led to, so the last of them wakes it.
THEOREM NobodyWaitsForThePast == SimSpec => []WaitingOrdersAreWoken
<1>1. IndInv => WaitingOrdersAreWoken
  BY DEF IndInv
<1> QED
  BY <1>1, InitIndInv, IndInvStep, PTL DEF SimSpec

(***************************************************************************)
(* The prioritized pool: induction and folds over sets                     *)
(***************************************************************************)

\* Every non-empty set of naturals has a least element.
LEMMA LeastNat ==
  ASSUME NEW T \in SUBSET Nat, T # {}
  PROVE  \E x \in T : \A y \in T : x <= y
<1>1. IsWellFoundedOn(OpToRel(<, Nat), Nat)
  BY NatLessThanWellFounded
<1>2. PICK x \in T : \A y \in T : ~(<<y, x>> \in OpToRel(<, Nat))
  BY <1>1, WFMin
<1>3. \A y \in T : ~(y < x)
  BY <1>2 DEF OpToRel
<1> QED
  BY <1>3

\* Induction, for a set of naturals.
LEMMA NatSetInduction ==
  ASSUME NEW T \in SUBSET Nat, 0 \in T, \A n \in T : n + 1 \in T
  PROVE  T = Nat
<1> SUFFICES ASSUME T # Nat PROVE FALSE
  OBVIOUS
<1> DEFINE Rest == Nat \ T
<1>1. Rest \in SUBSET Nat /\ Rest # {}
  OBVIOUS
<1> HIDE DEF Rest
<1>2. PICK x \in Rest : \A y \in Rest : x <= y
  BY <1>1, LeastNat
<1>3. x \in Nat /\ x # 0 /\ x \notin T
  BY <1>2 DEF Rest
<1>4. x - 1 \in Nat /\ ~(x <= x - 1) /\ (x - 1) + 1 = x
  BY <1>3
<1>5. x - 1 \in T
  BY <1>2, <1>4 DEF Rest
<1> QED
  BY <1>3, <1>4, <1>5

\* The element that a fold over a set takes.
Chosen(s) == CHOOSE x \in s : TRUE

\* The three folds of the pool, by name.
SetStep(fold, st, r, x) ==
  CASE fold = "insert"     -> insert_order(r, x, st)
    [] fold = "revalidate" -> revalidate(r, x, st)
    [] fold = "wake"       -> wake(r, <<x, st[x]>>, st)

\* The equation that the function inside a fold satisfies, for sets of up to m elements.
Small(S, m) == {s \in SUBSET S : Cardinality(s) <= m}

SetFolds(fold, st, b, D, it) ==
  it = [s \in D |-> IF s = {} THEN b ELSE SetStep(fold, st, it[s \ {Chosen(s)}], Chosen(s))]

\* A set without one of its elements.
LEMMA OneLess ==
  ASSUME NEW S, IsFiniteSet(S), NEW s \in SUBSET S, s # {}
  PROVE  /\ Chosen(s) \in s
         /\ s \ {Chosen(s)} \in SUBSET S
         /\ Cardinality(s) \in Nat /\ Cardinality(s \ {Chosen(s)}) \in Nat
         /\ Cardinality(s \ {Chosen(s)}) = Cardinality(s) - 1
<1>1. Chosen(s) \in s
  BY DEF Chosen
<1>2. IsFiniteSet(s)
  BY FS_Subset
<1>3. PICK x : x = Chosen(s)
  OBVIOUS
<1>4. IsFiniteSet(s \ {x}) /\ Cardinality(s \ {x}) = Cardinality(s) - 1
  BY <1>1, <1>2, <1>3, FS_RemoveElement
<1>5. Cardinality(s) \in Nat
  BY <1>2, FS_CardinalityType
<1>6. Cardinality(s \ {x}) \in Nat
  BY <1>4, FS_CardinalityType
<1> QED
  BY <1>1, <1>3, <1>4, <1>5, <1>6

\* A function that satisfies it exists.
LEMMA SetFoldExists ==
  ASSUME NEW fold, NEW st, NEW b, NEW S, IsFiniteSet(S)
  PROVE  \E it : SetFolds(fold, st, b, SUBSET S, it)
<1> DEFINE T == {m \in Nat : \E it : SetFolds(fold, st, b, Small(S, m), it)}
<1>1. 0 \in T
  <2> DEFINE it0 == [s \in Small(S, 0) |-> b]
  <2>1. ASSUME NEW s \in Small(S, 0) PROVE s = {}
    <3> SUFFICES ASSUME s # {} PROVE FALSE
      OBVIOUS
    <3>1. s \in SUBSET S /\ Cardinality(s) <= 0
      BY DEF Small
    <3>2. /\ Cardinality(s) \in Nat /\ Cardinality(s \ {Chosen(s)}) \in Nat
          /\ Cardinality(s \ {Chosen(s)}) = Cardinality(s) - 1
      BY <3>1, OneLess
    <3> QED
      BY <3>1, <3>2
  <2>2. SetFolds(fold, st, b, Small(S, 0), it0)
    BY <2>1 DEF SetFolds
  <2> QED
    BY <2>2
<1>2. ASSUME NEW m \in T PROVE m + 1 \in T
  <2>1. m \in Nat /\ m + 1 \in Nat
    OBVIOUS
  <2>2. PICK it : SetFolds(fold, st, b, Small(S, m), it)
    OBVIOUS
  <2> DEFINE new == [s \in Small(S, m + 1) |->
                       IF s = {} THEN b ELSE SetStep(fold, st, it[s \ {Chosen(s)}], Chosen(s))]
  <2>3. ASSUME NEW s \in Small(S, m) PROVE s \in Small(S, m + 1) /\ new[s] = it[s]
    <3>1. IsFiniteSet(s)
      BY FS_Subset DEF Small
    <3>2. Cardinality(s) \in Nat
      BY <3>1, FS_CardinalityType
    <3>3. s \in Small(S, m + 1)
      BY <2>1, <3>2 DEF Small
    <3>4. it[s] = IF s = {} THEN b ELSE SetStep(fold, st, it[s \ {Chosen(s)}], Chosen(s))
      BY <2>2 DEF SetFolds
    <3> QED
      BY <3>3, <3>4
  <2>4. ASSUME NEW s \in Small(S, m + 1), s # {} PROVE s \ {Chosen(s)} \in Small(S, m)
    <3>1. s \in SUBSET S /\ Cardinality(s) <= m + 1
      BY DEF Small
    <3>2. /\ s \ {Chosen(s)} \in SUBSET S
          /\ Cardinality(s) \in Nat /\ Cardinality(s \ {Chosen(s)}) \in Nat
          /\ Cardinality(s \ {Chosen(s)}) = Cardinality(s) - 1
      BY <2>4, <3>1, OneLess
    <3>3. Cardinality(s \ {Chosen(s)}) <= m
      BY <2>1, <3>1, <3>2
    <3> QED
      BY <3>2, <3>3 DEF Small
  <2>5. \A s \in Small(S, m + 1) : s # {} => new[s \ {Chosen(s)}] = it[s \ {Chosen(s)}]
    BY <2>3, <2>4
  <2>6. \A s \in Small(S, m + 1) :
          new[s] = IF s = {} THEN b ELSE SetStep(fold, st, it[s \ {Chosen(s)}], Chosen(s))
    OBVIOUS
  <2>7. \A s \in Small(S, m + 1) :
          new[s] = IF s = {} THEN b ELSE SetStep(fold, st, new[s \ {Chosen(s)}], Chosen(s))
    BY <2>5, <2>6
  <2>8. new = [s \in Small(S, m + 1) |-> new[s]]
    OBVIOUS
  <2> HIDE DEF new
  <2>9. SetFolds(fold, st, b, Small(S, m + 1), new)
    BY <2>7, <2>8 DEF SetFolds
  <2> QED
    BY <2>1, <2>9
<1>3. T \in SUBSET Nat
  OBVIOUS
<1>4. Cardinality(S) \in Nat
  BY FS_CardinalityType
<1>5. ASSUME NEW s \in SUBSET S PROVE Cardinality(s) <= Cardinality(S)
  BY FS_Subset
<1>6. Small(S, Cardinality(S)) = SUBSET S
  BY <1>5 DEF Small
<1> HIDE DEF T
<1>7. T = Nat
  BY <1>1, <1>2, <1>3, NatSetInduction
<1>8. PICK it : SetFolds(fold, st, b, Small(S, Cardinality(S)), it)
  BY <1>4, <1>7 DEF T
<1> QED
  BY <1>6, <1>8

\* What every turn of a fold establishes from what the turns before it have.
Turns(fold, st, S, J) ==
  \A s \in SUBSET S : s # {} =>
    \A r \in J[s \ {Chosen(s)}] : SetStep(fold, st, r, Chosen(s)) \in J[s]

\* The fold establishes it, too.
LEMMA SetFoldKeeps ==
  ASSUME NEW fold, NEW st, NEW b, NEW S, IsFiniteSet(S), NEW it,
         SetFolds(fold, st, b, SUBSET S, it), NEW J, b \in J[{}], Turns(fold, st, S, J)
  PROVE  it[S] \in J[S]
<1> DEFINE T == {m \in Nat : \A s \in Small(S, m) : it[s] \in J[s]}
<1>0. /\ {} \in SUBSET S => it[{}] = b
      /\ \A s \in SUBSET S : s # {} => it[s] = SetStep(fold, st, it[s \ {Chosen(s)}], Chosen(s))
  BY DEF SetFolds
<1>1. ASSUME NEW s \in SUBSET S, s # {}, it[s \ {Chosen(s)}] \in J[s \ {Chosen(s)}]
      PROVE  it[s] \in J[s]
  BY <1>0, <1>1 DEF Turns
<1>2. it[{}] \in J[{}]
  BY <1>0
<1>3. 0 \in T
  <2> SUFFICES ASSUME NEW s \in Small(S, 0) PROVE it[s] \in J[s]
    OBVIOUS
  <2>1. s \in SUBSET S /\ Cardinality(s) <= 0
    BY DEF Small
  <2>2. CASE s # {}
    <3>1. /\ Cardinality(s) \in Nat /\ Cardinality(s \ {Chosen(s)}) \in Nat
          /\ Cardinality(s \ {Chosen(s)}) = Cardinality(s) - 1
      BY <2>1, <2>2, OneLess
    <3> QED
      BY <2>1, <3>1
  <2> QED
    BY <1>2, <2>2
<1>4. ASSUME NEW m \in T PROVE m + 1 \in T
  <2>1. m \in Nat /\ \A s \in Small(S, m) : it[s] \in J[s]
    OBVIOUS
  <2>2. ASSUME NEW s \in Small(S, m + 1), s # {} PROVE it[s] \in J[s]
    <3>1. s \in SUBSET S /\ Cardinality(s) <= m + 1
      BY DEF Small
    <3>2. /\ s \ {Chosen(s)} \in SUBSET S
          /\ Cardinality(s) \in Nat /\ Cardinality(s \ {Chosen(s)}) \in Nat
          /\ Cardinality(s \ {Chosen(s)}) = Cardinality(s) - 1
      BY <2>2, <3>1, OneLess
    <3>3. Cardinality(s \ {Chosen(s)}) <= m
      BY <2>1, <3>1, <3>2
    <3>4. s \ {Chosen(s)} \in Small(S, m)
      BY <3>2, <3>3 DEF Small
    <3> QED
      BY <1>1, <2>1, <2>2, <3>1, <3>4
  <2>3. \A s \in Small(S, m + 1) : it[s] \in J[s]
    BY <1>2, <2>2
  <2>4. m + 1 \in Nat
    BY <2>1
  <2> QED
    BY <2>3, <2>4
<1>5. T \in SUBSET Nat
  OBVIOUS
<1>6. Cardinality(S) \in Nat
  BY FS_CardinalityType
<1>7. S \in Small(S, Cardinality(S))
  BY <1>6 DEF Small
<1> HIDE DEF T
<1>8. T = Nat
  BY <1>3, <1>4, <1>5, NatSetInduction
<1> QED
  BY <1>6, <1>7, <1>8 DEF T

Inserted(b, S, st) == FoldSet(LAMBDA o, r : insert_order(r, o, st), b, S)

\* Orders that are pulled, or woken, are inserted one after the other.
LEMMA InsertFold ==
  ASSUME NEW st, NEW b, NEW S, IsFiniteSet(S), NEW J, b \in J[{}], Turns("insert", st, S, J)
  PROVE  Inserted(b, S, st) \in J[S]
<1> DEFINE Eq(it) == it = [s \in SUBSET S |-> IF s = {} THEN b
                             ELSE insert_order(it[s \ {CHOOSE x \in s : TRUE}], CHOOSE x \in s : TRUE, st)]
           itself == CHOOSE it : Eq(it)
<1>1. \A it : SetFolds("insert", st, b, SUBSET S, it) <=> Eq(it)
  BY DEF SetFolds, SetStep, Chosen
<1>2. \E it : Eq(it)
  <2> HIDE DEF Eq
  <2>1. PICK it : SetFolds("insert", st, b, SUBSET S, it)
    BY SetFoldExists
  <2> QED
    BY <1>1, <2>1
<1>3. Eq(itself)
  BY <1>2
<1>4. Inserted(b, S, st) = itself[S]
  BY DEF Inserted, FoldSet, MapThenFoldSet
<1> HIDE DEF itself
<1>5. SetFolds("insert", st, b, SUBSET S, itself)
  BY <1>1, <1>3
<1> HIDE DEF Eq
<1> QED
  BY <1>4, <1>5, SetFoldKeeps

Revalidated(b, S, st) == FoldSet(LAMBDA o, r : revalidate(r, o, st), b, S)

\* Orders of accounts that moved are taken out and inserted again one after the other.
LEMMA RevalidateFold ==
  ASSUME NEW st, NEW b, NEW S, IsFiniteSet(S), NEW J, b \in J[{}], Turns("revalidate", st, S, J)
  PROVE  Revalidated(b, S, st) \in J[S]
<1> DEFINE Eq(it) == it = [s \in SUBSET S |-> IF s = {} THEN b
                             ELSE revalidate(it[s \ {CHOOSE x \in s : TRUE}], CHOOSE x \in s : TRUE, st)]
           itself == CHOOSE it : Eq(it)
<1>1. \A it : SetFolds("revalidate", st, b, SUBSET S, it) <=> Eq(it)
  BY DEF SetFolds, SetStep, Chosen
<1>2. \E it : Eq(it)
  <2> HIDE DEF Eq
  <2>1. PICK it : SetFolds("revalidate", st, b, SUBSET S, it)
    BY SetFoldExists
  <2> QED
    BY <1>1, <2>1
<1>3. Eq(itself)
  BY <1>2
<1>4. Revalidated(b, S, st) = itself[S]
  BY DEF Revalidated, FoldSet, MapThenFoldSet
<1> HIDE DEF itself
<1>5. SetFolds("revalidate", st, b, SUBSET S, itself)
  BY <1>1, <1>3
<1> HIDE DEF Eq
<1> QED
  BY <1>4, <1>5, SetFoldKeeps

Awake(b, S, st) == FoldSet(LAMBDA a, r : wake(r, <<a, st[a]>>, st), b, S)

\* Accounts that moved wake the orders that wait for them one after the other.
LEMMA WakeFold ==
  ASSUME NEW st, NEW b, NEW S, IsFiniteSet(S), NEW J, b \in J[{}], Turns("wake", st, S, J)
  PROVE  Awake(b, S, st) \in J[S]
<1> DEFINE Eq(it) == it = [s \in SUBSET S |-> IF s = {} THEN b
                             ELSE wake(it[s \ {CHOOSE x \in s : TRUE}],
                                       <<CHOOSE x \in s : TRUE, st[CHOOSE x \in s : TRUE]>>, st)]
           itself == CHOOSE it : Eq(it)
<1>1. \A it : SetFolds("wake", st, b, SUBSET S, it) <=> Eq(it)
  BY DEF SetFolds, SetStep, Chosen
<1>2. \E it : Eq(it)
  <2> HIDE DEF Eq
  <2>1. PICK it : SetFolds("wake", st, b, SUBSET S, it)
    BY SetFoldExists
  <2> QED
    BY <1>1, <2>1
<1>3. Eq(itself)
  BY <1>2
<1>4. Awake(b, S, st) = itself[S]
  BY DEF Awake, FoldSet, MapThenFoldSet
<1> HIDE DEF itself
<1>5. SetFolds("wake", st, b, SUBSET S, itself)
  BY <1>1, <1>3
<1> HIDE DEF Eq
<1> QED
  BY <1>4, <1>5, SetFoldKeeps

(***************************************************************************)
(* Operations of the pool                                                  *)
(***************************************************************************)

BundleIds == DOMAIN PrioOrders

PoolSet ==
  [main_queue : SUBSET BundleIds, main_queue_nonces : [Senders -> SUBSET BundleIds],
   onchain_nonces : [Senders -> Nat \cup {Unknown}],
   pending_orders : [NonceKeys -> SUBSET BundleIds], orders : SUBSET BundleIds]

StateNonces == [Senders -> Nat]

Uses(o, a) == \E tx \in nonces(o) : tx.account = a

\* What must be included of the order has the nonces of the pool.
ReadyIn(p, o) == \A tx \in nonces(o) : tx.optional \/ p.onchain_nonces[tx.account] = tx.nonce

\* Nonces that the pool has are kept, others are taken from the state.
Learnt(p, q, st) ==
  \A a \in Senders : \/ q.onchain_nonces[a] = p.onchain_nonces[a]
                     \/ p.onchain_nonces[a] = Unknown /\ q.onchain_nonces[a] = st[a]

\* The order is not inserted, goes to the queue or waits.
Rejects(p, q, o) ==
  /\ q.main_queue = p.main_queue /\ q.main_queue_nonces = p.main_queue_nonces
  /\ q.pending_orders = p.pending_orders /\ q.orders = p.orders
  /\ ~ReadyIn(q, o)

Queues(p, q, o) ==
  /\ q.main_queue = p.main_queue \cup {o} /\ q.orders = p.orders \cup {o}
  /\ \A a \in Senders : q.main_queue_nonces[a] =
       IF Uses(o, a) THEN p.main_queue_nonces[a] \cup {o} ELSE p.main_queue_nonces[a]
  /\ q.pending_orders = p.pending_orders
  /\ ReadyIn(q, o)

Delays(p, q, o) ==
  /\ q.main_queue = p.main_queue /\ q.main_queue_nonces = p.main_queue_nonces
  /\ q.orders = p.orders \cup {o}
  /\ \A k \in NonceKeys :
       \/ q.pending_orders[k] = p.pending_orders[k]
       \/ q.onchain_nonces[k[1]] # Unknown /\ q.onchain_nonces[k[1]] < k[2]
  /\ ~ReadyIn(q, o)

Inserts(p, q, o, st) ==
  /\ q \in PoolSet
  /\ Learnt(p, q, st)
  /\ IF o \in p.orders THEN q = p ELSE Rejects(p, q, o) \/ Queues(p, q, o) \/ Delays(p, q, o)

\* The transactions of a bundle that its nonces come from.
LEMMA NonceTypes ==
  ASSUME NEW o \in BundleIds, NEW tx \in nonces(o)
  PROVE  tx.account \in Senders /\ tx.nonce \in 0..MaxTxNonce /\ tx.nonce \in Nat /\ tx.optional \in BOOLEAN
         /\ <<tx.account, tx.nonce>> \in NonceKeys
<1> DEFINE Tx == [account : Senders, nonce : 0..MaxTxNonce, optional : BOOLEAN, fee : Nat, gas : Nat]
<1>1. PrioOrders[o] \in Seq(Tx)
  BY PrioConstants DEF BundleIds
<1>2. \E i \in DOMAIN PrioOrders[o] : tx = PrioOrders[o][i]
  BY DEF nonces
<1>3. tx \in Tx
  <2> HIDE DEF Tx
  <2>1. PICK i \in DOMAIN PrioOrders[o] : tx = PrioOrders[o][i]
    BY <1>2
  <2> QED
    BY <1>1, <2>1
<1> QED
  BY <1>3 DEF NonceKeys

\* The nonces that are read are those of the state.
LEMMA NoncesRead ==
  ASSUME NEW p \in PoolSet, NEW o \in BundleIds, NEW st \in StateNonces
  PROVE  LET q == with_nonces(p, o, st)
         IN /\ q \in PoolSet /\ Learnt(p, q, st)
            /\ q.main_queue = p.main_queue /\ q.main_queue_nonces = p.main_queue_nonces
            /\ q.pending_orders = p.pending_orders /\ q.orders = p.orders
            /\ ~outdated(q, o) => \A tx \in nonces(o) : q.onchain_nonces[tx.account] # Unknown
<1> DEFINE nonce(a) == IF p.onchain_nonces[a] = Unknown THEN st[a] ELSE p.onchain_nonces[a]
           used == {tx \in nonces(o) : ~tx.optional /\ nonce(tx.account) > tx.nonce}
           asked == {tx \in nonces(o) : \A other \in used : tx.account <= other.account}
           read == [a \in Senders |-> IF \E tx \in asked : tx.account = a THEN nonce(a) ELSE p.onchain_nonces[a]]
           q == with_nonces(p, o, st)
<1>1. q = [p EXCEPT !.onchain_nonces = read]
  BY DEF with_nonces, PoolSet
<1>2. \A a \in Senders : nonce(a) \in Nat
  BY DEF PoolSet, StateNonces
<1>3. read \in [Senders -> Nat \cup {Unknown}]
  BY <1>2 DEF PoolSet
<1>4. q \in PoolSet /\ q.onchain_nonces = read
      /\ q.main_queue = p.main_queue /\ q.main_queue_nonces = p.main_queue_nonces
      /\ q.pending_orders = p.pending_orders /\ q.orders = p.orders
  BY <1>1, <1>3 DEF PoolSet
<1>5. Learnt(p, q, st)
  BY <1>4 DEF Learnt
<1>6. ASSUME ~outdated(q, o) PROVE used = {}
  <2> SUFFICES ASSUME used # {} PROVE FALSE
    OBVIOUS
  <2> DEFINE accounts == {tx.account : tx \in used}
  <2>1. accounts \in SUBSET Nat /\ accounts # {}
    BY NonceTypes, PrioConstants
  <2> HIDE DEF accounts
  <2>2. PICK x \in accounts : \A y \in accounts : x <= y
    BY <2>1, LeastNat
  <2>3. PICK tx \in used : tx.account = x
    BY <2>2 DEF accounts
  <2>4. \A other \in used : tx.account <= other.account
    BY <2>2, <2>3 DEF accounts
  <2>5. tx \in asked /\ tx \in nonces(o) /\ tx.account \in Senders
    BY <2>3, <2>4, NonceTypes
  <2>6. q.onchain_nonces[tx.account] = nonce(tx.account)
    BY <1>4, <2>5
  <2>7. outdated(q, o)
    BY <2>3, <2>5, <2>6 DEF outdated
  <2> QED
    BY <1>6, <2>7
<1>7. ASSUME ~outdated(q, o), NEW tx \in nonces(o) PROVE q.onchain_nonces[tx.account] # Unknown
  <2>1. tx \in asked /\ tx.account \in Senders
    BY <1>6, <1>7, NonceTypes
  <2>2. q.onchain_nonces[tx.account] = nonce(tx.account)
    BY <1>4, <2>1
  <2> QED
    BY <1>2, <2>1, <2>2 DEF Unknown
<1> HIDE DEF q
<1>8. /\ q \in PoolSet /\ Learnt(p, q, st)
      /\ q.main_queue = p.main_queue /\ q.main_queue_nonces = p.main_queue_nonces
      /\ q.pending_orders = p.pending_orders /\ q.orders = p.orders
      /\ ~outdated(q, o) => \A tx \in nonces(o) : q.onchain_nonces[tx.account] # Unknown
  BY <1>4, <1>5, <1>7
<1> QED
  BY <1>8 DEF q

\* insert_order.
LEMMA InsertOrder ==
  ASSUME NEW p \in PoolSet, NEW o \in BundleIds, NEW st \in StateNonces
  PROVE  Inserts(p, insert_order(p, o, st), o, st)
<1>1. CASE o \in p.orders
  <2>1. insert_order(p, o, st) = p
    BY <1>1 DEF insert_order
  <2>2. Learnt(p, p, st)
    BY DEF Learnt
  <2> QED
    BY <1>1, <2>1, <2>2 DEF Inserts
<1>2. CASE o \notin p.orders
  <2>1. PICK q : q = with_nonces(p, o, st)
    OBVIOUS
  <2>2. PICK n : n = insert_order(p, o, st)
    OBVIOUS
  <2>3. /\ q \in PoolSet /\ Learnt(p, q, st)
        /\ q.main_queue = p.main_queue /\ q.main_queue_nonces = p.main_queue_nonces
        /\ q.pending_orders = p.pending_orders /\ q.orders = p.orders
        /\ ~outdated(q, o) => \A tx \in nonces(o) : q.onchain_nonces[tx.account] # Unknown
    BY <2>1, NoncesRead
  <2>4. ASSUME NEW tx \in nonces(o) PROVE q.onchain_nonces[tx.account] \in Int /\ tx.nonce \in Int
    <3>1. tx.account \in Senders /\ tx.nonce \in Nat
      BY NonceTypes
    <3>2. q.onchain_nonces[tx.account] \in Nat \cup {Unknown}
      BY <2>3, <3>1 DEF PoolSet
    <3> QED
      BY <3>1, <3>2 DEF Unknown
  <2> DEFINE waits == waits_for(q, o)
             listed == [a \in Senders |->
                            IF \E tx \in nonces(o) : tx.account = a THEN q.main_queue_nonces[a] \cup {o} ELSE q.main_queue_nonces[a]]
             delayed == [k \in NonceKeys |->
                            IF k \in waits THEN q.pending_orders[k] \cup {o} ELSE q.pending_orders[k]]
  <2>5. n = IF outdated(q, o) THEN q
          ELSE IF waits = {}
          THEN [q EXCEPT !.main_queue = q.main_queue \cup {o},
                         !.main_queue_nonces = listed,
                         !.orders = q.orders \cup {o}]
          ELSE [q EXCEPT !.pending_orders = delayed,
                         !.orders = q.orders \cup {o}]
    BY <1>2, <2>1, <2>2, <2>3 DEF insert_order, PoolSet
  <2>6. CASE outdated(q, o)
    <3>1. n = q
      BY <2>5, <2>6
    <3>2. ~ReadyIn(q, o)
      BY <2>4, <2>6 DEF outdated, ReadyIn
    <3>3. Rejects(p, q, o)
      BY <2>3, <3>2 DEF Rejects
    <3> QED
      BY <1>2, <2>2, <2>3, <3>1, <3>3 DEF Inserts
  <2>7. CASE ~outdated(q, o) /\ waits = {}
    <3>1. n = [q EXCEPT !.main_queue = q.main_queue \cup {o}, !.main_queue_nonces = listed,
                        !.orders = q.orders \cup {o}]
      BY <2>5, <2>7
    <3>2. listed \in [Senders -> SUBSET BundleIds]
      BY <2>3 DEF PoolSet
    <3>3. n \in PoolSet /\ n.main_queue = q.main_queue \cup {o} /\ n.orders = q.orders \cup {o}
          /\ n.main_queue_nonces = listed /\ n.pending_orders = q.pending_orders
          /\ n.onchain_nonces = q.onchain_nonces
      BY <2>3, <3>1, <3>2 DEF PoolSet
    <3>4. ASSUME NEW tx \in nonces(o), ~tx.optional PROVE n.onchain_nonces[tx.account] = tx.nonce
      <4>1. ~(q.onchain_nonces[tx.account] > tx.nonce)
        BY <2>7, <3>4 DEF outdated
      <4>2. ~(q.onchain_nonces[tx.account] < tx.nonce)
        BY <2>7, <3>4 DEF waits_for
      <4> QED
        BY <2>4, <3>3, <4>1, <4>2
    <3>5. \A a \in Senders : n.main_queue_nonces[a] =
       IF Uses(o, a) THEN q.main_queue_nonces[a] \cup {o} ELSE q.main_queue_nonces[a]
      BY <3>3 DEF Uses
    <3>6. Queues(p, n, o)
      BY <2>3, <3>3, <3>4, <3>5 DEF Queues, ReadyIn
    <3>7. Learnt(p, n, st)
      BY <2>3, <3>3 DEF Learnt
    <3> QED
      BY <1>2, <2>2, <3>3, <3>6, <3>7 DEF Inserts
  <2>8. CASE ~outdated(q, o) /\ waits # {}
    <3>1. n = [q EXCEPT !.pending_orders = delayed, !.orders = q.orders \cup {o}]
      BY <2>5, <2>8
    <3>2. delayed \in [NonceKeys -> SUBSET BundleIds]
      BY <2>3 DEF PoolSet
    <3>3. n \in PoolSet /\ n.main_queue = q.main_queue /\ n.orders = q.orders \cup {o}
          /\ n.main_queue_nonces = q.main_queue_nonces /\ n.pending_orders = delayed
          /\ n.onchain_nonces = q.onchain_nonces
      BY <2>3, <3>1, <3>2 DEF PoolSet
    <3>4. ASSUME NEW k \in waits
          PROVE  q.onchain_nonces[k[1]] # Unknown /\ q.onchain_nonces[k[1]] < k[2]
      <4>1. PICK tx \in nonces(o) : k = <<tx.account, tx.nonce>> /\ q.onchain_nonces[tx.account] < tx.nonce
        BY DEF waits_for
      <4>2. k[1] = tx.account /\ k[2] = tx.nonce
        BY <4>1
      <4> QED
        BY <2>3, <2>8, <4>1, <4>2
    <3>5. \A k \in NonceKeys :
       \/ n.pending_orders[k] = p.pending_orders[k]
       \/ n.onchain_nonces[k[1]] # Unknown /\ n.onchain_nonces[k[1]] < k[2]
      <4> HIDE DEF waits
      <4> QED
        BY <2>3, <3>3, <3>4
    <3>6. ~ReadyIn(n, o)
      <4>1. PICK tx \in nonces(o) : ~tx.optional /\ q.onchain_nonces[tx.account] < tx.nonce
        BY <2>8 DEF waits_for
      <4> QED
        BY <2>4, <3>3, <4>1 DEF ReadyIn
    <3>7. Delays(p, n, o)
      BY <2>3, <3>3, <3>5, <3>6 DEF Delays
    <3>8. Learnt(p, n, st)
      BY <2>3, <3>3 DEF Learnt
    <3> QED
      BY <1>2, <2>2, <3>3, <3>7, <3>8 DEF Inserts
  <2> QED
    BY <2>6, <2>7, <2>8
<1> QED
  BY <1>1, <1>2

Pops(p, q, o) ==
  /\ q \in PoolSet
  /\ q.main_queue = p.main_queue \ {o} /\ q.orders = p.orders \ {o}
  /\ \A a \in Senders : q.main_queue_nonces[a] =
       IF Uses(o, a) THEN p.main_queue_nonces[a] \ {o} ELSE p.main_queue_nonces[a]
  /\ q.pending_orders = p.pending_orders /\ q.onchain_nonces = p.onchain_nonces

\* pop_order.
LEMMA PopOrder ==
  ASSUME NEW p \in PoolSet, NEW o
  PROVE  Pops(p, pop_order(p, o), o)
<1> DEFINE listed == [a \in Senders |->
                        IF \E tx \in nonces(o) : tx.account = a THEN p.main_queue_nonces[a] \ {o} ELSE p.main_queue_nonces[a]]
           q == [p EXCEPT !.main_queue = p.main_queue \ {o}]
           n == pop_order(p, o)
<1>1. q \in PoolSet /\ q.main_queue = p.main_queue \ {o} /\ q.orders = p.orders
      /\ q.main_queue_nonces = p.main_queue_nonces
      /\ q.pending_orders = p.pending_orders /\ q.onchain_nonces = p.onchain_nonces
  BY DEF PoolSet
<1>2. listed \in [Senders -> SUBSET BundleIds]
  BY DEF PoolSet
<1>3. n = [q EXCEPT !.orders = q.orders \ {o}, !.main_queue_nonces = listed]
  BY <1>1 DEF pop_order, remove_popped_order, PoolSet
<1> HIDE DEF q, n
<1>4. n \in PoolSet /\ n.main_queue = q.main_queue /\ n.orders = q.orders \ {o}
      /\ n.main_queue_nonces = listed
      /\ n.pending_orders = q.pending_orders /\ n.onchain_nonces = q.onchain_nonces
  BY <1>1, <1>2, <1>3 DEF PoolSet
<1>5. Pops(p, n, o)
  BY <1>1, <1>4 DEF Pops, Uses
<1> QED
  BY <1>5 DEF n

(***************************************************************************)
(* The invariants of a pool, and what is left of them in the middle of an  *)
(* operation                                                               *)
(***************************************************************************)

\* The lists by account, but for the orders of `dirty` under the accounts that moved.
Listed(p, moved, dirty) ==
  \A a \in Senders : p.main_queue_nonces[a] =
    {o \in p.main_queue : Uses(o, a) /\ ~(a \in moved /\ o \in dirty)}

Consistent(p) ==
  /\ p.main_queue \subseteq p.orders
  /\ Listed(p, {}, {})
  /\ \A o \in p.main_queue : ReadyIn(p, o)

\* The orders of `dirty` are still to be revalidated ...
Revalidating(p, moved, dirty) ==
  /\ dirty \subseteq p.main_queue
  /\ p.main_queue \subseteq p.orders
  /\ Listed(p, moved, dirty)
  /\ \A o \in p.main_queue \ dirty : ReadyIn(p, o)

\* ... or still to be inserted again.
Waking(p, woken) ==
  /\ p.main_queue \subseteq p.orders \cup woken
  /\ Listed(p, {}, {})
  /\ \A o \in p.main_queue : ReadyIn(p, o)

\* Who waits for an account waits for a nonce that the account does not have, but for
\* those of `moved` whose orders are still to be woken.
NobodyOverlooked(p, moved) ==
  \A k \in NonceKeys : p.pending_orders[k] # {} =>
    /\ p.onchain_nonces[k[1]] # Unknown
    /\ k[1] \in moved \/ p.onchain_nonces[k[1]] # k[2]

\* In the pool of the step, nonces are never updated: who waits does so for a later one.
WaitsAhead(p) ==
  \A k \in NonceKeys : p.pending_orders[k] # {} =>
    p.onchain_nonces[k[1]] # Unknown /\ p.onchain_nonces[k[1]] < k[2]

Agrees(p, st) == \A a \in Senders : p.onchain_nonces[a] \in {Unknown, st[a]}

\* Orders that are ready have known nonces, and stay ready when others are read.
LEMMA StaysReady ==
  ASSUME NEW p \in PoolSet, NEW q, NEW st, Learnt(p, q, st), NEW o \in BundleIds, ReadyIn(p, o)
  PROVE  ReadyIn(q, o)
<1> SUFFICES ASSUME NEW tx \in nonces(o), ~tx.optional
             PROVE  q.onchain_nonces[tx.account] = tx.nonce
  BY DEF ReadyIn
<1>1. tx.account \in Senders /\ tx.nonce \in Nat
  BY NonceTypes
<1>2. p.onchain_nonces[tx.account] = tx.nonce
  BY DEF ReadyIn
<1>3. tx.nonce # Unknown
  BY <1>1 DEF Unknown
<1> QED
  BY <1>1, <1>2, <1>3 DEF Learnt

\* An insert keeps what the pool promises, and brings the order back that it is for.
LEMMA InsertKeeps ==
  ASSUME NEW p \in PoolSet, NEW q, NEW o \in BundleIds, NEW st, Inserts(p, q, o, st), NEW woken,
         Waking(p, woken)
  PROVE  Waking(q, woken \ {o})
<1>1. q \in PoolSet /\ Learnt(p, q, st)
  BY DEF Inserts
<1>2. \A x \in p.main_queue : x \in BundleIds
  BY DEF PoolSet
<1>3. \A x \in p.main_queue : ReadyIn(q, x)
  BY <1>1, <1>2, StaysReady DEF Waking
<1>4. CASE o \in p.orders
  <2>1. q = p
    BY <1>4 DEF Inserts
  <2> QED
    BY <1>4, <2>1 DEF Waking
<1>5. CASE ~ReadyIn(q, o) /\ q.main_queue = p.main_queue /\ q.main_queue_nonces = p.main_queue_nonces
           /\ p.orders \subseteq q.orders
  <2>1. o \notin p.main_queue
    BY <1>3, <1>5
  <2>2. q.main_queue \subseteq q.orders \cup (woken \ {o})
    BY <1>5, <2>1 DEF Waking
  <2>3. Listed(q, {}, {})
    BY <1>5 DEF Waking, Listed
  <2> QED
    BY <1>3, <1>5, <2>2, <2>3 DEF Waking
<1>6. CASE Queues(p, q, o)
  <2>1. q.main_queue \subseteq q.orders \cup (woken \ {o})
    BY <1>6 DEF Waking, Queues
  <2>2. \A a \in Senders : q.main_queue_nonces[a] = {x \in q.main_queue : Uses(x, a)}
    BY <1>6 DEF Waking, Queues, Listed
  <2>3. Listed(q, {}, {})
    BY <2>2 DEF Listed
  <2>4. \A x \in q.main_queue : ReadyIn(q, x)
    BY <1>3, <1>6 DEF Queues
  <2> QED
    BY <2>1, <2>3, <2>4 DEF Waking
<1> QED
  BY <1>4, <1>5, <1>6 DEF Inserts, Rejects, Delays

\* Inserting an order that is not there, while others are to be revalidated.
LEMMA InsertKeepsDirty ==
  ASSUME NEW p \in PoolSet, NEW q, NEW o \in BundleIds, NEW st, Inserts(p, q, o, st),
         NEW moved, NEW dirty, Revalidating(p, moved, dirty), o \notin dirty
  PROVE  Revalidating(q, moved, dirty)
<1>1. q \in PoolSet /\ Learnt(p, q, st)
  BY DEF Inserts
<1>2. \A x \in p.main_queue \ dirty : x \in BundleIds
  BY DEF PoolSet
<1>3. \A x \in p.main_queue \ dirty : ReadyIn(q, x)
  BY <1>1, <1>2, StaysReady DEF Revalidating
<1>4. CASE o \in p.orders
  <2>1. q = p
    BY <1>4 DEF Inserts
  <2> QED
    BY <2>1
<1>5. CASE q.main_queue = p.main_queue /\ q.main_queue_nonces = p.main_queue_nonces
           /\ p.orders \subseteq q.orders
  <2>1. Listed(q, moved, dirty)
    BY <1>5 DEF Revalidating, Listed
  <2> QED
    BY <1>3, <1>5, <2>1 DEF Revalidating
<1>6. CASE Queues(p, q, o)
  <2>1. q.main_queue \subseteq q.orders /\ dirty \subseteq q.main_queue
    BY <1>6 DEF Revalidating, Queues
  <2>2. \A a \in Senders : q.main_queue_nonces[a] =
          {x \in q.main_queue : Uses(x, a) /\ ~(a \in moved /\ x \in dirty)}
    BY <1>6 DEF Revalidating, Queues, Listed
  <2>3. Listed(q, moved, dirty)
    BY <2>2 DEF Listed
  <2>4. \A x \in q.main_queue \ dirty : ReadyIn(q, x)
    BY <1>3, <1>6 DEF Queues
  <2> QED
    BY <2>1, <2>3, <2>4 DEF Revalidating
<1> QED
  BY <1>4, <1>5, <1>6 DEF Inserts, Rejects, Delays

\* Who is inserted waits for what is not there, and nonces are those of the state.
LEMMA InsertKeepsWaiting ==
  ASSUME NEW p \in PoolSet, NEW q, NEW o \in BundleIds, NEW st \in StateNonces, Inserts(p, q, o, st)
  PROVE  /\ WaitsAhead(p) => WaitsAhead(q)
         /\ \A moved : NobodyOverlooked(p, moved) => NobodyOverlooked(q, moved)
         /\ Agrees(p, st) => Agrees(q, st)
<1>1. q \in PoolSet /\ Learnt(p, q, st)
  BY DEF Inserts
<1>2. ASSUME NEW k \in NonceKeys
      PROVE  \/ q.pending_orders[k] = p.pending_orders[k]
             \/ q.onchain_nonces[k[1]] # Unknown /\ q.onchain_nonces[k[1]] < k[2]
  BY DEF Inserts, Rejects, Queues, Delays
<1>3. ASSUME NEW k \in NonceKeys
      PROVE  k[1] \in Senders /\ k[2] \in Int /\ q.onchain_nonces[k[1]] \in Int
  <2>1. k[1] \in Senders /\ k[2] \in Int
    BY DEF NonceKeys
  <2>2. q.onchain_nonces[k[1]] \in Nat \cup {Unknown}
    BY <1>1, <2>1 DEF PoolSet
  <2> QED
    BY <2>1, <2>2 DEF Unknown
<1>4. \A k \in NonceKeys : p.onchain_nonces[k[1]] # Unknown
        => q.onchain_nonces[k[1]] = p.onchain_nonces[k[1]]
  BY <1>1, <1>3 DEF Learnt
<1>5. WaitsAhead(p) => WaitsAhead(q)
  BY <1>2, <1>4 DEF WaitsAhead
<1>6. ASSUME NEW moved, NobodyOverlooked(p, moved), NEW k \in NonceKeys, q.pending_orders[k] # {}
      PROVE  q.onchain_nonces[k[1]] # Unknown /\ (k[1] \in moved \/ q.onchain_nonces[k[1]] # k[2])
  <2>1. CASE q.pending_orders[k] = p.pending_orders[k]
    BY <1>4, <1>6, <2>1 DEF NobodyOverlooked
  <2>2. CASE q.onchain_nonces[k[1]] # Unknown /\ q.onchain_nonces[k[1]] < k[2]
    BY <1>3, <2>2
  <2> QED
    BY <1>2, <2>1, <2>2
<1>7. Agrees(p, st) => Agrees(q, st)
  BY <1>1 DEF Agrees, Learnt
<1> QED
  BY <1>5, <1>6, <1>7 DEF NobodyOverlooked

\* The accounts that moved have their new nonces.
Settled(p, moved, st) == \A a \in moved : p.onchain_nonces[a] = st[a]

\* They keep them.
LEMMA StaysSettled ==
  ASSUME NEW p, NEW q, NEW st \in StateNonces, Learnt(p, q, st), NEW moved \in SUBSET Senders,
         Settled(p, moved, st)
  PROVE  Settled(q, moved, st)
BY DEF Learnt, Settled, StateNonces

\* Who is taken out is nowhere.
LEMMA PopKeeps ==
  ASSUME NEW p \in PoolSet, NEW q, NEW o, Pops(p, q, o)
  PROVE  /\ Consistent(p) => Consistent(q)
         /\ \A moved, dirty : Revalidating(p, moved, dirty) => Revalidating(q, moved, dirty \ {o})
         /\ WaitsAhead(p) => WaitsAhead(q)
         /\ \A moved : NobodyOverlooked(p, moved) => NobodyOverlooked(q, moved)
         /\ \A st : Agrees(p, st) => Agrees(q, st)
         /\ \A moved, st : Settled(p, moved, st) => Settled(q, moved, st)
<1>1. \A x : ReadyIn(p, x) <=> ReadyIn(q, x)
  BY DEF Pops, ReadyIn
<1>2. ASSUME NEW moved, NEW dirty, Listed(p, moved, dirty) PROVE Listed(q, moved, dirty \ {o})
  <2> SUFFICES ASSUME NEW a \in Senders
               PROVE  q.main_queue_nonces[a] =
                        {x \in q.main_queue : Uses(x, a) /\ ~(a \in moved /\ x \in dirty \ {o})}
    BY DEF Listed
  <2>1. p.main_queue_nonces[a] = {x \in p.main_queue : Uses(x, a) /\ ~(a \in moved /\ x \in dirty)}
    BY <1>2 DEF Listed
  <2>2. q.main_queue = p.main_queue \ {o}
    BY DEF Pops
  <2>3. q.main_queue_nonces[a] =
          IF Uses(o, a) THEN p.main_queue_nonces[a] \ {o} ELSE p.main_queue_nonces[a]
    BY DEF Pops
  <2> QED
    BY <2>1, <2>2, <2>3
<1>3. ASSUME Consistent(p) PROVE Consistent(q)
  <2>1. Listed(q, {}, {} \ {o})
    BY <1>2, <1>3 DEF Consistent
  <2>2. {} \ {o} = {}
    OBVIOUS
  <2>3. Listed(q, {}, {})
    BY <2>1, <2>2
  <2> QED
    BY <1>1, <1>3, <2>3 DEF Consistent, Pops
<1>4. ASSUME NEW moved, NEW dirty, Revalidating(p, moved, dirty)
      PROVE  Revalidating(q, moved, dirty \ {o})
  <2>1. Listed(q, moved, dirty \ {o})
    BY <1>2, <1>4 DEF Revalidating
  <2> QED
    BY <1>1, <1>4, <2>1 DEF Revalidating, Pops
<1> QED
  BY <1>3, <1>4 DEF Pops, WaitsAhead, NobodyOverlooked, Agrees, Settled

\* remove_order of an order that is pending leaves the queue alone.
LEMMA RemoveKeeps ==
  ASSUME NEW p \in PoolSet, NEW o, Consistent(p), WaitsAhead(p)
  PROVE  remove_order(p, o) \in PoolSet /\ Consistent(remove_order(p, o)) /\ WaitsAhead(remove_order(p, o))
<1>1. CASE o \in p.main_queue
  <2>1. remove_order(p, o) = pop_order(p, o)
    BY <1>1 DEF remove_order
  <2>2. Pops(p, pop_order(p, o), o)
    BY PopOrder
  <2>3. pop_order(p, o) \in PoolSet
    BY <2>2 DEF Pops
  <2> QED
    BY <2>1, <2>2, <2>3, PopKeeps
<1>2. CASE o \notin p.main_queue
  <2>1. PICK q : q = remove_order(p, o)
    OBVIOUS
  <2>2. q = [p EXCEPT !.orders = p.orders \ {o}]
    BY <1>2, <2>1 DEF remove_order, PoolSet
  <2>3. q \in PoolSet /\ q.main_queue = p.main_queue /\ q.orders = p.orders \ {o}
      /\ q.main_queue_nonces = p.main_queue_nonces
      /\ q.pending_orders = p.pending_orders /\ q.onchain_nonces = p.onchain_nonces
    BY <2>2 DEF PoolSet
  <2>4. Consistent(q)
    BY <1>2, <2>3 DEF Consistent, Listed, ReadyIn
  <2>5. WaitsAhead(q)
    BY <2>3 DEF WaitsAhead
  <2> QED
    BY <2>1, <2>3, <2>4, <2>5
<1> QED
  BY <1>1, <1>2

\* Pools in the middle of update_onchain_nonces: `moved` have their new nonces, `dirty`
\* are to be revalidated, nobody is woken yet.
RevalidatingPools(st, moved, dirty, agreed) ==
  {r \in PoolSet : /\ Revalidating(r, moved, dirty) /\ NobodyOverlooked(r, moved)
                   /\ Settled(r, moved, st) /\ (agreed => Agrees(r, st))}

\* One order is revalidated.
LEMMA RevalidateOne ==
  ASSUME NEW st \in StateNonces, NEW moved \in SUBSET Senders, NEW dirty \in SUBSET BundleIds,
         NEW agreed, NEW o \in dirty, NEW p \in RevalidatingPools(st, moved, dirty, agreed)
  PROVE  revalidate(p, o, st) \in RevalidatingPools(st, moved, dirty \ {o}, agreed)
<1>1. p \in PoolSet /\ Revalidating(p, moved, dirty) /\ NobodyOverlooked(p, moved)
      /\ Settled(p, moved, st) /\ (agreed => Agrees(p, st))
  BY DEF RevalidatingPools
<1>2. PICK q : q = pop_order(p, o)
  OBVIOUS
<1>3. Pops(p, q, o)
  BY <1>1, <1>2, PopOrder
<1>4. q \in PoolSet
  BY <1>3 DEF Pops
<1>5. Revalidating(q, moved, dirty \ {o}) /\ NobodyOverlooked(q, moved)
      /\ Settled(q, moved, st) /\ (agreed => Agrees(q, st))
  BY <1>1, <1>3, PopKeeps
<1>6. PICK n : n = insert_order(q, o, st)
  OBVIOUS
<1>7. o \in BundleIds
  OBVIOUS
<1>8. Inserts(q, n, o, st)
  BY <1>4, <1>6, <1>7, InsertOrder
<1>9. n \in PoolSet /\ Learnt(q, n, st)
  BY <1>8 DEF Inserts
<1>10. PICK rest : rest = dirty \ {o}
  OBVIOUS
<1>11. o \notin rest /\ Revalidating(q, moved, rest)
  BY <1>5, <1>10
<1>12. Revalidating(n, moved, rest)
  BY <1>4, <1>7, <1>8, <1>11, InsertKeepsDirty
<1>13. NobodyOverlooked(n, moved) /\ (agreed => Agrees(n, st))
  BY <1>4, <1>5, <1>7, <1>8, InsertKeepsWaiting
<1>14. Settled(n, moved, st)
  BY <1>5, <1>9, StaysSettled
<1>15. revalidate(p, o, st) \in {q, n}
  BY <1>2, <1>6 DEF revalidate
<1> QED
  BY <1>4, <1>5, <1>9, <1>10, <1>12, <1>13, <1>14, <1>15 DEF RevalidatingPools

\* Pools in the middle of a wake: `woken` are to be inserted again.
WakingPools(st, moved, sleeping, woken, agreed) ==
  {r \in PoolSet : /\ Waking(r, woken) /\ NobodyOverlooked(r, sleeping)
                   /\ Settled(r, moved, st) /\ (agreed => Agrees(r, st))}

\* One of them is.
LEMMA InsertOne ==
  ASSUME NEW st \in StateNonces, NEW moved \in SUBSET Senders, NEW sleeping, NEW woken,
         NEW agreed, NEW o \in BundleIds, NEW p \in WakingPools(st, moved, sleeping, woken, agreed)
  PROVE  insert_order(p, o, st) \in WakingPools(st, moved, sleeping, woken \ {o}, agreed)
<1>1. p \in PoolSet /\ Waking(p, woken) /\ NobodyOverlooked(p, sleeping)
      /\ Settled(p, moved, st) /\ (agreed => Agrees(p, st))
  BY DEF WakingPools
<1>2. PICK n : n = insert_order(p, o, st)
  OBVIOUS
<1>3. Inserts(p, n, o, st)
  BY <1>1, <1>2, InsertOrder
<1>4. n \in PoolSet /\ Learnt(p, n, st)
  BY <1>3 DEF Inserts
<1>5. Waking(n, woken \ {o})
  BY <1>1, <1>3, InsertKeeps
<1>6. NobodyOverlooked(n, sleeping) /\ (agreed => Agrees(n, st))
  BY <1>1, <1>3, InsertKeepsWaiting
<1>7. Settled(n, moved, st)
  BY <1>1, <1>4, StaysSettled
<1> QED
  BY <1>2, <1>4, <1>5, <1>6, <1>7 DEF WakingPools

\* The orders that wait for the nonce of one account are woken.
LEMMA WakeOne ==
  ASSUME NEW st \in StateNonces, NEW moved \in SUBSET Senders, NEW sleeping, NEW agreed,
         NEW a \in moved, NEW p \in WakingPools(st, moved, sleeping, {}, agreed)
  PROVE  wake(p, <<a, st[a]>>, st) \in WakingPools(st, moved, sleeping \ {a}, {}, agreed)
<1>1. p \in PoolSet /\ Waking(p, {}) /\ NobodyOverlooked(p, sleeping)
      /\ Settled(p, moved, st) /\ (agreed => Agrees(p, st))
  BY DEF WakingPools
<1>2. PICK key : key = <<a, st[a]>>
  OBVIOUS
<1>3. PICK woken : woken = p.pending_orders[key] \cap p.orders
  OBVIOUS
<1>4. woken \in SUBSET BundleIds /\ woken \subseteq p.orders
  BY <1>1, <1>3 DEF PoolSet
<1>5. IsFiniteSet(woken)
  BY <1>4, PrioConstants, FS_Subset DEF BundleIds
<1>6. PICK q : q = [p EXCEPT !.pending_orders[key] = {}, !.orders = @ \ woken]
  OBVIOUS
<1>7. wake(p, key, st) = Inserted(q, woken, st)
  BY <1>3, <1>6, Zenon DEF wake, Inserted
<1>8. [p.pending_orders EXCEPT ![key] = {}] \in [NonceKeys -> SUBSET BundleIds]
  BY <1>1 DEF PoolSet
<1>9. q \in PoolSet /\ q.main_queue = p.main_queue /\ q.orders = p.orders \ woken
      /\ q.main_queue_nonces = p.main_queue_nonces
      /\ q.pending_orders = [p.pending_orders EXCEPT ![key] = {}] /\ q.onchain_nonces = p.onchain_nonces
  BY <1>1, <1>6, <1>8 DEF PoolSet
<1>10. Waking(q, woken)
  <2>1. q.main_queue \subseteq q.orders \cup woken
    BY <1>1, <1>9 DEF Waking
  <2>2. Listed(q, {}, {})
    BY <1>1, <1>9 DEF Waking, Listed
  <2>3. \A o \in q.main_queue : ReadyIn(q, o)
    BY <1>1, <1>9 DEF Waking, ReadyIn
  <2> QED
    BY <2>1, <2>2, <2>3 DEF Waking
<1>11. NobodyOverlooked(q, sleeping \ {a})
  <2> SUFFICES ASSUME NEW k \in NonceKeys, q.pending_orders[k] # {}
               PROVE  /\ q.onchain_nonces[k[1]] # Unknown
                      /\ k[1] \in sleeping \ {a} \/ q.onchain_nonces[k[1]] # k[2]
    BY DEF NobodyOverlooked
  <2>1. DOMAIN p.pending_orders = NonceKeys
    BY <1>1 DEF PoolSet
  <2>2. k # key /\ q.pending_orders[k] = p.pending_orders[k]
    BY <1>9, <2>1
  <2>3. /\ p.onchain_nonces[k[1]] # Unknown
        /\ k[1] \in sleeping \/ p.onchain_nonces[k[1]] # k[2]
    BY <1>1, <2>2 DEF NobodyOverlooked
  <2>4. k = <<k[1], k[2]>>
    BY DEF NonceKeys
  <2>5. CASE k[1] = a
    <3>1. p.onchain_nonces[a] = st[a]
      BY <1>1 DEF Settled
    <3>2. k[2] # st[a]
      BY <1>2, <2>2, <2>4, <2>5
    <3> QED
      BY <1>9, <2>3, <2>5, <3>1, <3>2
  <2> QED
    BY <1>9, <2>3, <2>5
<1>12. Settled(q, moved, st) /\ (agreed => Agrees(q, st))
  BY <1>1, <1>9 DEF Settled, Agrees
<1>13. PICK left : left = sleeping \ {a}
  OBVIOUS
<1> DEFINE J == [s \in SUBSET woken |-> WakingPools(st, moved, left, woken \ s, agreed)]
<1>14. q \in J[{}]
  BY <1>9, <1>10, <1>11, <1>12, <1>13 DEF WakingPools
<1>15. Turns("insert", st, woken, J)
  <2> SUFFICES ASSUME NEW s \in SUBSET woken, s # {}, NEW r \in J[s \ {Chosen(s)}]
               PROVE  SetStep("insert", st, r, Chosen(s)) \in J[s]
    BY DEF Turns
  <2>1. PICK o : o = Chosen(s)
    OBVIOUS
  <2>2. o \in s /\ o \in BundleIds
    BY <1>4, <2>1 DEF Chosen
  <2>3. PICK before : before = woken \ (s \ {o})
    OBVIOUS
  <2>4. s \ {o} \in SUBSET woken
    OBVIOUS
  <2>5. r \in WakingPools(st, moved, left, before, agreed)
    BY <2>1, <2>3, <2>4
  <2> HIDE DEF J
  <2>6. insert_order(r, o, st) \in WakingPools(st, moved, left, before \ {o}, agreed)
    BY <2>2, <2>5, InsertOne
  <2>7. before \ {o} = woken \ s
    BY <2>2, <2>3
  <2>8. SetStep("insert", st, r, o) = insert_order(r, o, st)
    BY DEF SetStep
  <2>9. J[s] = WakingPools(st, moved, left, woken \ s, agreed)
    BY DEF J
  <2> QED
    BY <2>1, <2>6, <2>7, <2>8, <2>9
<1> HIDE DEF J
<1>16. Inserted(q, woken, st) \in J[woken]
  BY <1>5, <1>14, <1>15, InsertFold
<1>17. J[woken] = WakingPools(st, moved, left, {}, agreed)
  <2>1. woken \ woken = {}
    OBVIOUS
  <2> QED
    BY <2>1 DEF J
<1> QED
  BY <1>2, <1>7, <1>13, <1>16, <1>17

\* The nonces agree with the state but for the accounts that moved.
AgreesBut(p, st, moved) == \A a \in Senders \ moved : p.onchain_nonces[a] \in {Unknown, st[a]}

\* update_onchain_nonces.
LEMMA UpdateKeeps ==
  ASSUME NEW p \in PoolSet, Consistent(p), NobodyOverlooked(p, {}), NEW st \in StateNonces,
         NEW moved \in SUBSET Senders
  PROVE  LET n == update_onchain_nonces(p, moved, st)
         IN n \in PoolSet /\ Consistent(n) /\ NobodyOverlooked(n, {})
            /\ (AgreesBut(p, st, moved) => Agrees(n, st))
<1> DEFINE agreed == AgreesBut(p, st, moved)
           now == [a \in Senders |-> IF a \in moved THEN st[a] ELSE p.onchain_nonces[a]]
           listed == [a \in Senders |-> IF a \in moved THEN {} ELSE p.main_queue_nonces[a]]
<1>1. PICK q : q = [p EXCEPT !.onchain_nonces = [a \in Senders |-> IF a \in moved THEN st[a] ELSE @[a]],
                     !.main_queue_nonces = [a \in Senders |-> IF a \in moved THEN {} ELSE @[a]]]
  OBVIOUS
<1>2. PICK dirty : dirty = UNION {p.main_queue_nonces[a] : a \in moved}
  OBVIOUS
<1>3. PICK valid : valid = Revalidated(q, dirty, st)
  OBVIOUS
<1>4. update_onchain_nonces(p, moved, st) = Awake(valid, moved, st)
  BY <1>1, <1>2, <1>3, Zenon DEF update_onchain_nonces, Revalidated, Awake
<1>5. q = [p EXCEPT !.onchain_nonces = now, !.main_queue_nonces = listed]
  BY <1>1 DEF PoolSet
<1>6. now \in [Senders -> Nat \cup {Unknown}] /\ listed \in [Senders -> SUBSET BundleIds]
  BY DEF PoolSet, StateNonces
<1>7. q \in PoolSet /\ q.main_queue = p.main_queue /\ q.orders = p.orders
      /\ q.main_queue_nonces = listed /\ q.onchain_nonces = now
      /\ q.pending_orders = p.pending_orders
  BY <1>5, <1>6 DEF PoolSet
<1>8. \A a \in Senders : p.main_queue_nonces[a] = {o \in p.main_queue : Uses(o, a)}
  BY DEF Consistent, Listed
<1>9. dirty = {o \in p.main_queue : \E a \in moved : Uses(o, a)}
  BY <1>2, <1>8
<1>10. dirty \in SUBSET BundleIds /\ IsFiniteSet(dirty)
  <2>1. dirty \in SUBSET BundleIds
    BY <1>9 DEF PoolSet
  <2> QED
    BY <2>1, PrioConstants, FS_Subset DEF BundleIds
<1>11. Revalidating(q, moved, dirty)
  <2>1. dirty \subseteq q.main_queue /\ q.main_queue \subseteq q.orders
    BY <1>7, <1>9 DEF Consistent
  <2>2. ASSUME NEW a \in Senders
        PROVE  q.main_queue_nonces[a] = {o \in q.main_queue : Uses(o, a) /\ ~(a \in moved /\ o \in dirty)}
    BY <1>7, <1>8, <1>9
  <2>3. ASSUME NEW o \in q.main_queue \ dirty PROVE ReadyIn(q, o)
    <3> SUFFICES ASSUME NEW tx \in nonces(o), ~tx.optional
                 PROVE  q.onchain_nonces[tx.account] = tx.nonce
      BY DEF ReadyIn
    <3>1. o \in BundleIds /\ o \in p.main_queue
      BY <1>7 DEF PoolSet
    <3>2. tx.account \in Senders
      BY <3>1, NonceTypes
    <3>3. tx.account \notin moved
      BY <1>9, <2>3, <3>1 DEF Uses
    <3>4. p.onchain_nonces[tx.account] = tx.nonce
      BY <3>1 DEF Consistent, ReadyIn
    <3> QED
      BY <1>7, <3>2, <3>3, <3>4
  <2>4. Listed(q, moved, dirty)
    BY <2>2 DEF Listed
  <2> QED
    BY <2>1, <2>3, <2>4 DEF Revalidating
<1>12. NobodyOverlooked(q, moved)
  <2> SUFFICES ASSUME NEW k \in NonceKeys, q.pending_orders[k] # {}
               PROVE  q.onchain_nonces[k[1]] # Unknown /\ (k[1] \in moved \/ q.onchain_nonces[k[1]] # k[2])
    BY DEF NobodyOverlooked
  <2>1. k[1] \in Senders
    BY DEF NonceKeys
  <2>2. p.onchain_nonces[k[1]] # Unknown /\ p.onchain_nonces[k[1]] # k[2]
    BY <1>7 DEF NobodyOverlooked
  <2>3. st[k[1]] # Unknown
    BY <2>1 DEF StateNonces, Unknown
  <2> QED
    BY <1>7, <2>1, <2>2, <2>3
<1>13. Settled(q, moved, st)
  BY <1>7 DEF Settled
<1>14. agreed => Agrees(q, st)
  BY <1>7 DEF Agrees, AgreesBut
<1> HIDE DEF agreed
<1>15. valid \in RevalidatingPools(st, moved, {}, agreed)
  <2> DEFINE J == [s \in SUBSET dirty |-> RevalidatingPools(st, moved, dirty \ s, agreed)]
  <2>1. q \in J[{}]
    BY <1>7, <1>11, <1>12, <1>13, <1>14 DEF RevalidatingPools
  <2>2. Turns("revalidate", st, dirty, J)
    <3> SUFFICES ASSUME NEW s \in SUBSET dirty, s # {}, NEW r \in J[s \ {Chosen(s)}]
                 PROVE  SetStep("revalidate", st, r, Chosen(s)) \in J[s]
      BY DEF Turns
    <3>1. PICK o : o = Chosen(s)
      OBVIOUS
    <3>2. o \in s
      BY <3>1 DEF Chosen
    <3>3. PICK before : before = dirty \ (s \ {o})
      OBVIOUS
    <3>4. s \ {o} \in SUBSET dirty /\ o \in before /\ before \in SUBSET BundleIds
      BY <1>10, <3>2, <3>3
    <3>5. r \in RevalidatingPools(st, moved, before, agreed)
      BY <3>1, <3>3, <3>4
    <3> HIDE DEF J
    <3>6. revalidate(r, o, st) \in RevalidatingPools(st, moved, before \ {o}, agreed)
      BY <3>4, <3>5, RevalidateOne
    <3>7. before \ {o} = dirty \ s
      BY <3>2, <3>3
    <3>8. SetStep("revalidate", st, r, o) = revalidate(r, o, st)
      BY DEF SetStep
    <3>9. J[s] = RevalidatingPools(st, moved, dirty \ s, agreed)
      BY DEF J
    <3> QED
      BY <3>1, <3>6, <3>7, <3>8, <3>9
  <2> HIDE DEF J
  <2>3. valid \in J[dirty]
    BY <1>3, <1>10, <2>1, <2>2, RevalidateFold
  <2>4. J[dirty] = RevalidatingPools(st, moved, {}, agreed)
    <3>1. dirty \ dirty = {}
      OBVIOUS
    <3> QED
      BY <3>1 DEF J
  <2> QED
    BY <2>3, <2>4
<1>16. valid \in WakingPools(st, moved, moved, {}, agreed)
  <2>1. valid \in PoolSet /\ Revalidating(valid, moved, {}) /\ NobodyOverlooked(valid, moved)
        /\ Settled(valid, moved, st) /\ (agreed => Agrees(valid, st))
    BY <1>15 DEF RevalidatingPools
  <2>2. Listed(valid, {}, {})
    BY <2>1 DEF Revalidating, Listed
  <2>3. Waking(valid, {})
    BY <2>1, <2>2 DEF Revalidating, Waking
  <2> QED
    BY <2>1, <2>3 DEF WakingPools
<1>17. IsFiniteSet(moved)
  BY PrioConstants, FS_Subset
<1>18. Awake(valid, moved, st) \in WakingPools(st, moved, {}, {}, agreed)
  <2> DEFINE J == [s \in SUBSET moved |-> WakingPools(st, moved, moved \ s, {}, agreed)]
  <2>1. valid \in J[{}]
    <3>1. moved \ {} = moved
      OBVIOUS
    <3> QED
      BY <1>16, <3>1
  <2>2. Turns("wake", st, moved, J)
    <3> SUFFICES ASSUME NEW s \in SUBSET moved, s # {}, NEW r \in J[s \ {Chosen(s)}]
                 PROVE  SetStep("wake", st, r, Chosen(s)) \in J[s]
      BY DEF Turns
    <3>1. PICK a : a = Chosen(s)
      OBVIOUS
    <3>2. a \in s /\ a \in moved
      BY <3>1 DEF Chosen
    <3>3. PICK before : before = moved \ (s \ {a})
      OBVIOUS
    <3>4. s \ {a} \in SUBSET moved
      OBVIOUS
    <3>5. r \in WakingPools(st, moved, before, {}, agreed)
      BY <3>1, <3>3, <3>4
    <3> HIDE DEF J
    <3>6. wake(r, <<a, st[a]>>, st) \in WakingPools(st, moved, before \ {a}, {}, agreed)
      BY <3>2, <3>5, WakeOne
    <3>7. before \ {a} = moved \ s
      BY <3>2, <3>3
    <3>8. SetStep("wake", st, r, a) = wake(r, <<a, st[a]>>, st)
      BY DEF SetStep
    <3>9. J[s] = WakingPools(st, moved, moved \ s, {}, agreed)
      BY DEF J
    <3> QED
      BY <3>1, <3>6, <3>7, <3>8, <3>9
  <2> HIDE DEF J
  <2>3. Awake(valid, moved, st) \in J[moved]
    BY <1>17, <2>1, <2>2, WakeFold
  <2>4. J[moved] = WakingPools(st, moved, {}, {}, agreed)
    <3>1. moved \ moved = {}
      OBVIOUS
    <3> QED
      BY <3>1 DEF J
  <2> QED
    BY <2>3, <2>4
<1>19. PICK n : n = Awake(valid, moved, st)
  OBVIOUS
<1>20. n \in PoolSet /\ Waking(n, {}) /\ NobodyOverlooked(n, {}) /\ (agreed => Agrees(n, st))
  BY <1>18, <1>19 DEF WakingPools
<1>21. Consistent(n)
  BY <1>20 DEF Waking, Consistent
<1> QED
  BY <1>4, <1>19, <1>20, <1>21 DEF agreed

(***************************************************************************)
(* Folds over sequences                                                    *)
(***************************************************************************)

\* Non-empty sets of naturals that are bounded have a greatest element.
LEMMA MaxOf ==
  ASSUME NEW m \in Nat, NEW s \in SUBSET (0..m), s # {}
  PROVE  Max(s) \in s /\ \A y \in s : y <= Max(s)
<1> DEFINE T == {m - x : x \in s}
<1>1. T \in SUBSET Nat /\ T # {}
  <2>1. \A x \in s : m - x \in Nat
    OBVIOUS
  <2>2. T \in SUBSET Nat
    BY <2>1
  <2>3. T # {}
    OBVIOUS
  <2> QED
    BY <2>2, <2>3
<1> HIDE DEF T
<1>2. PICK z \in T : \A y \in T : z <= y
  BY <1>1, LeastNat
<1>3. PICK x \in s : z = m - x
  BY <1>2 DEF T
<1>4. \A y \in s : x >= y
  <2> TAKE y \in s
  <2>1. m - y \in T
    BY DEF T
  <2> QED
    BY <1>2, <1>3, <2>1
<1>5. Max(s) \in s /\ \A y \in s : Max(s) >= y
  BY <1>4 DEF Max
<1> QED
  BY <1>5

\* The three folds over sequences, by name.
FoldStep(fold, p, s, x) ==
  CASE fold = "apply"   -> apply_transaction(s, x, p)
    [] fold = "execute" -> execute_transaction(s, x, p)
    [] fold = "all"     -> execute_next(s, x)

\* The equation that the function inside a fold satisfies.
Folds(fold, p, b, seq, m, it) ==
  it = [s \in SUBSET (1..m) |->
          IF s = {} THEN b ELSE FoldStep(fold, p, it[s \ {Max(s)}], seq[Max(s)])]

\* A function that satisfies it exists ...
LEMMA FoldExists ==
  ASSUME NEW fold, NEW p, NEW b, NEW seq, NEW n \in Nat
  PROVE  \E it : Folds(fold, p, b, seq, n, it)
<1> DEFINE T == {m \in Nat : \E it : Folds(fold, p, b, seq, m, it)}
<1>1. 0 \in T
  <2> DEFINE it0 == [s \in SUBSET (1..0) |-> b]
  <2>1. \A s \in SUBSET (1..0) : s = {}
    OBVIOUS
  <2>2. Folds(fold, p, b, seq, 0, it0)
    BY <2>1 DEF Folds
  <2> QED
    BY <2>2
<1>2. ASSUME NEW m \in T PROVE m + 1 \in T
  <2>1. m \in Nat /\ m + 1 \in Nat
    OBVIOUS
  <2>2. PICK it : Folds(fold, p, b, seq, m, it)
    OBVIOUS
  <2> DEFINE new == [s \in SUBSET (1..(m + 1)) |->
                       IF s = {} THEN b ELSE FoldStep(fold, p, it[s \ {Max(s)}], seq[Max(s)])]
  <2>3. \A s \in SUBSET (1..m) : s \in SUBSET (1..(m + 1)) /\ new[s] = it[s]
    <3>1. \A x \in 1..m : x \in 1..(m + 1)
      BY <2>1
    <3>2. ASSUME NEW s \in SUBSET (1..m) PROVE s \in SUBSET (1..(m + 1)) /\ new[s] = it[s]
      <4>1. s \in SUBSET (1..(m + 1))
        BY <3>1
      <4>2. it[s] = IF s = {} THEN b ELSE FoldStep(fold, p, it[s \ {Max(s)}], seq[Max(s)])
        BY <2>2 DEF Folds
      <4> QED
        BY <4>1, <4>2
    <3> QED
      BY <3>2
  <2>4. ASSUME NEW s \in SUBSET (1..(m + 1)), s # {} PROVE s \ {Max(s)} \in SUBSET (1..m)
    <3>1. s \in SUBSET (0..(m + 1))
      BY <2>1
    <3>2. Max(s) \in s /\ \A y \in s : y <= Max(s)
      BY <2>1, <3>1, <2>4, MaxOf
    <3>3. \A y \in s : y \in 1..(m + 1) /\ y <= Max(s) /\ Max(s) \in 1..(m + 1)
      BY <3>2
    <3>4. \A y \in s : y # Max(s) => y \in 1..m
      BY <2>1, <3>3
    <3> QED
      BY <3>4
  <2>5. \A s \in SUBSET (1..(m + 1)) : s # {} => new[s \ {Max(s)}] = it[s \ {Max(s)}]
    BY <2>3, <2>4
  <2>6. \A s \in SUBSET (1..(m + 1)) :
          new[s] = IF s = {} THEN b ELSE FoldStep(fold, p, it[s \ {Max(s)}], seq[Max(s)])
    OBVIOUS
  <2>7. \A s \in SUBSET (1..(m + 1)) :
          new[s] = IF s = {} THEN b ELSE FoldStep(fold, p, new[s \ {Max(s)}], seq[Max(s)])
    BY <2>5, <2>6
  <2>8. new = [s \in SUBSET (1..(m + 1)) |-> new[s]]
    OBVIOUS
  <2> HIDE DEF new
  <2>9. Folds(fold, p, b, seq, m + 1, new)
    BY <2>7, <2>8 DEF Folds
  <2> QED
    BY <2>1, <2>9
<1>3. T \in SUBSET Nat
  OBVIOUS
<1> HIDE DEF T
<1>4. T = Nat
  BY <1>1, <1>2, <1>3, NatSetInduction
<1> QED
  BY <1>4 DEF T

\* The values from one element of the sequence to the next.
Trace(fold, p, b, seq, n, g) ==
  /\ g[0] = b
  /\ \A k \in 1..n : g[k] = FoldStep(fold, p, g[k - 1], seq[k])

\* ... and gives the values between one element of the sequence and the next.
LEMMA FoldTrace ==
  ASSUME NEW fold, NEW p, NEW b, NEW seq, NEW n \in Nat, NEW it,
         Folds(fold, p, b, seq, n, it)
  PROVE  \E g : Trace(fold, p, b, seq, n, g) /\ g[n] = it[1..n]
<1> DEFINE g == [k \in 0..n |-> it[1..k]]
<1>1. g[0] = b
  <2>1. 1..0 = {} /\ {} \in SUBSET (1..n)
    OBVIOUS
  <2> QED
    BY <2>1 DEF Folds
<1>2. ASSUME NEW k \in 1..n PROVE g[k] = FoldStep(fold, p, g[k - 1], seq[k])
  <2>1. 1..k \in SUBSET (1..n) /\ 1..k # {} /\ 1..k \in SUBSET (0..k) /\ k \in Nat /\ k - 1 \in 0..n /\ k \in 0..n
    OBVIOUS
  <2>2. Max(1..k) \in 1..k /\ \A y \in 1..k : y <= Max(1..k)
    BY <2>1, MaxOf
  <2>3. Max(1..k) = k
    BY <2>1, <2>2
  <2>4. (1..k) \ {k} = 1..(k - 1)
    BY <2>1
  <2>5. it[1..k] = FoldStep(fold, p, it[(1..k) \ {Max(1..k)}], seq[Max(1..k)])
    BY <2>1 DEF Folds
  <2> QED
    BY <2>1, <2>3, <2>4, <2>5
<1>3. g[n] = it[1..n]
  OBVIOUS
<1> QED
  BY <1>1, <1>2, <1>3 DEF Trace

AppliedAll(sq, b, failing) == FoldLeft(LAMBDA m, tx : apply_transaction(m, tx, failing), b, sq)

\* A bundle is applied one transaction after the other.
LEMMA ApplyFold ==
  ASSUME NEW failing, NEW b, NEW sq, NEW n \in Nat, DOMAIN sq = 1..n
  PROVE  \E g : /\ g[0] = b
                /\ \A k \in 1..n : g[k] = apply_transaction(g[k - 1], sq[k], failing)
                /\ g[n] = AppliedAll(sq, b, failing)
<1> DEFINE p == failing
           seq == sq
           Eq(it) == it = [s \in SUBSET (1..n) |-> IF s = {} THEN b
                             ELSE apply_transaction(it[s \ {Max(s)}], seq[Max(s)], failing)]
           itself == CHOOSE it : Eq(it)
<1>1. \A it : Folds("apply", p, b, seq, n, it) <=> Eq(it)
  BY DEF Folds, FoldStep
<1>2. \E it : Eq(it)
  BY <1>1, FoldExists
<1>3. Eq(itself)
  BY <1>2
<1>4. AppliedAll(sq, b, failing) = itself[1..n]
  BY DEF AppliedAll, FoldLeft, MapThenFoldSet
<1> HIDE DEF itself, seq, p
<1>5. Folds("apply", p, b, seq, n, itself)
  BY <1>1, <1>3
<1>6. PICK g : Trace("apply", p, b, seq, n, g) /\ g[n] = itself[1..n]
  BY <1>5, FoldTrace
<1>7. \A k \in 1..n : g[k] = apply_transaction(g[k - 1], sq[k], failing)
  BY <1>6 DEF Trace, FoldStep, p, seq
<1> QED
  BY <1>4, <1>6, <1>7 DEF Trace

ExecutedAll(sq, b, failing) == FoldLeft(LAMBDA m, tx : execute_transaction(m, tx, failing), b, sq)

\* An order is simulated one transaction after the other ...
LEMMA ExecuteFold ==
  ASSUME NEW failing, NEW b, NEW sq, NEW n \in Nat, DOMAIN sq = 1..n
  PROVE  \E g : /\ g[0] = b
                /\ \A k \in 1..n : g[k] = execute_transaction(g[k - 1], sq[k], failing)
                /\ g[n] = ExecutedAll(sq, b, failing)
<1> DEFINE p == failing
           seq == sq
           Eq(it) == it = [s \in SUBSET (1..n) |-> IF s = {} THEN b
                             ELSE execute_transaction(it[s \ {Max(s)}], seq[Max(s)], failing)]
           itself == CHOOSE it : Eq(it)
<1>1. \A it : Folds("execute", p, b, seq, n, it) <=> Eq(it)
  BY DEF Folds, FoldStep
<1>2. \E it : Eq(it)
  BY <1>1, FoldExists
<1>3. Eq(itself)
  BY <1>2
<1>4. ExecutedAll(sq, b, failing) = itself[1..n]
  BY DEF ExecutedAll, FoldLeft, MapThenFoldSet
<1> HIDE DEF itself, seq, p
<1>5. Folds("execute", p, b, seq, n, itself)
  BY <1>1, <1>3
<1>6. PICK g : Trace("execute", p, b, seq, n, g) /\ g[n] = itself[1..n]
  BY <1>5, FoldTrace
<1>7. \A k \in 1..n : g[k] = execute_transaction(g[k - 1], sq[k], failing)
  BY <1>6 DEF Trace, FoldStep, p, seq
<1> QED
  BY <1>4, <1>6, <1>7 DEF Trace

\* ... after its parents, one after the other.
LEMMA AllFold ==
  ASSUME NEW b, NEW sq, NEW n \in Nat, DOMAIN sq = 1..n
  PROVE  \E g : /\ g[0] = b
                /\ \A k \in 1..n : g[k] = execute_next(g[k - 1], sq[k])
                /\ g[n] = execute_all(sq, b)
<1> DEFINE p == 0
           seq == sq
           Eq(it) == it = [s \in SUBSET (1..n) |-> IF s = {} THEN b
                             ELSE execute_next(it[s \ {Max(s)}], seq[Max(s)])]
           itself == CHOOSE it : Eq(it)
<1>1. \A it : Folds("all", p, b, seq, n, it) <=> Eq(it)
  BY DEF Folds, FoldStep
<1>2. \E it : Eq(it)
  BY <1>1, FoldExists
<1>3. Eq(itself)
  BY <1>2
<1>4. execute_all(sq, b) = itself[1..n]
  BY DEF execute_all, FoldLeft, MapThenFoldSet
<1> HIDE DEF itself, seq, p
<1>5. Folds("all", p, b, seq, n, itself)
  BY <1>1, <1>3
<1>6. PICK g : Trace("all", p, b, seq, n, g) /\ g[n] = itself[1..n]
  BY <1>5, FoldTrace
<1>7. \A k \in 1..n : g[k] = execute_next(g[k - 1], sq[k])
  BY <1>6 DEF Trace, FoldStep, p, seq
<1> QED
  BY <1>4, <1>6, <1>7 DEF Trace

\* Applying a bundle gives nonces, unless it fails.
LEMMA AppliedType ==
  ASSUME NEW o \in BundleIds, NEW st \in StateNonces, NEW failing
  PROVE  applied(o, st, failing) \in StateNonces \cup {<< >>}
<1> DEFINE Tx == [account : Senders, nonce : 0..MaxTxNonce, optional : BOOLEAN, fee : Nat, gas : Nat]
<1>1. PrioOrders[o] \in Seq(Tx)
  BY PrioConstants DEF BundleIds
<1>2. PICK sq : sq = PrioOrders[o]
  OBVIOUS
<1> HIDE DEF Tx
<1>3. sq \in Seq(Tx) /\ Len(sq) \in Nat /\ DOMAIN sq = 1..Len(sq)
  BY <1>1, <1>2
<1>4. PICK n \in Nat : n = Len(sq)
  BY <1>3
<1>5. DOMAIN sq = 1..n
  BY <1>3, <1>4
<1>6. PICK g : /\ g[0] = st
               /\ \A k \in 1..n : g[k] = apply_transaction(g[k - 1], sq[k], failing)
               /\ g[n] = AppliedAll(sq, st, failing)
  BY <1>5, ApplyFold
<1> DEFINE T == {k \in Nat : k <= n => g[k] \in StateNonces \cup {<< >>}}
<1>7. 0 \in T
  BY <1>6
<1>8. ASSUME NEW k \in T PROVE k + 1 \in T
  <2> SUFFICES ASSUME k + 1 <= n PROVE g[k + 1] \in StateNonces \cup {<< >>}
    OBVIOUS
  <2>1. k \in Nat /\ k + 1 \in 1..n /\ (k + 1) - 1 = k /\ k <= n
    OBVIOUS
  <2>2. g[k + 1] = apply_transaction(g[k], sq[k + 1], failing)
    BY <1>6, <2>1
  <2>3. g[k] \in StateNonces \cup {<< >>}
    BY <2>1
  <2>4. sq[k + 1].account \in Senders
    <3>1. sq[k + 1] \in Tx
      BY <1>3, <1>4, <2>1
    <3> QED
      BY <3>1 DEF Tx
  <2>5. CASE g[k] = << >>
    BY <2>2, <2>5 DEF apply_transaction
  <2>6. CASE g[k] # << >>
    <3>1. g[k] \in StateNonces
      BY <2>3, <2>6
    <3>2. [g[k] EXCEPT ![sq[k + 1].account] = g[k][sq[k + 1].account] + 1] \in StateNonces
      BY <2>4, <3>1 DEF StateNonces
    <3> QED
      BY <2>2, <2>6, <3>1, <3>2 DEF apply_transaction
  <2> QED
    BY <2>5, <2>6
<1>9. T \in SUBSET Nat
  OBVIOUS
<1> HIDE DEF T
<1>10. T = Nat
  BY <1>7, <1>8, <1>9, NatSetInduction
<1>11. g[n] \in StateNonces \cup {<< >>}
  BY <1>10 DEF T
<1>12. applied(o, st, failing) = AppliedAll(sq, st, failing)
  BY <1>2, Zenon DEF applied, AppliedAll
<1> QED
  BY <1>6, <1>11, <1>12

(***************************************************************************)
(* The step that appends by priority                                       *)
(***************************************************************************)

PrioInv ==
  /\ prioritized_orderpool \in PoolSet /\ orderpool \in PoolSet
  /\ payload \in StateNonces /\ base \in StateNonces /\ source \in SUBSET BundleIds
  /\ Consistent(prioritized_orderpool) /\ Consistent(orderpool)
  /\ WaitsAhead(prioritized_orderpool) /\ NobodyOverlooked(orderpool, {})
  /\ running_step /\ fresh => Agrees(orderpool, payload)

\* An empty pool.
LEMMA DefaultPool ==
  Default \in PoolSet /\ Consistent(Default) /\ WaitsAhead(Default) /\ NobodyOverlooked(Default, {})
<1>1. Default \in PoolSet
  BY DEF Default, PoolSet
<1>2. Default.main_queue = {} /\ \A a \in Senders : Default.main_queue_nonces[a] = {}
  BY DEF Default
<1>3. \A k \in NonceKeys : Default.pending_orders[k] = {}
  BY DEF Default
<1>4. Listed(Default, {}, {})
  BY <1>2 DEF Listed
<1> QED
  BY <1>1, <1>2, <1>3, <1>4 DEF Consistent, WaitsAhead, NobodyOverlooked

\* Who waits for a later nonce is not overlooked.
LEMMA AheadIsNotOverlooked ==
  ASSUME NEW p \in PoolSet, WaitsAhead(p)
  PROVE  NobodyOverlooked(p, {})
<1> SUFFICES ASSUME NEW k \in NonceKeys, p.pending_orders[k] # {}
             PROVE  p.onchain_nonces[k[1]] # Unknown /\ p.onchain_nonces[k[1]] # k[2]
  BY DEF NobodyOverlooked
<1>1. k[1] \in Senders /\ k[2] \in Int
  BY DEF NonceKeys
<1>2. p.onchain_nonces[k[1]] \in Nat \cup {Unknown}
  BY <1>1 DEF PoolSet
<1>3. p.onchain_nonces[k[1]] # Unknown /\ p.onchain_nonces[k[1]] < k[2]
  BY DEF WaitsAhead
<1> QED
  BY <1>1, <1>2, <1>3

\* Pools between two steps.
KeptPools == {p \in PoolSet : Consistent(p) /\ WaitsAhead(p)}

\* Orders that are pulled from the source are inserted.
LEMMA PulledKeeps ==
  ASSUME NEW p \in KeptPools, NEW S \in SUBSET BundleIds, NEW st \in StateNonces
  PROVE  Inserted(p, S, st) \in KeptPools
<1> DEFINE J == [s \in SUBSET S |-> KeptPools]
<1>1. IsFiniteSet(S)
  BY PrioConstants, FS_Subset DEF BundleIds
<1>2. p \in J[{}]
  OBVIOUS
<1>3. ASSUME NEW q \in KeptPools, NEW o \in BundleIds PROVE insert_order(q, o, st) \in KeptPools
  <2>1. q \in PoolSet /\ Consistent(q) /\ WaitsAhead(q)
    BY DEF KeptPools
  <2>2. PICK n : n = insert_order(q, o, st)
    OBVIOUS
  <2>3. Inserts(q, n, o, st)
    BY <2>1, <2>2, InsertOrder
  <2>4. n \in PoolSet
    BY <2>3 DEF Inserts
  <2>5. Waking(q, {})
    BY <2>1 DEF Consistent, Waking
  <2>6. Waking(n, {} \ {o})
    BY <2>1, <2>3, <2>5, InsertKeeps
  <2>7. Consistent(n)
    BY <2>6 DEF Consistent, Waking
  <2>8. WaitsAhead(n)
    BY <2>1, <2>3, InsertKeepsWaiting
  <2> QED
    BY <2>2, <2>4, <2>7, <2>8 DEF KeptPools
<1>4. Turns("insert", st, S, J)
  <2> SUFFICES ASSUME NEW s \in SUBSET S, s # {}, NEW r \in J[s \ {Chosen(s)}]
               PROVE  SetStep("insert", st, r, Chosen(s)) \in J[s]
    BY DEF Turns
  <2>1. Chosen(s) \in BundleIds
    BY DEF Chosen
  <2>2. r \in KeptPools
    OBVIOUS
  <2>3. SetStep("insert", st, r, Chosen(s)) = insert_order(r, Chosen(s), st)
    BY DEF SetStep
  <2> QED
    BY <1>3, <2>1, <2>2, <2>3
<1> HIDE DEF J
<1>5. Inserted(p, S, st) \in J[S]
  BY <1>1, <1>2, <1>4, InsertFold
<1> QED
  BY <1>5 DEF J

\* All of it holds initially ...
LEMMA InitPrioInv == PrioInit => PrioInv
BY DefaultPool DEF PrioInit, PrioInv, BundleIds, StateNonces

\* ... and a step begins with it,
LEMMA BeginKeeps ==
  ASSUME PrioInv, NEW pulled \in SUBSET source, NEW start \in {payload, base}, BeginStep(pulled, start)
  PROVE  PrioInv'
<1>1. start \in StateNonces /\ pulled \in SUBSET BundleIds /\ prioritized_orderpool \in KeptPools
  BY DEF PrioInv, KeptPools
<1>2. PICK p : /\ p = Inserted(prioritized_orderpool, pulled, start)
               /\ prioritized_orderpool' = p /\ orderpool' = p
               /\ fresh' = (\A a \in Senders : p.onchain_nonces[a] \in {Unknown, start[a]})
  BY Zenon DEF BeginStep, Inserted
<1>3. p \in KeptPools
  BY <1>1, <1>2, PulledKeeps
<1>4. p \in PoolSet /\ Consistent(p) /\ WaitsAhead(p)
  BY <1>3 DEF KeptPools
<1>5. NobodyOverlooked(p, {})
  BY <1>4, AheadIsNotOverlooked
<1>6. payload' = start /\ source' = source \ pulled /\ base' = base
  BY DEF BeginStep
<1>7. fresh' => Agrees(p, start)
  BY <1>2 DEF Agrees
<1>8. (prioritized_orderpool \in PoolSet)' /\ (orderpool \in PoolSet)'
      /\ Consistent(prioritized_orderpool)' /\ Consistent(orderpool)'
      /\ WaitsAhead(prioritized_orderpool)' /\ NobodyOverlooked(orderpool, {})'
  BY <1>2, <1>4, <1>5
<1>9. (payload \in StateNonces)' /\ (base \in StateNonces)' /\ (source \in SUBSET BundleIds)'
  BY <1>1, <1>6 DEF PrioInv
<1>10. (running_step /\ fresh => Agrees(orderpool, payload))'
  BY <1>2, <1>6, <1>7
<1> QED
  BY <1>8, <1>9, <1>10 DEF PrioInv

\* goes on with it,
LEMMA ApplyKeeps ==
  ASSUME PrioInv, NEW o \in orderpool.main_queue, NEW failing, PopAndApply(o, failing)
  PROVE  PrioInv'
<1>1. orderpool \in PoolSet /\ payload \in StateNonces /\ o \in BundleIds
  BY DEF PrioInv, PoolSet
<1>2. PICK after : /\ after = applied(o, payload, failing) /\ after # << >>
                   /\ payload' = after
                   /\ orderpool' = update_onchain_nonces(pop_order(orderpool, o),
                                             changed_nonces(payload, after), after)
  BY DEF PopAndApply
<1>3. after \in StateNonces
  BY <1>1, <1>2, AppliedType
<1>4. PICK q : q = pop_order(orderpool, o)
  OBVIOUS
<1>5. Pops(orderpool, q, o)
  BY <1>1, <1>4, PopOrder
<1>6. q \in PoolSet
  BY <1>5 DEF Pops
<1>7. Consistent(q) /\ NobodyOverlooked(q, {}) /\ (Agrees(orderpool, payload) => Agrees(q, payload))
  BY <1>1, <1>5, PopKeeps DEF PrioInv
<1>8. PICK moved : moved = changed_nonces(payload, after)
  OBVIOUS
<1>9. moved \in SUBSET Senders
  BY <1>8 DEF changed_nonces
<1>10. PICK n : n = update_onchain_nonces(q, moved, after)
  OBVIOUS
<1>11. n \in PoolSet /\ Consistent(n) /\ NobodyOverlooked(n, {}) /\ (AgreesBut(q, after, moved) => Agrees(n, after))
  BY <1>3, <1>6, <1>7, <1>9, <1>10, UpdateKeeps
<1>12. Agrees(q, payload) => AgreesBut(q, after, moved)
  BY <1>8 DEF Agrees, AgreesBut, changed_nonces
<1>13. orderpool' = n
  BY <1>2, <1>4, <1>8, <1>10
<1>14. UNCHANGED <<prioritized_orderpool, source, base, running_step, fresh>>
  BY DEF PopAndApply
<1>15. (prioritized_orderpool \in PoolSet)' /\ Consistent(prioritized_orderpool)' /\ WaitsAhead(prioritized_orderpool)'
       /\ (base \in StateNonces)' /\ (source \in SUBSET BundleIds)'
  BY <1>14 DEF PrioInv
<1>16. (orderpool \in PoolSet)' /\ Consistent(orderpool)' /\ NobodyOverlooked(orderpool, {})'
  BY <1>11, <1>13
<1>17. (running_step /\ fresh => Agrees(orderpool, payload))'
  BY <1>2, <1>7, <1>11, <1>12, <1>13, <1>14 DEF PrioInv
<1> QED
  BY <1>2, <1>3, <1>15, <1>16, <1>17 DEF PrioInv

\* also when a bundle fails.
LEMMA FailKeeps ==
  ASSUME PrioInv, NEW o, PopAndFail(o)
  PROVE  PrioInv'
<1>1. orderpool \in PoolSet
  BY DEF PrioInv
<1>2. PICK q : q = pop_order(orderpool, o)
  OBVIOUS
<1>3. Pops(orderpool, q, o)
  BY <1>1, <1>2, PopOrder
<1>4. q \in PoolSet
  BY <1>3 DEF Pops
<1>5. Consistent(q) /\ NobodyOverlooked(q, {}) /\ (Agrees(orderpool, payload) => Agrees(q, payload))
  BY <1>1, <1>3, PopKeeps DEF PrioInv
<1>6. orderpool' = q
  BY <1>2 DEF PopAndFail
<1>7. UNCHANGED <<prioritized_orderpool, source, payload, base, running_step, fresh>>
  BY DEF PopAndFail
<1>8. (prioritized_orderpool \in PoolSet)' /\ Consistent(prioritized_orderpool)' /\ WaitsAhead(prioritized_orderpool)'
      /\ (base \in StateNonces)' /\ (source \in SUBSET BundleIds)' /\ (payload \in StateNonces)'
  BY <1>7 DEF PrioInv
<1>9. (orderpool \in PoolSet)' /\ Consistent(orderpool)' /\ NobodyOverlooked(orderpool, {})'
  BY <1>4, <1>5, <1>6
<1>10. (running_step /\ fresh => Agrees(orderpool, payload))'
  BY <1>5, <1>6, <1>7 DEF PrioInv
<1> QED
  BY <1>8, <1>9, <1>10 DEF PrioInv

\* The inductive invariant of the pool, of its copy and of the payload.
THEOREM PrioInvariance == PrioSpec => []PrioInv
<1>1. ASSUME PrioInv, [PrioNext]_prioVars
      PROVE  PrioInv'
  <2>1. CASE \E pulled \in SUBSET source, start \in {payload, base} : BeginStep(pulled, start)
    BY <1>1, <2>1, BeginKeeps
  <2>2. CASE \E o \in orderpool.main_queue : PopAndFail(o)
    BY <1>1, <2>2, FailKeeps
  <2>3. CASE \E o \in orderpool.main_queue :
               \E failing \in SUBSET {tx \in ToSet(PrioOrders[o]) : tx.optional} : PopAndApply(o, failing)
    BY <1>1, <2>3, ApplyKeeps
  <2>4. CASE EndStep
    <3>1. orderpool' = Default /\ ~fresh'
          /\ UNCHANGED <<prioritized_orderpool, source, payload, base>>
      BY <2>4 DEF EndStep
    <3>2. (orderpool \in PoolSet)' /\ Consistent(orderpool)' /\ NobodyOverlooked(orderpool, {})'
      BY <3>1, DefaultPool
    <3> QED
      BY <1>1, <3>1, <3>2 DEF PrioInv
  <2>5. CASE NextPayload
    BY <1>1, <2>5 DEF NextPayload, PrioInv
  <2>6. CASE \E o \in DOMAIN PrioOrders : RemoveOrder(o)
    <3>1. PICK o \in BundleIds : RemoveOrder(o)
      BY <2>6 DEF BundleIds
    <3>2. PICK q : q = remove_order(prioritized_orderpool, o)
      OBVIOUS
    <3>3. q \in PoolSet /\ Consistent(q) /\ WaitsAhead(q)
      BY <1>1, <3>2, RemoveKeeps DEF PrioInv
    <3>4. prioritized_orderpool' = q /\ source' = source \cup {o}
          /\ UNCHANGED <<orderpool, payload, base, running_step, fresh>>
      BY <3>1, <3>2 DEF RemoveOrder
    <3>5. (prioritized_orderpool \in PoolSet)' /\ Consistent(prioritized_orderpool)' /\ WaitsAhead(prioritized_orderpool)'
      BY <3>3, <3>4
    <3> QED
      BY <1>1, <3>4, <3>5 DEF PrioInv
  <2>7. CASE UNCHANGED prioVars
    BY <1>1, <2>7 DEF prioVars, PrioInv
  <2> QED
    BY <1>1, <2>1, <2>2, <2>3, <2>4, <2>5, <2>6, <2>7 DEF PrioNext
<1> QED
  BY <1>1, InitPrioInv, PTL DEF PrioSpec

\* QueueIsConsistent, for any orders: the lists by account are those of the orders in the
\* queue after every insert, removal and update of nonces.
THEOREM QueueAgrees == PrioSpec => []QueueIsConsistent
<1>1. ASSUME PrioInv PROVE QueueIsConsistent
  BY <1>1 DEF PrioInv, Consistent, Listed, Uses, QueueIsConsistent
<1> QED
  BY <1>1, PrioInvariance, PTL

\* ReadyByTheNoncesOfThePayload, for any orders, states and failures of optional
\* transactions: the copy of the pool follows the payload.
THEOREM ReadyFollowsThePayload == PrioSpec => []ReadyByTheNoncesOfThePayload
<1>1. ASSUME PrioInv PROVE ReadyByTheNoncesOfThePayload
  <2> SUFFICES ASSUME running_step, fresh
               PROVE  /\ \A a \in Senders : orderpool.onchain_nonces[a] \in {Unknown, payload[a]}
                      /\ \A o \in orderpool.main_queue : \A tx \in nonces(o) :
                           tx.optional \/ tx.nonce = payload[tx.account]
                      /\ \A k \in NonceKeys : orderpool.onchain_nonces[k[1]] = k[2] =>
                           orderpool.pending_orders[k] \cap orderpool.orders = {}
    BY DEF ReadyByTheNoncesOfThePayload
  <2>1. \A a \in Senders : orderpool.onchain_nonces[a] \in {Unknown, payload[a]}
    BY <1>1 DEF PrioInv, Agrees
  <2>2. ASSUME NEW o \in orderpool.main_queue, NEW tx \in nonces(o), ~tx.optional
        PROVE  tx.nonce = payload[tx.account]
    <3>1. o \in BundleIds
      BY <1>1 DEF PrioInv, PoolSet
    <3>2. tx.account \in Senders /\ tx.nonce \in Nat
      BY <3>1, NonceTypes
    <3>3. orderpool.onchain_nonces[tx.account] = tx.nonce
      BY <1>1, <2>2 DEF PrioInv, Consistent, ReadyIn
    <3> QED
      BY <2>1, <3>2, <3>3 DEF Unknown
  <2>3. \A k \in NonceKeys : orderpool.onchain_nonces[k[1]] = k[2] => orderpool.pending_orders[k] = {}
    BY <1>1 DEF PrioInv, NobodyOverlooked
  <2> QED
    BY <2>1, <2>2, <2>3
<1> QED
  BY <1>1, PrioInvariance, PTL

(***************************************************************************)
(* The simulation tree: what parents lead to                               *)
(***************************************************************************)

\* One more sequence comes behind all others.
LEMMA FlattenAppend ==
  ASSUME NEW S, NEW seqs \in Seq(Seq(S)), NEW s \in Seq(S)
  PROVE  /\ FlattenSeq(seqs) \in Seq(S)
         /\ FlattenSeq(Append(seqs, s)) = FlattenSeq(seqs) \o s
<1> DEFINE Eq(ss, m, f) == f = [i \in 1..m |-> IF i = 1 THEN ss[i] ELSE f[i - 1] \o ss[i]]
<1>1. ASSUME NEW ss, NEW n \in Nat
      PROVE  \E f : Eq(ss, n, f)
  <2> DEFINE T == {m \in Nat : \E f : Eq(ss, m, f)}
  <2>1. 0 \in T
    <3> DEFINE f0 == [i \in 1..0 |-> 0]
    <3>1. Eq(ss, 0, f0)
      OBVIOUS
    <3> QED
      BY <3>1
  <2>2. ASSUME NEW m \in T PROVE m + 1 \in T
    <3>1. m \in Nat /\ m + 1 \in Nat
      OBVIOUS
    <3>2. PICK f : Eq(ss, m, f)
      OBVIOUS
    <3> DEFINE g == [i \in 1..(m + 1) |-> IF i = 1 THEN ss[i] ELSE f[i - 1] \o ss[i]]
    <3>3. ASSUME NEW i \in 1..m PROVE i \in 1..(m + 1) /\ g[i] = f[i]
      <4>1. i \in 1..(m + 1)
        BY <3>1
      <4>2. f[i] = IF i = 1 THEN ss[i] ELSE f[i - 1] \o ss[i]
        BY <3>2
      <4> QED
        BY <4>1, <4>2
    <3>4. \A i \in 1..(m + 1) : i # 1 => i - 1 \in 1..m
      BY <3>1
    <3>5. \A i \in 1..(m + 1) : g[i] = IF i = 1 THEN ss[i] ELSE f[i - 1] \o ss[i]
      OBVIOUS
    <3>6. \A i \in 1..(m + 1) : g[i] = IF i = 1 THEN ss[i] ELSE g[i - 1] \o ss[i]
      BY <3>3, <3>4, <3>5
    <3>7. g = [i \in 1..(m + 1) |-> g[i]]
      OBVIOUS
    <3> HIDE DEF g
    <3>8. Eq(ss, m + 1, g)
      BY <3>6, <3>7
    <3> QED
      BY <3>1, <3>8
  <2>3. T \in SUBSET Nat
    OBVIOUS
  <2>4. T = Nat
    <3> HIDE DEF T
    <3> QED
      BY <2>1, <2>2, <2>3, NatSetInduction
  <2> QED
    BY <2>4
<1> DEFINE fl(ss) == CHOOSE f : Eq(ss, Len(ss), f)
<1>2. ASSUME NEW ss, Len(ss) \in Nat, Len(ss) # 0
      PROVE  /\ Eq(ss, Len(ss), fl(ss))
             /\ FlattenSeq(ss) = fl(ss)[Len(ss)]
  <2>1. \E f : Eq(ss, Len(ss), f)
    BY <1>1, <1>2
  <2>2. Eq(ss, Len(ss), fl(ss))
    BY <2>1
  <2>3. FlattenSeq(ss) = fl(ss)[Len(ss)]
    BY <1>2 DEF FlattenSeq
  <2> QED
    BY <2>2, <2>3
<1> HIDE DEF fl
<1> DEFINE n == Len(seqs)
           more == Append(seqs, s)
<1>3. /\ n \in Nat
      /\ Len(more) = n + 1
      /\ \A i \in 1..n : seqs[i] \in Seq(S) /\ more[i] = seqs[i]
      /\ more[n + 1] = s
  OBVIOUS
<1> HIDE DEF n, more
<1>4. CASE n = 0
  <2>1. seqs = << >>
    BY <1>4 DEF n
  <2>2. FlattenSeq(seqs) = << >>
    BY <2>1 DEF FlattenSeq
  <2>3. Eq(more, 1, fl(more)) /\ FlattenSeq(more) = fl(more)[1]
    <3>1. Len(more) = 1 /\ Len(more) \in Nat /\ Len(more) # 0
      BY <1>3, <1>4
    <3>2. Eq(more, Len(more), fl(more)) /\ FlattenSeq(more) = fl(more)[Len(more)]
      BY <1>2, <3>1
    <3> QED
      BY <3>1, <3>2
  <2>4. fl(more)[1] = s
    BY <1>3, <1>4, <2>3
  <2> QED
    BY <2>2, <2>3, <2>4 DEF more
<1>5. CASE n # 0
  <2>1. PICK f : Eq(seqs, n, f) /\ FlattenSeq(seqs) = f[n]
    BY <1>2, <1>3, <1>5 DEF n
  <2>2. PICK h : Eq(more, n + 1, h) /\ FlattenSeq(more) = h[n + 1]
    <3>1. Len(more) \in Nat /\ Len(more) # 0
      BY <1>3
    <3>2. Eq(more, Len(more), fl(more)) /\ FlattenSeq(more) = fl(more)[Len(more)]
      BY <1>2, <3>1
    <3>3. Eq(more, n + 1, fl(more)) /\ FlattenSeq(more) = fl(more)[n + 1]
      BY <1>3, <3>2
    <3> QED
      BY <3>3
  <2>3. \A i \in 1..n : f[i] = IF i = 1 THEN seqs[i] ELSE f[i - 1] \o seqs[i]
    BY <2>1
  <2>4. \A i \in 1..(n + 1) : h[i] = IF i = 1 THEN more[i] ELSE h[i - 1] \o more[i]
    BY <2>2
  <2> DEFINE T == {i \in Nat : i + 1 <= n => f[i + 1] = h[i + 1] /\ f[i + 1] \in Seq(S)}
  <2>5. 0 \in T
    <3>1. 1 \in 1..n /\ 1 \in 1..(n + 1)
      BY <1>3, <1>5
    <3> QED
      BY <1>3, <2>3, <2>4, <3>1
  <2>6. ASSUME NEW i \in T PROVE i + 1 \in T
    <3>1. i \in Nat /\ i + 1 \in Nat
      OBVIOUS
    <3> SUFFICES ASSUME (i + 1) + 1 <= n
                 PROVE  f[(i + 1) + 1] = h[(i + 1) + 1] /\ f[(i + 1) + 1] \in Seq(S)
      BY <3>1
    <3>2. PICK j : j = (i + 1) + 1
      OBVIOUS
    <3>3. /\ j \in 1..n /\ j \in 1..(n + 1) /\ j # 1 /\ j - 1 = i + 1 /\ i + 1 <= n
      BY <1>3, <3>1, <3>2
    <3>4. f[j - 1] = h[j - 1] /\ f[j - 1] \in Seq(S)
      BY <3>3
    <3>5. f[j] = f[j - 1] \o seqs[j] /\ h[j] = h[j - 1] \o more[j]
      BY <2>3, <2>4, <3>3
    <3>6. seqs[j] \in Seq(S) /\ more[j] = seqs[j]
      BY <1>3, <3>3
    <3>7. f[j] = h[j]
      BY <3>4, <3>5, <3>6
    <3>8. f[j] \in Seq(S)
      BY <3>4, <3>5, <3>6, ConcatProperties
    <3> QED
      BY <3>2, <3>7, <3>8
  <2>7. T \in SUBSET Nat
    OBVIOUS
  <2>8. T = Nat
    <3> HIDE DEF T
    <3> QED
      BY <2>5, <2>6, <2>7, NatSetInduction
  <2>9. n - 1 \in Nat /\ (n - 1) + 1 = n
    BY <1>3, <1>5
  <2>10. f[n] = h[n] /\ f[n] \in Seq(S)
    <3>1. n - 1 \in T
      <4> HIDE DEF T
      <4> QED
        BY <2>8, <2>9
    <3>2. n <= n
      BY <1>3
    <3> QED
      BY <2>9, <3>1, <3>2
  <2>11. n + 1 \in 1..(n + 1) /\ n + 1 # 1 /\ (n + 1) - 1 = n
    BY <1>3, <1>5
  <2>12. h[n + 1] = h[n] \o s
    BY <1>3, <2>4, <2>11
  <2> QED
    BY <2>1, <2>2, <2>10, <2>12 DEF more
<1> QED
  BY <1>4, <1>5

AllTrace(sq, b, g) == g[0] = b /\ \A k \in 1..Len(sq) : g[k] = execute_next(g[k - 1], sq[k])

\* There is one way to execute orders one after the other.
LEMMA AllIs ==
  ASSUME NEW S, NEW sq \in Seq(S), NEW b, NEW g, AllTrace(sq, b, g)
  PROVE  execute_all(sq, b) = g[Len(sq)]
<1>1. PICK n \in Nat : n = Len(sq)
  OBVIOUS
<1>2. DOMAIN sq = 1..n
  BY <1>1
<1>3. PICK h : /\ h[0] = b
               /\ \A k \in 1..n : h[k] = execute_next(h[k - 1], sq[k])
               /\ h[n] = execute_all(sq, b)
  BY <1>2, AllFold
<1> DEFINE T == {k \in Nat : k <= n => g[k] = h[k]}
<1>4. 0 \in T
  BY <1>3 DEF AllTrace
<1>5. ASSUME NEW k \in T PROVE k + 1 \in T
  <2> SUFFICES ASSUME k + 1 <= n PROVE g[k + 1] = h[k + 1]
    OBVIOUS
  <2>1. k \in Nat /\ k + 1 \in 1..n /\ (k + 1) - 1 = k /\ k <= n
    OBVIOUS
  <2>2. g[k] = h[k]
    BY <2>1
  <2>3. g[k + 1] = execute_next(g[k], sq[k + 1])
    BY <1>1, <2>1 DEF AllTrace
  <2>4. h[k + 1] = execute_next(h[k], sq[k + 1])
    BY <1>3, <2>1
  <2> QED
    BY <2>2, <2>3, <2>4
<1>6. T \in SUBSET Nat
  OBVIOUS
<1> HIDE DEF T
<1>7. T = Nat
  BY <1>4, <1>5, <1>6, NatSetInduction
<1>8. g[n] = h[n]
  BY <1>7 DEF T
<1> QED
  BY <1>1, <1>3, <1>8

\* Without orders nothing changes.
LEMMA AllNone ==
  ASSUME NEW b
  PROVE  execute_all(<< >>, b) = b
<1> DEFINE g == [k \in {0} |-> b]
<1>1. AllTrace(<< >>, b, g)
  BY DEF AllTrace
<1>2. << >> \in Seq({}) /\ Len(<< >>) = 0
  OBVIOUS
<1>3. g[0] = b
  OBVIOUS
<1> HIDE DEF g
<1>4. execute_all(<< >>, b) = g[Len(<< >>)]
  BY <1>1, <1>2, AllIs
<1> QED
  BY <1>2, <1>3, <1>4

\* One more order is executed behind the others.
LEMMA AllAppend ==
  ASSUME NEW S, NEW s \in Seq(S), NEW x \in S, NEW b
  PROVE  execute_all(Append(s, x), b) = execute_next(execute_all(s, b), x)
<1>1. PICK n \in Nat : n = Len(s)
  OBVIOUS
<1>2. DOMAIN s = 1..n
  BY <1>1
<1>3. PICK g : /\ g[0] = b
               /\ \A k \in 1..n : g[k] = execute_next(g[k - 1], s[k])
               /\ g[n] = execute_all(s, b)
  BY <1>2, AllFold
<1>4. PICK t : t = Append(s, x)
  OBVIOUS
<1>5. t \in Seq(S) /\ Len(t) = n + 1 /\ (\A i \in 1..n : t[i] = s[i]) /\ t[n + 1] = x
  BY <1>1, <1>4, AppendProperties
<1> DEFINE w == [k \in 0..(n + 1) |-> IF k <= n THEN g[k] ELSE execute_next(g[n], x)]
<1>6. w[0] = b
  BY <1>3
<1>7. ASSUME NEW k \in 1..(n + 1) PROVE w[k] = execute_next(w[k - 1], t[k])
  <2>1. CASE k \in 1..n
    <3>1. k - 1 \in 0..(n + 1) /\ k - 1 <= n /\ k <= n /\ k \in 0..(n + 1)
      BY <2>1
    <3> QED
      BY <1>3, <1>5, <2>1, <3>1
  <2>2. CASE k = n + 1
    <3>1. k - 1 = n /\ ~(k <= n) /\ n \in 0..(n + 1) /\ n <= n /\ k \in 0..(n + 1)
      BY <2>2
    <3>2. w[k] = execute_next(g[n], x) /\ w[k - 1] = g[n]
      BY <3>1
    <3> QED
      BY <1>5, <2>2, <3>2
  <2> QED
    BY <2>1, <2>2
<1>8. w[n + 1] = execute_next(g[n], x)
  OBVIOUS
<1> HIDE DEF w
<1>9. AllTrace(t, b, w)
  BY <1>5, <1>6, <1>7 DEF AllTrace
<1>10. execute_all(t, b) = w[Len(t)]
  BY <1>5, <1>9, AllIs
<1> QED
  BY <1>3, <1>4, <1>5, <1>8, <1>10

\* Orders behind other orders are executed from where those lead.
LEMMA AllConcat ==
  ASSUME NEW S, NEW s \in Seq(S), NEW t \in Seq(S), NEW b
  PROVE  execute_all(s \o t, b) = execute_all(t, execute_all(s, b))
<1>1. PICK n \in Nat, m \in Nat : n = Len(s) /\ m = Len(t)
  OBVIOUS
<1>2. DOMAIN s = 1..n /\ DOMAIN t = 1..m
  BY <1>1
<1>3. PICK g : /\ g[0] = b
               /\ \A k \in 1..n : g[k] = execute_next(g[k - 1], s[k])
               /\ g[n] = execute_all(s, b)
  BY <1>2, AllFold
<1>4. PICK mid : mid = execute_all(s, b)
  OBVIOUS
<1>5. PICK h : /\ h[0] = mid
               /\ \A k \in 1..m : h[k] = execute_next(h[k - 1], t[k])
               /\ h[m] = execute_all(t, mid)
  BY <1>2, AllFold
<1>6. PICK c : c = s \o t
  OBVIOUS
<1>7. c \in Seq(S) /\ Len(c) = n + m /\ \A i \in 1..(n + m) : c[i] = IF i <= n THEN s[i] ELSE t[i - n]
  BY <1>1, <1>6, ConcatProperties
<1> DEFINE w == [k \in 0..(n + m) |-> IF k <= n THEN g[k] ELSE h[k - n]]
<1>8. w[0] = b
  BY <1>3
<1>9. ASSUME NEW k \in 1..(n + m) PROVE w[k] = execute_next(w[k - 1], c[k])
  <2>1. k \in 0..(n + m) /\ k - 1 \in 0..(n + m)
    OBVIOUS
  <2>2. CASE k <= n
    <3>1. k - 1 <= n /\ k \in 1..n
      BY <2>2
    <3> QED
      BY <1>3, <1>7, <2>1, <2>2, <3>1
  <2>3. CASE ~(k <= n)
    <3>1. k - n \in 1..m /\ (k - n) - 1 = (k - 1) - n
      BY <2>3
    <3>2. h[k - n] = execute_next(h[(k - n) - 1], t[k - n])
      BY <1>5, <3>1
    <3>3. w[k - 1] = h[(k - n) - 1]
      <4>1. CASE k - 1 <= n
        <5>1. k - 1 = n /\ (k - n) - 1 = 0
          BY <2>3, <4>1
        <5> QED
          BY <1>3, <1>4, <1>5, <2>1, <4>1, <5>1
      <4>2. CASE ~(k - 1 <= n)
        BY <2>1, <3>1, <4>2
      <4> QED
        BY <4>1, <4>2
    <3> QED
      BY <1>7, <2>1, <2>3, <3>2, <3>3
  <2> QED
    BY <2>2, <2>3
<1>10. w[n + m] = h[m]
  <2>1. CASE m = 0
    BY <1>3, <1>4, <1>5, <2>1
  <2>2. CASE m # 0
    BY <2>2
  <2> QED
    BY <2>1, <2>2
<1> HIDE DEF w
<1>11. AllTrace(c, b, w)
  BY <1>7, <1>8, <1>9 DEF AllTrace
<1>12. execute_all(c, b) = w[Len(c)]
  BY <1>7, <1>11, AllIs
<1> QED
  BY <1>4, <1>5, <1>6, <1>7, <1>10, <1>12

SimNonces == [Accounts -> Nat]

\* The orders none of whose transactions may be left out, and the accounts of an order.
Firm(o) == \A i \in DOMAIN SimOrders[o] : ~SimOrders[o][i].optional
Touches(o) == {SimOrders[o][i].account : i \in DOMAIN SimOrders[o]}

\* Nonces of the accounts are not the outcome of an order that fails.
LEMMA SomeNonces == ASSUME NEW n \in SimNonces PROVE n # << >>
BY SimConstants DEF SimNonces

FirmTrace(o, n, len, g) ==
  /\ g[0] = n
  /\ \A k \in 0..len : g[k] \in SimNonces
  /\ \A k \in 1..len : /\ g[k - 1][SimOrders[o][k].account] = SimOrders[o][k].nonce
                       /\ g[k] = [g[k - 1] EXCEPT ![SimOrders[o][k].account] = @ + 1]

\* A firm order that does not fail executes each of its transactions.
LEMMA FirmExecution ==
  ASSUME NEW o \in Ids, Firm(o), NEW n \in SimNonces, NEW failing,
         execute(o, n, failing) # << >>
  PROVE  \E g : FirmTrace(o, n, Len(SimOrders[o]), g) /\ execute(o, n, failing) = g[Len(SimOrders[o])]
<1>1. PICK len \in Nat : len = Len(SimOrders[o]) /\ DOMAIN SimOrders[o] = 1..len
  BY SimConstants DEF Ids
<1>2. PICK sq : sq = SimOrders[o]
  OBVIOUS
<1>3. DOMAIN sq = 1..len
  BY <1>1, <1>2
<1>4. PICK g : /\ g[0] = n
               /\ \A k \in 1..len : g[k] = execute_transaction(g[k - 1], sq[k], failing)
               /\ g[len] = ExecutedAll(sq, n, failing)
  BY <1>3, ExecuteFold
<1>5. g[len] = execute(o, n, failing)
  <2>1. execute(o, n, failing) = ExecutedAll(SimOrders[o], n, failing)
    BY Zenon DEF execute, ExecutedAll
  <2> QED
    BY <1>2, <1>4, <2>1
<1>6. ASSUME NEW k \in 1..len
      PROVE  sq[k].account \in Accounts /\ sq[k].nonce \in Nat /\ sq[k].optional = FALSE
  BY <1>1, <1>2, <1>6, SimConstants DEF Ids, Firm
<1> DEFINE T == {k \in Nat : k <= len => g[k] \in SimNonces \cup {<< >>}}
<1>7. 0 \in T
  BY <1>4
<1>8. ASSUME NEW k \in T PROVE k + 1 \in T
  <2> SUFFICES ASSUME k + 1 <= len PROVE g[k + 1] \in SimNonces \cup {<< >>}
    OBVIOUS
  <2>1. k \in Nat /\ k + 1 \in 1..len /\ (k + 1) - 1 = k /\ k <= len
    OBVIOUS
  <2>2. g[k] \in SimNonces \cup {<< >>}
    BY <2>1
  <2>3. g[k + 1] = execute_transaction(g[k], sq[k + 1], failing)
    BY <1>4, <2>1
  <2>4. sq[k + 1].account \in Accounts
    BY <1>6, <2>1
  <2> QED
    BY <2>2, <2>3, <2>4 DEF execute_transaction, SimNonces
<1>9. T = Nat
  <2>1. T \in SUBSET Nat
    OBVIOUS
  <2> HIDE DEF T
  <2> QED
    BY <1>7, <1>8, <2>1, NatSetInduction
<1>10. ASSUME NEW k \in 0..len PROVE g[k] \in SimNonces
  <2>1. g[k] \in SimNonces \cup {<< >>}
    <3>1. k \in T
      <4> HIDE DEF T
      <4> QED
        BY <1>9
    <3> QED
      BY <3>1
  <2> SUFFICES ASSUME g[k] = << >> PROVE FALSE
    BY <2>1
  <2> DEFINE U == {j \in Nat : k + j <= len => g[k + j] = << >>}
  <2>2. 0 \in U
    OBVIOUS
  <2>3. ASSUME NEW j \in U PROVE j + 1 \in U
    <3> SUFFICES ASSUME k + (j + 1) <= len PROVE g[k + (j + 1)] = << >>
      OBVIOUS
    <3>1. /\ j \in Nat /\ k + (j + 1) \in 1..len /\ (k + (j + 1)) - 1 = k + j /\ k + j <= len
      OBVIOUS
    <3>2. g[k + j] = << >>
      BY <3>1
    <3>3. g[k + (j + 1)] = execute_transaction(g[k + j], sq[k + (j + 1)], failing)
      BY <1>4, <3>1
    <3> QED
      BY <3>2, <3>3 DEF execute_transaction
  <2>4. U \in SUBSET Nat
    OBVIOUS
  <2>5. U = Nat
    <3> HIDE DEF U
    <3> QED
      BY <2>2, <2>3, <2>4, NatSetInduction
  <2>6. len - k \in U /\ k + (len - k) = len
    <3> HIDE DEF U
    <3> QED
      BY <2>5
  <2>7. g[len] = << >>
    BY <2>6
  <2> QED
    BY <1>5, <2>7
<1>11. ASSUME NEW k \in 1..len
       PROVE  /\ g[k - 1][sq[k].account] = sq[k].nonce
              /\ g[k] = [g[k - 1] EXCEPT ![sq[k].account] = @ + 1]
  <2>1. g[k] = execute_transaction(g[k - 1], sq[k], failing)
    BY <1>4
  <2>2. k - 1 \in 0..len /\ k \in 0..len
    OBVIOUS
  <2>3. g[k] # << >> /\ g[k - 1] # << >>
    BY <1>10, <2>2, SomeNonces
  <2>4. sq[k].optional = FALSE
    BY <1>6
  <2> QED
    BY <2>1, <2>3, <2>4 DEF execute_transaction
<1>12. FirmTrace(o, n, len, g)
  BY <1>2, <1>4, <1>10, <1>11 DEF FirmTrace
<1> QED
  BY <1>1, <1>5, <1>12

Raises(o, n, m) ==
  /\ m \in SimNonces
  /\ \A a \in Touches(o) : m[a] > n[a]
  /\ \A a \in Accounts : a \notin Touches(o) => m[a] = n[a]

\* It raises the nonces of its accounts, and no others.
LEMMA FirmRaises ==
  ASSUME NEW o \in Ids, Firm(o), NEW n \in SimNonces, NEW failing,
         execute(o, n, failing) # << >>
  PROVE  Raises(o, n, execute(o, n, failing))
<1>1. PICK len \in Nat : len = Len(SimOrders[o]) /\ DOMAIN SimOrders[o] = 1..len
  BY SimConstants DEF Ids
<1>2. PICK g : FirmTrace(o, n, len, g) /\ execute(o, n, failing) = g[len]
  BY <1>1, FirmExecution
<1>3. \A k \in 1..len : SimOrders[o][k].account \in Accounts
  BY <1>1, SimConstants DEF Ids
<1> DEFINE acct(k) == SimOrders[o][k].account
           T == {k \in Nat : k <= len =>
                  /\ \A a \in Accounts : g[k][a] >= n[a]
                  /\ \A i \in 1..k : g[k][acct(i)] > n[acct(i)]
                  /\ \A a \in Accounts : (\A i \in 1..k : acct(i) # a) => g[k][a] = n[a]}
<1> HIDE DEF acct
<1>4. 0 \in T
  BY <1>2 DEF FirmTrace, SimNonces
<1>5. ASSUME NEW k \in T PROVE k + 1 \in T
  <2> SUFFICES ASSUME k + 1 <= len
               PROVE  /\ \A a \in Accounts : g[k + 1][a] >= n[a]
                      /\ \A i \in 1..(k + 1) : g[k + 1][acct(i)] > n[acct(i)]
                      /\ \A a \in Accounts : (\A i \in 1..(k + 1) : acct(i) # a) => g[k + 1][a] = n[a]
    OBVIOUS
  <2>1. k \in Nat /\ k + 1 \in 1..len /\ (k + 1) - 1 = k /\ k <= len /\ k \in 0..len
    OBVIOUS
  <2>2. /\ \A a \in Accounts : g[k][a] >= n[a]
        /\ \A i \in 1..k : g[k][acct(i)] > n[acct(i)]
        /\ \A a \in Accounts : (\A i \in 1..k : acct(i) # a) => g[k][a] = n[a]
    BY <2>1
  <2>3. PICK c \in Accounts : c = acct(k + 1)
    BY <1>3, <2>1 DEF acct
  <2>4. g[k + 1] = [g[k] EXCEPT ![c] = @ + 1] /\ g[k] \in SimNonces
    BY <1>2, <2>1, <2>3 DEF FirmTrace, acct
  <2>5. /\ g[k + 1][c] = g[k][c] + 1
        /\ \A a \in Accounts : a # c => g[k + 1][a] = g[k][a]
        /\ \A a \in Accounts : g[k][a] \in Nat /\ n[a] \in Nat
    BY <2>4 DEF SimNonces
  <2>6. \A a \in Accounts : g[k + 1][a] >= g[k][a]
    BY <2>5
  <2>7. \A a \in Accounts : g[k + 1][a] >= n[a] /\ g[k + 1][a] \in Nat
    <3> TAKE a \in Accounts
    <3>1. g[k + 1][a] = g[k][a] \/ g[k + 1][a] = g[k][a] + 1
      BY <2>5
    <3> QED
      BY <2>2, <2>5, <3>1
  <2>8. ASSUME NEW i \in 1..(k + 1) PROVE g[k + 1][acct(i)] > n[acct(i)]
    <3>1. acct(i) \in Accounts
      BY <1>3, <2>1 DEF acct
    <3>2. CASE acct(i) = c
      BY <2>2, <2>5, <3>1, <3>2
    <3>3. CASE acct(i) # c
      <4>1. i \in 1..k
        BY <2>1, <2>3, <3>3
      <4> QED
        BY <2>2, <2>5, <3>1, <3>3, <4>1
    <3> QED
      BY <3>2, <3>3
  <2>9. ASSUME NEW a \in Accounts, \A i \in 1..(k + 1) : acct(i) # a
        PROVE  g[k + 1][a] = n[a]
    <3>1. a # c
      BY <2>1, <2>3, <2>9
    <3>2. \A i \in 1..k : acct(i) # a
      BY <2>1, <2>9
    <3> QED
      BY <2>2, <2>5, <3>1, <3>2
  <2> QED
    BY <2>7, <2>8, <2>9
<1>6. T = Nat
  <2>1. T \in SUBSET Nat
    OBVIOUS
  <2> HIDE DEF T
  <2> QED
    BY <1>4, <1>5, <2>1, NatSetInduction
<1>7. len \in T
  <2> HIDE DEF T
  <2> QED
    BY <1>6
<1>8. /\ \A i \in 1..len : g[len][acct(i)] > n[acct(i)]
      /\ \A a \in Accounts : (\A i \in 1..len : acct(i) # a) => g[len][a] = n[a]
  BY <1>7
<1>9. Touches(o) = {acct(i) : i \in 1..len}
  BY <1>1 DEF Touches, acct
<1>10. g[len] \in SimNonces
  BY <1>2 DEF FirmTrace
<1> QED
  BY <1>2, <1>8, <1>9, <1>10 DEF Raises

\* What a firm order of one account does depends on the nonce of the account only.
LEMMA FirmOfOneAccount ==
  ASSUME NEW o \in Ids, Firm(o), NEW n \in SimNonces, NEW failing,
         execute(o, n, failing) # << >>,
         NEW a \in Accounts, Touches(o) \subseteq {a},
         NEW m \in SimNonces, m[a] = n[a]
  PROVE  execute(o, m, {}) = [m EXCEPT ![a] = execute(o, n, failing)[a]]
<1>1. PICK len \in Nat : len = Len(SimOrders[o]) /\ DOMAIN SimOrders[o] = 1..len
  BY SimConstants DEF Ids
<1>2. PICK g : FirmTrace(o, n, len, g) /\ execute(o, n, failing) = g[len]
  BY <1>1, FirmExecution
<1>3. PICK sq : sq = SimOrders[o]
  OBVIOUS
<1>4. DOMAIN sq = 1..len
  BY <1>1, <1>3
<1>5. PICK h : /\ h[0] = m
               /\ \A k \in 1..len : h[k] = execute_transaction(h[k - 1], sq[k], {})
               /\ h[len] = ExecutedAll(sq, m, {})
  BY <1>4, ExecuteFold
<1>6. h[len] = execute(o, m, {})
  <2>1. execute(o, m, {}) = ExecutedAll(SimOrders[o], m, {})
    BY Zenon DEF execute, ExecutedAll
  <2> QED
    BY <1>3, <1>5, <2>1
<1>7. \A k \in 1..len : sq[k].account = a
  BY <1>1, <1>3 DEF Touches
<1> DEFINE T == {k \in Nat : k <= len => h[k] = [m EXCEPT ![a] = g[k][a]]}
<1>8. 0 \in T
  BY <1>2, <1>5 DEF FirmTrace, SimNonces
<1>9. ASSUME NEW k \in T PROVE k + 1 \in T
  <2> SUFFICES ASSUME k + 1 <= len PROVE h[k + 1] = [m EXCEPT ![a] = g[k + 1][a]]
    OBVIOUS
  <2>1. k \in Nat /\ k + 1 \in 1..len /\ (k + 1) - 1 = k /\ k <= len /\ k \in 0..len
    OBVIOUS
  <2>2. h[k] = [m EXCEPT ![a] = g[k][a]]
    BY <2>1
  <2>3. /\ g[k] \in SimNonces
        /\ g[k][a] = sq[k + 1].nonce
        /\ g[k + 1] = [g[k] EXCEPT ![a] = @ + 1]
    BY <1>2, <1>3, <1>7, <2>1 DEF FirmTrace
  <2>4. h[k] \in SimNonces /\ h[k][a] = g[k][a]
    BY <2>2, <2>3 DEF SimNonces
  <2>5. h[k] # << >>
    BY <2>4, SomeNonces
  <2>6. h[k + 1] = execute_transaction(h[k], sq[k + 1], {})
    BY <1>5, <2>1
  <2>7. h[k + 1] = [h[k] EXCEPT ![a] = @ + 1]
    BY <1>7, <2>1, <2>3, <2>4, <2>5, <2>6 DEF execute_transaction
  <2> QED
    BY <2>2, <2>3, <2>7 DEF SimNonces
<1>10. T = Nat
  <2>1. T \in SUBSET Nat
    OBVIOUS
  <2> HIDE DEF T
  <2> QED
    BY <1>8, <1>9, <2>1, NatSetInduction
<1>11. len \in T
  <2> HIDE DEF T
  <2> QED
    BY <1>10
<1> QED
  BY <1>2, <1>6, <1>11

FirmAll(c) == \A i \in 1..Len(c) : Firm(c[i])

\* Firm orders that take an account from its nonce on the chain to another one, whatever
\* the nonces of the other accounts, which they leave alone.
LeadsTo(c, a, v) ==
  /\ c \in Seq(Ids)
  /\ FirmAll(c) => \A m \in SimNonces : m[a] = Onchain[a] => execute_all(c, m) = [m EXCEPT ![a] = v]

StartsOnchain(o, m) == \A i \in ahead(o) : m[SimOrders[o][i].account] = Onchain[SimOrders[o][i].account]

\* The nonces that the first k transactions of an order start with, where they are ahead of
\* the chain; the other accounts are where they were.
ReachesTo(o, k, m, n) ==
  /\ n \in SimNonces
  /\ \A i \in ahead(o) : i <= k => n[SimOrders[o][i].account] = SimOrders[o][i].nonce
  /\ \A a \in Accounts : (\A i \in ahead(o) : i <= k => SimOrders[o][i].account # a) => n[a] = m[a]

PathTo(o, k, c) ==
  /\ c \in Seq(Ids)
  /\ FirmAll(c) =>
       \A m \in SimNonces : StartsOnchain(o, m) => ReachesTo(o, k, m, execute_all(c, m))

\* get_order_nonce_state looks at an account once.
LEMMA AheadOnce ==
  ASSUME NEW o \in Ids, NEW i \in ahead(o), NEW j \in ahead(o),
         SimOrders[o][i].account = SimOrders[o][j].account
  PROVE  i = j
<1>1. PICK len \in Nat : DOMAIN SimOrders[o] = 1..len
  BY SimConstants DEF Ids
<1>2. ASSUME NEW k \in ahead(o)
      PROVE  /\ k \in 1..len
             /\ SimOrders[o][k].account \in Accounts /\ SimOrders[o][k].nonce \in Nat
             /\ Onchain[SimOrders[o][k].account] \in Nat
             /\ SimOrders[o][k].nonce >= Onchain[SimOrders[o][k].account]
             /\ \A l \in 1..(k - 1) : \/ SimOrders[o][l].account # SimOrders[o][k].account
                                      \/ SimOrders[o][l].nonce < Onchain[SimOrders[o][l].account]
  <2>1. k \in considered(o)
    BY DEF ahead
  <2>2. k \in 1..len
    BY <1>1, <2>1 DEF considered
  <2>3. SimOrders[o][k].account \in Accounts /\ SimOrders[o][k].nonce \in Nat
    BY <1>1, <2>2, SimConstants DEF Ids
  <2>4. Onchain[SimOrders[o][k].account] \in Nat
    BY <2>3, SimConstants
  <2> QED
    BY <2>1, <2>2, <2>3, <2>4 DEF considered
<1>3. ASSUME NEW k \in ahead(o), NEW l \in ahead(o), l < k,
             SimOrders[o][k].account = SimOrders[o][l].account
      PROVE  FALSE
  <2>1. l \in 1..(k - 1)
    BY <1>2, <1>3
  <2>2. SimOrders[o][l].nonce < Onchain[SimOrders[o][l].account]
    BY <1>2, <1>3, <2>1
  <2> QED
    BY <1>2, <2>2
<1>4. i \in Nat /\ j \in Nat
  BY <1>2
<1> QED
  BY <1>3, <1>4

\* The parts of firm orders are firm.
LEMMA FirmParts ==
  ASSUME NEW s \in Seq(Ids), NEW t \in Seq(Ids), FirmAll(s \o t)
  PROVE  FirmAll(s) /\ FirmAll(t)
<1>1. PICK n \in Nat, m \in Nat : n = Len(s) /\ m = Len(t)
  OBVIOUS
<1>2. PICK c : c = s \o t
  OBVIOUS
<1>3. Len(c) = n + m /\ (\A i \in 1..n : c[i] = s[i]) /\ \A i \in 1..m : c[n + i] = t[i]
  BY <1>1, <1>2, ConcatProperties
<1>4. \A i \in 1..(n + m) : Firm(c[i])
  BY <1>2, <1>3 DEF FirmAll
<1>5. \A i \in 1..n : Firm(s[i])
  BY <1>3, <1>4
<1>6. ASSUME NEW i \in 1..m PROVE Firm(t[i])
  <2>1. n + i \in 1..(n + m)
    OBVIOUS
  <2> QED
    BY <1>3, <1>4, <2>1
<1> QED
  BY <1>1, <1>5, <1>6 DEF FirmAll

chain(sim) == Append(sim.previous_orders, sim.order)
LedTo(o, i, results, provided) == results[provided[account_nonce(SimOrders[o][i])]]

\* Orders that lead to each of the nonces that an order needs lead, one after the other,
\* to all of them.
LEMMA ParentsPath ==
  ASSUME NEW o \in Ids, NEW results, NEW provided,
         \A i \in ahead(o) : LeadsTo(chain(LedTo(o, i, results, provided)),
                                     SimOrders[o][i].account, SimOrders[o][i].nonce)
  PROVE  PathTo(o, Len(SimOrders[o]), parents(o, results, provided))
<1>1. PICK len \in Nat : len = Len(SimOrders[o]) /\ DOMAIN SimOrders[o] = 1..len
  BY SimConstants DEF Ids
<1> DEFINE acct(i) == SimOrders[o][i].account
           nonce(i) == SimOrders[o][i].nonce
           part == [i \in 1..len |-> IF i \in ahead(o) THEN chain(LedTo(o, i, results, provided)) ELSE << >>]
           first(k) == [i \in 1..k |-> part[i]]
<1>2. ahead(o) \subseteq 1..len
  BY <1>1 DEF ahead, considered
<1>3. \A i \in 1..len : acct(i) \in Accounts /\ nonce(i) \in Nat
  BY <1>1, SimConstants DEF Ids
<1>4. parents(o, results, provided) = FlattenSeq(part)
  BY <1>1 DEF parents, chain, LedTo
<1>5. \A i \in 1..len : part[i] \in Seq(Ids)
  <2> TAKE i \in 1..len
  <2>1. CASE i \in ahead(o)
    BY <2>1 DEF LeadsTo
  <2>2. CASE i \notin ahead(o)
    BY <2>2
  <2> QED
    BY <2>1, <2>2
<1>6. part = first(len)
  OBVIOUS
<1>7. \A i \in ahead(o) : LeadsTo(part[i], acct(i), nonce(i))
  BY <1>2
<1>8. \A i \in 1..len : i \notin ahead(o) => part[i] = << >>
  OBVIOUS
<1> HIDE DEF part, acct, nonce
<1> DEFINE T == {k \in Nat : k <= len => PathTo(o, k, FlattenSeq(first(k)))}
<1>9. 0 \in T
  <2>1. first(0) = << >>
    OBVIOUS
  <2>2. FlattenSeq(first(0)) = << >>
    BY <2>1 DEF FlattenSeq
  <2>3. ASSUME NEW m \in SimNonces PROVE ReachesTo(o, 0, m, execute_all(<< >>, m))
    <3>1. execute_all(<< >>, m) = m
      BY AllNone
    <3>2. \A i \in ahead(o) : ~(i <= 0)
      BY <1>2
    <3> QED
      BY <3>1, <3>2 DEF ReachesTo
  <2>4. PathTo(o, 0, << >>)
    BY <2>3 DEF PathTo
  <2> QED
    BY <2>2, <2>4
<1>10. ASSUME NEW k \in T PROVE k + 1 \in T
  <2> SUFFICES ASSUME k + 1 <= len PROVE PathTo(o, k + 1, FlattenSeq(first(k + 1)))
    OBVIOUS
  <2>1. k \in Nat /\ k + 1 \in 1..len /\ k <= len
    OBVIOUS
  <2>2. PathTo(o, k, FlattenSeq(first(k)))
    BY <2>1
  <2>3. PICK s, t : s = FlattenSeq(first(k)) /\ t = part[k + 1]
    OBVIOUS
  <2>4. /\ s \in Seq(Ids) /\ t \in Seq(Ids)
        /\ FlattenSeq(first(k + 1)) = s \o t
    <3>1. PICK seqs, more : seqs = first(k) /\ more = first(k + 1)
      OBVIOUS
    <3>2. seqs \in Seq(Seq(Ids)) /\ t \in Seq(Ids)
      BY <1>5, <2>1, <2>3, <3>1
    <3>3. more = Append(seqs, t)
      <4>1. Len(seqs) = k /\ more = [i \in 1..(k + 1) |-> part[i]]
        BY <2>1, <3>1
      <4>2. Append(seqs, t) \in Seq(Seq(Ids)) /\ Len(Append(seqs, t)) = k + 1
        BY <3>2, <4>1, AppendProperties
      <4>3. \A i \in 1..(k + 1) : Append(seqs, t)[i] = part[i]
        <5> TAKE i \in 1..(k + 1)
        <5>1. CASE i = k + 1
          BY <2>3, <3>2, <4>1, <5>1, AppendProperties
        <5>2. CASE i \in 1..k
          BY <3>1, <3>2, <4>1, <5>2, AppendProperties
        <5>3. i = k + 1 \/ i \in 1..k
          BY <2>1
        <5> QED
          BY <5>1, <5>2, <5>3
      <4>4. PICK app : app = Append(seqs, t)
        OBVIOUS
      <4>5. app \in Seq(Seq(Ids)) /\ Len(app) = k + 1
        BY <4>2, <4>4
      <4>6. app = [i \in 1..Len(app) |-> app[i]]
        BY <4>5
      <4>7. \A i \in 1..(k + 1) : app[i] = part[i]
        BY <4>3, <4>4
      <4> HIDE DEF first
      <4> QED
        BY <4>1, <4>4, <4>5, <4>6, <4>7
    <3>4. FlattenSeq(seqs) \in Seq(Ids) /\ FlattenSeq(Append(seqs, t)) = FlattenSeq(seqs) \o t
      BY <3>2, FlattenAppend
    <3> QED
      BY <2>3, <3>1, <3>2, <3>3, <3>4
  <2> HIDE DEF first
  <2>5. s \o t \in Seq(Ids)
    BY <2>4, ConcatProperties
  <2>6. ASSUME FirmAll(s \o t), NEW m \in SimNonces, StartsOnchain(o, m)
        PROVE  ReachesTo(o, k + 1, m, execute_all(s \o t, m))
    <3>1. FirmAll(s) /\ FirmAll(t)
      BY <2>4, <2>6, FirmParts
    <3>2. PICK n : n = execute_all(s, m)
      OBVIOUS
    <3>3. ReachesTo(o, k, m, n)
      BY <2>2, <2>3, <2>6, <3>1, <3>2 DEF PathTo
    <3>4. execute_all(s \o t, m) = execute_all(t, n)
      BY <2>4, <3>2, AllConcat
    <3>5. CASE k + 1 \in ahead(o)
      <4>1. PICK a \in Accounts, v \in Nat : a = acct(k + 1) /\ v = nonce(k + 1)
        BY <1>3, <2>1
      <4>2. LeadsTo(t, a, v)
        BY <1>7, <2>3, <3>5, <4>1
      <4>3. \A i \in ahead(o) : i <= k => acct(i) # a
        <5> TAKE i \in ahead(o)
        <5>1. acct(i) = acct(k + 1) => i = k + 1
          BY <3>5, AheadOnce DEF acct
        <5> QED
          BY <2>1, <4>1, <5>1
      <4>4. n[a] = m[a] /\ n \in SimNonces
        BY <3>3, <4>3 DEF ReachesTo, acct
      <4>5. m[a] = Onchain[a]
        BY <2>6, <3>5, <4>1 DEF StartsOnchain, acct
      <4>6. execute_all(t, n) = [n EXCEPT ![a] = v]
        BY <3>1, <4>2, <4>4, <4>5 DEF LeadsTo
      <4>7. PICK w : w = execute_all(t, n)
        OBVIOUS
      <4>8. w \in SimNonces /\ w[a] = v /\ \A b \in Accounts : b # a => w[b] = n[b]
        BY <4>4, <4>6, <4>7 DEF SimNonces
      <4>9. ASSUME NEW i \in ahead(o), i <= k + 1
            PROVE  w[acct(i)] = nonce(i)
        <5>1. CASE i = k + 1
          BY <4>1, <4>8, <5>1
        <5>2. CASE i # k + 1
          <6>1. i <= k /\ acct(i) \in Accounts
            BY <1>2, <1>3, <2>1, <4>9, <5>2
          <6>2. acct(i) # a
            BY <4>3, <6>1
          <6>3. n[acct(i)] = nonce(i)
            BY <3>3, <6>1 DEF ReachesTo, acct, nonce
          <6> QED
            BY <4>8, <6>1, <6>2, <6>3
        <5> QED
          BY <5>1, <5>2
      <4>10. ASSUME NEW b \in Accounts, \A i \in ahead(o) : i <= k + 1 => acct(i) # b
             PROVE  w[b] = m[b]
        <5>1. b # a
          BY <2>1, <3>5, <4>1, <4>10
        <5>2. \A i \in ahead(o) : i <= k => acct(i) # b
          BY <1>2, <2>1, <4>10
        <5>3. n[b] = m[b]
          BY <3>3, <5>2 DEF ReachesTo, acct
        <5> QED
          BY <4>8, <5>1, <5>3
      <4> QED
        BY <3>4, <4>7, <4>8, <4>9, <4>10 DEF ReachesTo, acct, nonce
    <3>6. CASE k + 1 \notin ahead(o)
      <4>1. t = << >>
        BY <1>8, <2>1, <2>3, <3>6
      <4>2. execute_all(t, n) = n
        BY <4>1, AllNone
      <4>3. \A i \in ahead(o) : i <= k + 1 <=> i <= k
        BY <1>2, <2>1, <3>6
      <4> QED
        BY <3>3, <3>4, <4>2, <4>3 DEF ReachesTo
    <3> QED
      BY <3>5, <3>6
  <2> QED
    BY <2>4, <2>5, <2>6 DEF PathTo
<1>11. T = Nat
  <2>1. T \in SUBSET Nat
    OBVIOUS
  <2> HIDE DEF T
  <2> QED
    BY <1>9, <1>10, <2>1, NatSetInduction
<1>12. len \in T
  <2> HIDE DEF T
  <2> QED
    BY <1>11
<1>13. PathTo(o, len, FlattenSeq(first(len)))
  BY <1>12
<1> HIDE DEF first
<1> QED
  BY <1>1, <1>4, <1>6, <1>13

RequestSet == [id : Nat, order : Ids, parents : Seq(Ids)]

RequestsOK ==
  /\ requests \in Nat
  /\ ready_orders \in Seq(RequestSet)
  /\ running \subseteq RequestSet
  /\ DOMAIN sims \subseteq 1..requests

\* No two simulations that are to come, or are there, have the same id.
IdsOK ==
  /\ \A r \in running : r.id \in 1..requests /\ r.id \notin DOMAIN sims
  /\ \A i \in 1..Len(ready_orders) :
       ready_orders[i].id \in 1..requests /\ ready_orders[i].id \notin DOMAIN sims
  /\ \A r, s \in running : r.id = s.id => r = s
  /\ \A i, j \in 1..Len(ready_orders) : ready_orders[i].id = ready_orders[j].id => i = j
  /\ \A r \in running, i \in 1..Len(ready_orders) : r.id # ready_orders[i].id

\* The parents of every request lead to its order, from the nonces of the chain and
\* whatever the nonces of the accounts that the order does not need.
GoodPath(r) == PathTo(r.order, Len(SimOrders[r.order]), r.parents)
PathsOK ==
  /\ \A r \in running : GoodPath(r)
  /\ \A i \in 1..Len(ready_orders) : GoodPath(ready_orders[i])

\* A simulation that is noted for a nonce leads there, with those before it.
SimsLead ==
  \A k \in AccountNonce : sims_that_update_one_nonce[k] # NoSim =>
    /\ sims_that_update_one_nonce[k] \in DOMAIN sims
    /\ LeadsTo(chain(sims[sims_that_update_one_nonce[k]]), k.account, k.nonce)

\* An order that waits is listed under every nonce that it needs and nothing leads to.
ListedOK ==
  \A o \in Ids : pending_orders[o] # 0 =>
    \A k \in PendingNonces(o, sims_that_update_one_nonce) : o \in pending_nonces[k]

PathInv == IndInv /\ RequestsOK /\ IdsOK /\ PathsOK /\ SimsLead /\ ListedOK

\* New requests have new ids.
LEMMA Queued ==
  ASSUME RequestsOK, IdsOK, PathsOK,
         NEW more \in Seq(RequestSet), NEW gone \in SUBSET running,
         \A i \in 1..Len(more) : more[i].id = requests + i /\ GoodPath(more[i]),
         running' = running \ gone,
         DOMAIN sims' \subseteq DOMAIN sims \cup {r.id : r \in gone},
         ready_orders' = ready_orders \o more,
         requests' = requests + Len(more)
  PROVE  RequestsOK' /\ IdsOK' /\ PathsOK'
<1>1. PICK n \in Nat, m \in Nat : n = Len(ready_orders) /\ m = Len(more)
  BY DEF RequestsOK
<1>2. PICK q : q = ready_orders'
  OBVIOUS
<1>3. /\ q \in Seq(RequestSet) /\ Len(q) = n + m
      /\ \A i \in 1..(n + m) : q[i] = IF i <= n THEN ready_orders[i] ELSE more[i - n]
  BY <1>1, <1>2, ConcatProperties DEF RequestsOK
<1>4. requests \in Nat /\ requests' = requests + m
  BY <1>1 DEF RequestsOK
<1>5. DOMAIN sims' \subseteq 1..requests
  BY DEF RequestsOK, IdsOK
<1>6. RequestsOK'
  <2>1. requests' \in Nat /\ DOMAIN sims' \subseteq 1..requests'
    BY <1>4, <1>5
  <2> QED
    BY <1>2, <1>3, <2>1 DEF RequestsOK
<1>7. ASSUME NEW i \in 1..(n + m), i <= n
      PROVE  i \in 1..n /\ q[i] = ready_orders[i]
  BY <1>3, <1>7
<1>8. ASSUME NEW i \in 1..(n + m), ~(i <= n)
      PROVE  i - n \in 1..m /\ q[i].id = requests + (i - n) /\ GoodPath(q[i])
  <2>1. i - n \in 1..m
    BY <1>8
  <2>2. q[i] = more[i - n]
    BY <1>3, <1>8
  <2> QED
    BY <1>1, <2>1, <2>2
<1>9. ASSUME NEW r \in running'
      PROVE  r \in running /\ r.id \in 1..requests /\ r.id \notin DOMAIN sims'
  BY DEF IdsOK
<1>10. ASSUME NEW i \in 1..(n + m)
       PROVE  /\ q[i].id \in 1..requests' /\ q[i].id \notin DOMAIN sims'
              /\ GoodPath(q[i])
              /\ \A r \in running' : r.id # q[i].id
  <2>1. CASE i <= n
    <3>1. i \in 1..n /\ q[i] = ready_orders[i]
      BY <1>7, <2>1
    <3>2. ready_orders[i].id \in 1..requests /\ ready_orders[i].id \notin DOMAIN sims
      BY <1>1, <3>1 DEF IdsOK
    <3>3. \A r \in running : r.id # ready_orders[i].id
      BY <1>1, <3>1 DEF IdsOK
    <3>4. GoodPath(ready_orders[i])
      BY <1>1, <3>1 DEF PathsOK
    <3>5. ready_orders[i].id \in 1..requests'
      BY <1>4, <3>2
    <3> QED
      BY <3>1, <3>2, <3>3, <3>4, <3>5
  <2>2. CASE ~(i <= n)
    <3>1. i - n \in 1..m /\ q[i].id = requests + (i - n) /\ GoodPath(q[i])
      BY <1>8, <2>2
    <3>2. q[i].id \in 1..requests' /\ q[i].id \notin 1..requests
      BY <1>4, <3>1
    <3> QED
      BY <1>5, <1>9, <3>1, <3>2
  <2> QED
    BY <2>1, <2>2
<1>11. ASSUME NEW i \in 1..(n + m), NEW j \in 1..(n + m), q[i].id = q[j].id
       PROVE  i = j
  <2>1. CASE i <= n /\ j <= n
    BY <1>1, <1>7, <1>11, <2>1 DEF IdsOK
  <2>2. ASSUME NEW a \in 1..(n + m), NEW b \in 1..(n + m), a <= n, ~(b <= n)
        PROVE  q[a].id # q[b].id
    <3>1. a \in 1..n /\ q[a] = ready_orders[a]
      BY <1>7, <2>2
    <3>2. q[a].id \in 1..requests
      BY <1>1, <3>1 DEF IdsOK
    <3>3. b - n \in 1..m /\ q[b].id = requests + (b - n)
      BY <1>8, <2>2
    <3> QED
      BY <1>4, <3>2, <3>3
  <2>3. CASE ~(i <= n) /\ ~(j <= n)
    <3>1. i - n \in 1..m /\ q[i].id = requests + (i - n)
      BY <1>8, <2>3
    <3>2. j - n \in 1..m /\ q[j].id = requests + (j - n)
      BY <1>8, <2>3
    <3>3. PICK a \in Nat, b \in Nat : a = i - n /\ b = j - n
      BY <3>1, <3>2
    <3>4. requests + a = requests + b
      BY <1>11, <3>1, <3>2, <3>3
    <3>5. a = b
      BY <1>4, <3>4
    <3> QED
      BY <3>3, <3>5
  <2>4. ~(i <= n /\ ~(j <= n)) /\ ~(j <= n /\ ~(i <= n))
    BY <1>11, <2>2
  <2> QED
    BY <2>1, <2>3, <2>4
<1>12. \A r, s \in running' : r.id = s.id => r = s
  BY DEF IdsOK
<1>13. \A r \in running' : r.id \in 1..requests'
  BY <1>4, <1>9
<1>14. IdsOK'
  BY <1>2, <1>3, <1>9, <1>10, <1>11, <1>12, <1>13 DEF IdsOK
<1>15. PathsOK'
  <2>1. \A r \in running' : GoodPath(r)
    BY DEF PathsOK
  <2>2. \A i \in 1..Len(q) : GoodPath(q[i])
    BY <1>3, <1>10
  <2> QED
    BY <1>2, <2>1, <2>2 DEF PathsOK
<1> QED
  BY <1>6, <1>14, <1>15

\* pop_simulation_tasks moves requests.
LEMMA Popped ==
  ASSUME RequestsOK, IdsOK, PathsOK, NEW limit \in 1..2, PopSimulationTasks(limit)
  PROVE  RequestsOK' /\ IdsOK' /\ PathsOK'
<1>1. PICK n \in Nat : n = Len(ready_orders)
  BY DEF RequestsOK
<1>2. PICK front, q : front = SubSeq(ready_orders, 1, limit) /\ q = SubSeq(ready_orders, limit + 1, n)
  OBVIOUS
<1>3. limit <= n /\ running' = running \cup ToSet(front) /\ ready_orders' = q
  BY <1>1, <1>2 DEF PopSimulationTasks
<1>4. \A i \in 1..n : ready_orders[i] \in RequestSet
  BY <1>1 DEF RequestsOK
<1>5. /\ front \in Seq(RequestSet) /\ Len(front) = limit
      /\ \A i \in 1..limit : front[i] = ready_orders[i]
  <2>1. \A i \in 1..limit : ready_orders[i] \in RequestSet
    BY <1>3, <1>4
  <2>2. 1 \in Int /\ limit \in Int /\ 1 <= limit
    OBVIOUS
  <2>3. /\ SubSeq(ready_orders, 1, limit) \in Seq(RequestSet)
        /\ Len(SubSeq(ready_orders, 1, limit)) = limit - 1 + 1
        /\ \A i \in 1..(limit - 1 + 1) : SubSeq(ready_orders, 1, limit)[i] = ready_orders[1 + i - 1]
    BY <2>1, <2>2, SubSeqProperties
  <2> QED
    BY <1>2, <2>3
<1>6. /\ q \in Seq(RequestSet) /\ Len(q) = n - limit
      /\ \A i \in 1..(n - limit) : q[i] = ready_orders[limit + i] /\ limit + i \in 1..n
  <2>1. \A i \in (limit + 1)..n : ready_orders[i] \in RequestSet
    BY <1>4
  <2>2. limit + 1 \in Int /\ n \in Int
    OBVIOUS
  <2>3. /\ SubSeq(ready_orders, limit + 1, n) \in Seq(RequestSet)
        /\ Len(SubSeq(ready_orders, limit + 1, n)) = IF limit + 1 <= n THEN n - (limit + 1) + 1 ELSE 0
        /\ \A i \in 1..(n - (limit + 1) + 1) :
             SubSeq(ready_orders, limit + 1, n)[i] = ready_orders[(limit + 1) + i - 1]
    BY <2>1, <2>2, SubSeqProperties
  <2>4. n - (limit + 1) + 1 = n - limit
    BY <1>3
  <2>5. Len(q) = n - limit
    BY <1>2, <1>3, <2>3
  <2>6. \A i \in 1..(n - limit) : q[i] = ready_orders[limit + i]
    <3> TAKE i \in 1..(n - limit)
    <3>1. (limit + 1) + i - 1 = limit + i
      OBVIOUS
    <3> QED
      BY <1>2, <2>3, <2>4, <3>1
  <2>7. \A i \in 1..(n - limit) : limit + i \in 1..n
    BY <1>3
  <2> QED
    BY <1>2, <2>3, <2>5, <2>6, <2>7
<1>7. ToSet(front) = {ready_orders[i] : i \in 1..limit} /\ \A i \in 1..limit : i \in 1..n
  BY <1>3, <1>5 DEF ToSet
<1>8. UNCHANGED <<sims, requests>>
  BY DEF PopSimulationTasks
<1>9. RequestsOK'
  <2>1. running' \subseteq RequestSet
    BY <1>3, <1>4, <1>7 DEF RequestsOK
  <2> QED
    BY <1>3, <1>6, <1>8, <2>1 DEF RequestsOK
<1>10. ASSUME NEW r \in running'
       PROVE  r \in running \/ \E i \in 1..limit : i \in 1..n /\ r = ready_orders[i]
  BY <1>3, <1>7
<1>11. /\ \A i \in 1..n : ready_orders[i].id \in 1..requests /\ ready_orders[i].id \notin DOMAIN sims
       /\ \A i, j \in 1..n : ready_orders[i].id = ready_orders[j].id => i = j
       /\ \A r \in running, i \in 1..n : r.id # ready_orders[i].id
       /\ \A r \in running : r.id \in 1..requests /\ r.id \notin DOMAIN sims
       /\ \A r, s \in running : r.id = s.id => r = s
  BY <1>1 DEF IdsOK
<1>12. \A r \in running' : r.id \in 1..requests /\ r.id \notin DOMAIN sims
  BY <1>10, <1>11
<1>13. \A i \in 1..Len(q) : q[i].id \in 1..requests /\ q[i].id \notin DOMAIN sims
  BY <1>6, <1>11
<1>14. \A r, s \in running' : r.id = s.id => r = s
  BY <1>10, <1>11
<1>15. ASSUME NEW i \in 1..Len(q), NEW j \in 1..Len(q), q[i].id = q[j].id
       PROVE  i = j
  <2>1. limit + i = limit + j
    BY <1>6, <1>11, <1>15, SMTT(30)
  <2> QED
    BY <2>1
<1>16. ASSUME NEW r \in running', NEW i \in 1..Len(q) PROVE r.id # q[i].id
  <2>1. i \in 1..(n - limit) /\ q[i] = ready_orders[limit + i] /\ limit + i \in 1..n
    BY <1>6
  <2>2. CASE r \in running
    BY <1>11, <2>1, <2>2
  <2>3. CASE \E j \in 1..limit : j \in 1..n /\ r = ready_orders[j]
    <3>1. PICK j \in 1..limit : j \in 1..n /\ r = ready_orders[j]
      BY <2>3
    <3>2. j # limit + i
      BY <2>1, <3>1
    <3> QED
      BY <1>11, <2>1, <3>1, <3>2
  <2> QED
    BY <1>10, <2>2, <2>3
<1>17. IdsOK'
  BY <1>3, <1>8, <1>12, <1>13, <1>14, <1>15, <1>16 DEF IdsOK
<1>18. PathsOK'
  <2>1. \A i \in 1..n : GoodPath(ready_orders[i])
    BY <1>1 DEF PathsOK
  <2>2. \A r \in running' : GoodPath(r)
    BY <1>10, <2>1 DEF PathsOK
  <2>3. \A i \in 1..Len(q) : GoodPath(q[i])
    BY <1>6, <2>1
  <2> QED
    BY <1>3, <2>2, <2>3 DEF PathsOK
<1> QED
  BY <1>9, <1>17, <1>18

Leading(results, provided) ==
  \A k \in AccountNonce : provided[k] # NoSim =>
    LeadsTo(chain(results[provided[k]]), k.account, k.nonce)

\* The parents of an order that needs nothing more lead to it.
LEMMA RequestIsGood ==
  ASSUME NEW o \in Ids, NEW id \in Nat, NEW results, NEW provided,
         PendingNonces(o, provided) = {},
         Leading(results, provided)
  PROVE  /\ request(o, id, results, provided) \in RequestSet
         /\ request(o, id, results, provided).id = id
         /\ GoodPath(request(o, id, results, provided))
<1>1. ASSUME NEW i \in ahead(o)
      PROVE  LeadsTo(chain(LedTo(o, i, results, provided)),
                     SimOrders[o][i].account, SimOrders[o][i].nonce)
  <2>1. PICK k : k = account_nonce(SimOrders[o][i])
    OBVIOUS
  <2>2. i \in DOMAIN SimOrders[o]
    BY DEF ahead, considered
  <2>3. k \in AccountNonce /\ k.account = SimOrders[o][i].account /\ k.nonce = SimOrders[o][i].nonce
    BY <2>1, <2>2, SimConstants DEF account_nonce, AccountNonce, Ids
  <2>4. provided[k] # NoSim
    BY <2>1 DEF PendingNonces
  <2>5. LeadsTo(chain(results[provided[k]]), k.account, k.nonce)
    BY <2>3, <2>4 DEF Leading
  <2> QED
    BY <2>1, <2>3, <2>5 DEF LedTo
<1>2. PICK c : c = parents(o, results, provided)
  OBVIOUS
<1>3. PathTo(o, Len(SimOrders[o]), c)
  BY <1>1, <1>2, ParentsPath
<1>4. c \in Seq(Ids)
  BY <1>3 DEF PathTo
<1>5. request(o, id, results, provided) = [id |-> id, order |-> o, parents |-> c]
  BY <1>2 DEF request
<1> QED
  BY <1>3, <1>4, <1>5 DEF RequestSet, GoodPath

\* push_order of an order that is ready.
LEMMA PushedReady ==
  ASSUME PathInv, NEW o \in Ids, PushOrderReady(o)
  PROVE  RequestsOK' /\ IdsOK' /\ PathsOK' /\ SimsLead' /\ ListedOK'
<1>1. requests \in Nat /\ requests' = requests + 1
  BY DEF PathInv, RequestsOK, PushOrderReady
<1>2. PICK req : req = request(o, requests + 1, sims, sims_that_update_one_nonce)
  OBVIOUS
<1>3. req \in RequestSet /\ req.id = requests + 1 /\ GoodPath(req)
  <2>1. Leading(sims, sims_that_update_one_nonce)
    BY DEF PathInv, SimsLead, Leading
  <2>2. PendingNonces(o, sims_that_update_one_nonce) = {} /\ requests + 1 \in Nat
    BY <1>1 DEF PushOrderReady
  <2> QED
    BY <1>2, <2>1, <2>2, RequestIsGood
<1>4. ready_orders' = Append(ready_orders, req)
  BY <1>1, <1>2 DEF PushOrderReady
<1>5. PICK more : more = <<req>>
  OBVIOUS
<1>6. more \in Seq(RequestSet) /\ Len(more) = 1 /\ more[1] = req
  BY <1>3, <1>5
<1>7. ready_orders' = ready_orders \o more
  BY <1>3, <1>4, <1>5 DEF PathInv, RequestsOK
<1>8. /\ UNCHANGED <<sims, sims_that_update_one_nonce, pending_orders, pending_nonces, running>>
  BY DEF PushOrderReady
<1>9. RequestsOK' /\ IdsOK' /\ PathsOK'
  <2>1. {} \in SUBSET running /\ running' = running \ {} /\ DOMAIN sims' \subseteq DOMAIN sims \cup {r.id : r \in {}}
    BY <1>8
  <2>2. \A i \in 1..Len(more) : more[i].id = requests + i /\ GoodPath(more[i])
    BY <1>3, <1>6
  <2>3. requests' = requests + Len(more)
    BY <1>1, <1>6
  <2> QED
    BY <1>6, <1>7, <2>1, <2>2, <2>3, Queued DEF PathInv
<1>10. SimsLead' /\ ListedOK'
  BY <1>8 DEF PathInv, SimsLead, ListedOK
<1> QED
  BY <1>9, <1>10

\* push_order of an order that has to wait lists it under every nonce that it needs.
LEMMA PushedPending ==
  ASSUME PathInv, NEW o \in Ids, PushOrderPending(o)
  PROVE  RequestsOK' /\ IdsOK' /\ PathsOK' /\ SimsLead' /\ ListedOK'
<1>1. UNCHANGED <<sims, sims_that_update_one_nonce, ready_orders, running, requests>>
  BY DEF PushOrderPending
<1>2. PICK wanted : /\ wanted = PendingNonces(o, sims_that_update_one_nonce)
                    /\ pending_nonces' = [k \in AccountNonce |->
                         IF k \in wanted THEN pending_nonces[k] \cup {o} ELSE pending_nonces[k]]
                    /\ pending_orders' = [pending_orders EXCEPT ![o] = Cardinality(wanted)]
  BY DEF PushOrderPending
<1>3. ASSUME NEW p \in Ids, pending_orders'[p] # 0,
             NEW k \in PendingNonces(p, sims_that_update_one_nonce)
      PROVE  p \in pending_nonces'[k]
  <2>1. k \in AccountNonce
    BY NonceKeysOfOrders
  <2>2. CASE p = o
    BY <1>2, <2>1, <2>2
  <2>3. CASE p # o
    <3>1. pending_orders[p] # 0
      BY <1>2, <1>3, <2>3 DEF PathInv, IndInv, TypeOK
    <3>2. p \in pending_nonces[k]
      BY <1>3, <3>1 DEF PathInv, ListedOK
    <3> QED
      BY <1>2, <2>1, <3>2
  <2> QED
    BY <2>2, <2>3
<1>4. ListedOK'
  BY <1>1, <1>3 DEF ListedOK
<1>5. RequestsOK' /\ IdsOK' /\ PathsOK' /\ SimsLead'
  BY <1>1 DEF PathInv, RequestsOK, IdsOK, PathsOK, SimsLead
<1> QED
  BY <1>4, <1>5

OnlyChange(before, after, a) == \A b \in Accounts : after[b] # before[b] <=> b = a

\* A simulation that changes the nonce of one account leads there from the chain.
LEMMA ResultLeads ==
  ASSUME NEW r \in RequestSet, GoodPath(r), NEW failing, NEW before, NEW after,
         before = execute_all(r.parents, Onchain),
         before # << >>,
         after = execute(r.order, before, failing),
         after # << >>,
         NEW a \in Accounts,
         OnlyChange(before, after, a)
  PROVE  LeadsTo(Append(r.parents, r.order), a, after[a])
<1>1. PICK o \in Ids, p \in Seq(Ids) : o = r.order /\ p = r.parents
  BY DEF RequestSet
<1>2. PICK c : c = Append(p, o)
  OBVIOUS
<1>3. c \in Seq(Ids)
  BY <1>2, AppendProperties
<1>4. PICK len : len = Len(SimOrders[o])
  OBVIOUS
<1>5. PathTo(o, len, p)
  BY <1>1, <1>4 DEF GoodPath
<1>6. \A i \in ahead(o) : i <= len /\ SimOrders[o][i].account \in Touches(o)
  <2> TAKE i \in ahead(o)
  <2>1. i \in DOMAIN SimOrders[o]
    BY DEF ahead, considered
  <2>2. DOMAIN SimOrders[o] = 1..len /\ len \in Nat
    BY <1>4, SimConstants DEF Ids
  <2> QED
    BY <2>1, <2>2 DEF Touches
<1>7. Touches(o) \subseteq Accounts
  BY SimConstants DEF Touches, Ids
<1>8. ASSUME FirmAll(c), NEW m \in SimNonces, m[a] = Onchain[a]
      PROVE  execute_all(c, m) = [m EXCEPT ![a] = after[a]]
  <2>1. FirmAll(p) /\ Firm(o)
    <3>1. PICK s : s = <<o>>
      OBVIOUS
    <3>2. s \in Seq(Ids) /\ c = p \o s /\ Len(s) = 1 /\ s[1] = o
      BY <1>2, <3>1
    <3>3. FirmAll(p) /\ FirmAll(s)
      BY <1>8, <3>2, FirmParts
    <3> QED
      BY <3>2, <3>3 DEF FirmAll
  <2>2. Onchain \in SimNonces /\ StartsOnchain(o, Onchain)
    BY SimConstants DEF SimNonces, StartsOnchain
  <2>3. ReachesTo(o, len, Onchain, before)
    BY <1>1, <1>5, <2>1, <2>2 DEF PathTo
  <2>4. before \in SimNonces
    BY <2>3 DEF ReachesTo
  <2>5. Raises(o, before, after)
    BY <1>1, <2>1, <2>4, FirmRaises
  <2>6. Touches(o) \subseteq {a}
    <3> SUFFICES ASSUME NEW b \in Touches(o) PROVE b = a
      OBVIOUS
    <3>1. b \in Accounts /\ after[b] > before[b]
      BY <1>7, <2>5 DEF Raises
    <3>2. after[b] \in Nat /\ before[b] \in Nat
      BY <2>4, <2>5, <3>1 DEF Raises, SimNonces
    <3>3. after[b] # before[b]
      BY <3>1, <3>2
    <3> QED
      BY <3>1, <3>3 DEF OnlyChange
  <2>7. StartsOnchain(o, m)
    BY <1>6, <1>8, <2>6 DEF StartsOnchain
  <2>8. PICK n : n = execute_all(p, m)
    OBVIOUS
  <2>9. ReachesTo(o, len, m, n)
    BY <1>5, <2>1, <2>7, <2>8 DEF PathTo
  <2>10. n \in SimNonces
    BY <2>9 DEF ReachesTo
  <2>11. n[a] = before[a]
    <3>1. CASE \E i \in ahead(o) : SimOrders[o][i].account = a
      <4>1. PICK i \in ahead(o) : SimOrders[o][i].account = a
        BY <3>1
      <4> QED
        BY <1>6, <2>3, <2>9, <4>1 DEF ReachesTo
    <3>2. CASE ~\E i \in ahead(o) : SimOrders[o][i].account = a
      <4>1. n[a] = m[a] /\ before[a] = Onchain[a]
        BY <2>3, <2>9, <3>2 DEF ReachesTo
      <4> QED
        BY <1>8, <4>1
    <3> QED
      BY <3>1, <3>2
  <2>12. \A b \in Accounts : b # a => n[b] = m[b]
    <3> SUFFICES ASSUME NEW b \in Accounts, b # a PROVE n[b] = m[b]
      OBVIOUS
    <3>1. \A i \in ahead(o) : SimOrders[o][i].account # b
      BY <1>6, <2>6
    <3> QED
      BY <2>9, <3>1 DEF ReachesTo
  <2>13. execute(o, n, {}) = [n EXCEPT ![a] = after[a]]
    BY <1>1, <2>1, <2>4, <2>6, <2>10, <2>11, FirmOfOneAccount
  <2>14. [n EXCEPT ![a] = after[a]] = [m EXCEPT ![a] = after[a]]
    BY <2>10, <2>12 DEF SimNonces
  <2>15. execute_all(c, m) = execute_next(n, o)
    BY <1>2, <2>8, AllAppend
  <2>16. n # << >>
    BY <2>10, SomeNonces
  <2> QED
    BY <2>13, <2>14, <2>15, <2>16 DEF execute_next
<1> QED
  BY <1>1, <1>2, <1>3, <1>8 DEF LeadsTo

\* The elements of a finite set, in some order.
LEMMA SequenceOfSet ==
  ASSUME NEW S, IsFiniteSet(S)
  PROVE  \E n \in Nat : SetToSeq(S) \in [1..n -> S]
<1>1. PICK n \in Nat : n = Cardinality(S) /\ ExistsBijection(1..n, S)
  BY FS_CardinalityType
<1>2. PICK f \in [1..n -> S] : IsInjective(f)
  <2>1. PICK f : f \in Bijection(1..n, S)
    BY <1>1 DEF ExistsBijection
  <2>2. f \in [1..n -> S] /\ IsInjective(f)
    BY <2>1 DEF Bijection, Injection, IsInjective
  <2> QED
    BY <2>2
<1> DEFINE P(g) == g \in [1..n -> S] /\ IsInjective(g)
<1>3. \E g \in [1..n -> S] : IsInjective(g)
  BY <1>2
<1>4. SetToSeq(S) = CHOOSE g \in [1..n -> S] : IsInjective(g)
  BY <1>1 DEF SetToSeq
<1>5. (CHOOSE g \in [1..n -> S] : IsInjective(g)) \in [1..n -> S]
  BY <1>3, Zenon
<1> QED
  BY <1>4, <1>5

\* The results of a simulation do not touch those that are there; a nonce keeps its
\* simulation or has the new one.
LEMMA LeadsAfter ==
  ASSUME SimsLead, NEW id, NEW result,
         id \notin DOMAIN sims, id # NoSim,
         sims' = [i \in DOMAIN sims \cup {id} |-> IF i = id THEN result ELSE sims[i]],
         \A k \in AccountNonce :
           \/ sims_that_update_one_nonce'[k] = sims_that_update_one_nonce[k]
           \/ /\ sims_that_update_one_nonce'[k] = id
              /\ LeadsTo(chain(result), k.account, k.nonce)
  PROVE  SimsLead'
<1>1. \A i \in DOMAIN sims : i \in DOMAIN sims' /\ sims'[i] = sims[i]
  OBVIOUS
<1>2. id \in DOMAIN sims' /\ sims'[id] = result
  OBVIOUS
<1>3. ASSUME NEW k \in AccountNonce, sims_that_update_one_nonce'[k] # NoSim
      PROVE  /\ sims_that_update_one_nonce'[k] \in DOMAIN sims'
             /\ LeadsTo(chain(sims'[sims_that_update_one_nonce'[k]]), k.account, k.nonce)
  <2>1. CASE sims_that_update_one_nonce'[k] = sims_that_update_one_nonce[k]
    <3>1. /\ sims_that_update_one_nonce[k] \in DOMAIN sims
          /\ LeadsTo(chain(sims[sims_that_update_one_nonce[k]]), k.account, k.nonce)
      BY <1>3, <2>1 DEF SimsLead
    <3>2. PICK j : j = sims_that_update_one_nonce[k]
      OBVIOUS
    <3>3. j \in DOMAIN sims' /\ sims'[j] = sims[j]
      BY <1>1, <3>1, <3>2
    <3> QED
      BY <2>1, <3>1, <3>2, <3>3
  <2>2. CASE /\ sims_that_update_one_nonce'[k] = id
             /\ LeadsTo(chain(result), k.account, k.nonce)
    BY <1>2, <2>2
  <2> QED
    BY <2>1, <2>2
<1> QED
  BY <1>3 DEF SimsLead

\* The first simulation that leads to a nonce wakes orders, and parents lead to them.
LEMMA WokenPaths ==
  ASSUME PathInv, NEW r \in running, NEW result, NEW results, NEW key \in AccountNonce,
         result.id = r.id,
         results = [i \in DOMAIN sims \cup {r.id} |-> IF i = r.id THEN result ELSE sims[i]],
         LeadsTo(chain(result), key.account, key.nonce),
         running' = running \ {r},
         sims' = results,
         sims_that_update_one_nonce[key] = NoSim,
         process_new_nonce(result, key, results)
  PROVE  RequestsOK' /\ IdsOK' /\ PathsOK' /\ SimsLead' /\ ListedOK'
<1>1. r.id \in Nat /\ r.id # NoSim /\ r.id \notin DOMAIN sims /\ r.id \in 1..requests /\ requests \in Nat
  BY DEF PathInv, IdsOK, RequestsOK, NoSim
<1>2. PICK provided : provided = [sims_that_update_one_nonce EXCEPT ![key] = r.id]
  OBVIOUS
<1>3. PICK left : left = [o \in Ids |-> IF o \in pending_nonces[key] THEN pending_orders[o] - 1
                                         ELSE pending_orders[o]]
  OBVIOUS
<1>4. PICK W, woken : W = {o \in pending_nonces[key] : left[o] = 0} /\ woken = SetToSeq(W)
  OBVIOUS
<1>5. PICK more : more = [i \in DOMAIN woken |-> request(woken[i], requests + i, results, provided)]
  OBVIOUS
<1>6. /\ sims_that_update_one_nonce' = provided
      /\ pending_nonces' = [pending_nonces EXCEPT ![key] = {}]
      /\ pending_orders' = left
      /\ requests' = requests + Len(woken)
      /\ ready_orders' = ready_orders \o more
  BY <1>2, <1>3, <1>4, <1>5, Zenon DEF process_new_nonce
<1>7. W \subseteq Ids /\ IsFiniteSet(W)
  <2>1. W \subseteq Ids
    BY <1>4 DEF PathInv, IndInv, TypeOK
  <2> QED
    BY <2>1, SimConstants, FS_Subset DEF Ids
<1>8. PICK n \in Nat : woken \in [1..n -> W]
  BY <1>4, <1>7, SequenceOfSet
<1>9. Len(woken) = n /\ DOMAIN woken = 1..n
  BY <1>8
<1>10. \A k \in AccountNonce : provided[k] = IF k = key THEN r.id ELSE sims_that_update_one_nonce[k]
  BY <1>2 DEF PathInv, IndInv, TypeOK
<1>11. SimsLead'
  <2>1. \A k \in AccountNonce :
           \/ sims_that_update_one_nonce'[k] = sims_that_update_one_nonce[k]
           \/ /\ sims_that_update_one_nonce'[k] = r.id
              /\ LeadsTo(chain(result), k.account, k.nonce)
    BY <1>6, <1>10
  <2> QED
    BY <1>1, <2>1, LeadsAfter DEF PathInv
<1>12. Leading(results, provided)
  BY <1>6, <1>11 DEF SimsLead, Leading
<1>13. ASSUME NEW o \in pending_nonces[key]
       PROVE  /\ o \in Ids /\ pending_orders[o] \in Nat
              /\ pending_orders[o] = Cardinality(waiting(o))
              /\ key \in waiting(o) /\ pending_orders[o] # 0
  <2>1. o \in Ids
    BY DEF PathInv, IndInv, TypeOK
  <2>2. pending_orders[o] = Cardinality(waiting(o)) /\ pending_orders[o] \in Nat
    BY <2>1 DEF PathInv, IndInv, TypeOK, WaitingOrdersAreWoken, waiting
  <2>3. key \in waiting(o)
    BY DEF waiting
  <2>4. Cardinality(waiting(o)) # 0
    BY <2>3, WaitingIsFinite, FS_EmptySet
  <2> QED
    BY <2>1, <2>2, <2>3, <2>4
<1>14. ASSUME NEW o \in Ids, NEW k \in PendingNonces(o, provided)
       PROVE  /\ k \in AccountNonce /\ k # key
              /\ k \in PendingNonces(o, sims_that_update_one_nonce)
  <2>1. k \in AccountNonce
    BY NonceKeysOfOrders
  <2>2. provided[k] = NoSim
    BY DEF PendingNonces
  <2>3. k # key
    BY <1>1, <1>10, <2>1, <2>2
  <2>4. sims_that_update_one_nonce[k] = NoSim
    BY <1>10, <2>1, <2>2, <2>3
  <2> QED
    BY <2>1, <2>3, <2>4 DEF PendingNonces
<1>15. ASSUME NEW o \in W
       PROVE  o \in Ids /\ PendingNonces(o, provided) = {}
  <2>1. o \in pending_nonces[key] /\ left[o] = 0
    BY <1>4
  <2>2. /\ o \in Ids /\ pending_orders[o] \in Nat
        /\ pending_orders[o] = Cardinality(waiting(o))
        /\ key \in waiting(o) /\ pending_orders[o] # 0
    BY <1>13, <2>1
  <2>3. pending_orders[o] = 1
    BY <1>3, <2>1, <2>2
  <2>4. waiting(o) = {key}
    <3>1. \E x : waiting(o) = {x}
      BY <2>2, <2>3, WaitingIsFinite, FS_Singleton
    <3> QED
      BY <2>2, <3>1
  <2>5. ASSUME NEW k \in PendingNonces(o, provided) PROVE FALSE
    <3>1. k \in AccountNonce /\ k # key /\ k \in PendingNonces(o, sims_that_update_one_nonce)
      BY <1>14, <2>2
    <3>2. o \in pending_nonces[k]
      BY <2>2, <3>1 DEF PathInv, ListedOK
    <3>3. k \in waiting(o)
      BY <3>1, <3>2 DEF waiting
    <3> QED
      BY <2>4, <3>1, <3>3
  <2> QED
    BY <2>2, <2>5
<1>16. ASSUME NEW i \in 1..n
       PROVE  more[i] \in RequestSet /\ more[i].id = requests + i /\ GoodPath(more[i])
  <2>1. PICK o : o = woken[i]
    OBVIOUS
  <2>2. o \in W
    BY <1>8, <2>1
  <2>3. o \in Ids /\ PendingNonces(o, provided) = {} /\ requests + i \in Nat
    BY <1>1, <1>15, <2>2
  <2>4. more[i] = request(o, requests + i, results, provided)
    BY <1>5, <1>9, <2>1
  <2>5. PICK id \in Nat : id = requests + i
    BY <2>3
  <2>6. /\ request(o, id, results, provided) \in RequestSet
        /\ request(o, id, results, provided).id = id
        /\ GoodPath(request(o, id, results, provided))
    BY <1>12, <2>3, <2>5, RequestIsGood
  <2> QED
    BY <2>4, <2>5, <2>6
<1>17. more \in Seq(RequestSet) /\ Len(more) = n
  <2>1. more = [i \in 1..n |-> more[i]]
    BY <1>5, <1>9
  <2>2. \A i \in 1..n : more[i] \in RequestSet
    BY <1>16
  <2> QED
    BY <2>1, <2>2
<1>18. RequestsOK' /\ IdsOK' /\ PathsOK'
  <2>1. {r} \in SUBSET running
    OBVIOUS
  <2>2. DOMAIN sims' \subseteq DOMAIN sims \cup {x.id : x \in {r}}
    OBVIOUS
  <2>3. \A i \in 1..Len(more) : more[i].id = requests + i /\ GoodPath(more[i])
    BY <1>16, <1>17
  <2>4. ready_orders' = ready_orders \o more /\ requests' = requests + Len(more)
    BY <1>6, <1>9, <1>17
  <2>5. RequestsOK /\ IdsOK /\ PathsOK
    BY DEF PathInv
  <2> QED
    BY <1>17, <2>1, <2>2, <2>3, <2>4, <2>5, Queued
<1>19. ListedOK'
  <2>1. ASSUME NEW o \in Ids, left[o] # 0, NEW k \in PendingNonces(o, provided)
        PROVE  o \in pending_nonces'[k]
    <3>1. k \in AccountNonce /\ k # key /\ k \in PendingNonces(o, sims_that_update_one_nonce)
      BY <1>14
    <3>2. pending_orders[o] # 0
      <4>1. CASE o \in pending_nonces[key]
        BY <1>13, <4>1
      <4>2. CASE o \notin pending_nonces[key]
        BY <1>3, <2>1, <4>2
      <4> QED
        BY <4>1, <4>2
    <3>3. o \in pending_nonces[k]
      BY <3>1, <3>2 DEF PathInv, ListedOK
    <3> QED
      BY <1>6, <3>1, <3>3 DEF PathInv, IndInv, TypeOK
  <2> QED
    BY <1>6, <2>1 DEF ListedOK
<1> QED
  BY <1>11, <1>18, <1>19

\* A result that wakes nobody.
LEMMA OtherResults ==
  ASSUME PathInv, NEW r \in running, NEW result, NEW results,
         results = [i \in DOMAIN sims \cup {r.id} |-> IF i = r.id THEN result ELSE sims[i]],
         running' = running \ {r},
         sims' = results,
         UNCHANGED <<pending_orders, pending_nonces, ready_orders, requests>>,
         \A k \in AccountNonce :
           \/ sims_that_update_one_nonce'[k] = sims_that_update_one_nonce[k]
           \/ /\ sims_that_update_one_nonce'[k] = r.id
              /\ LeadsTo(chain(result), k.account, k.nonce)
              /\ sims_that_update_one_nonce[k] # NoSim
  PROVE  RequestsOK' /\ IdsOK' /\ PathsOK' /\ SimsLead' /\ ListedOK'
<1>1. r.id \in Nat /\ r.id # NoSim /\ r.id \notin DOMAIN sims /\ r.id \in 1..requests /\ requests \in Nat
  BY DEF PathInv, IdsOK, RequestsOK, NoSim
<1>2. SimsLead'
  BY <1>1, LeadsAfter DEF PathInv
<1>3. RequestsOK' /\ IdsOK' /\ PathsOK'
  <2>1. {r} \in SUBSET running
    OBVIOUS
  <2>2. DOMAIN sims' \subseteq DOMAIN sims \cup {x.id : x \in {r}}
    OBVIOUS
  <2>3. PICK more : more = << >>
    OBVIOUS
  <2>4. more \in Seq(RequestSet) /\ Len(more) = 0
    BY <2>3
  <2>5. \A i \in 1..Len(more) : more[i].id = requests + i /\ GoodPath(more[i])
    BY <2>4
  <2>6. ready_orders' = ready_orders \o more /\ requests' = requests + Len(more)
    BY <1>1, <2>3, <2>4 DEF PathInv, RequestsOK
  <2>7. RequestsOK /\ IdsOK /\ PathsOK
    BY DEF PathInv
  <2> QED
    BY <2>1, <2>2, <2>4, <2>5, <2>6, <2>7, Queued
<1>4. ListedOK'
  <2>1. \A o \in Ids : PendingNonces(o, sims_that_update_one_nonce') \subseteq
                       PendingNonces(o, sims_that_update_one_nonce)
    <3> SUFFICES ASSUME NEW o \in Ids, NEW k \in PendingNonces(o, sims_that_update_one_nonce')
                 PROVE  k \in PendingNonces(o, sims_that_update_one_nonce)
      OBVIOUS
    <3>1. k \in AccountNonce
      BY NonceKeysOfOrders
    <3>2. sims_that_update_one_nonce'[k] = NoSim
      BY DEF PendingNonces
    <3>3. sims_that_update_one_nonce[k] = NoSim
      BY <1>1, <3>1, <3>2
    <3> QED
      BY <3>3 DEF PendingNonces
  <2> QED
    BY <2>1 DEF PathInv, ListedOK
<1> QED
  BY <1>2, <1>3, <1>4

\* submit_simulation_tasks_results.
LEMMA Submitted ==
  ASSUME PathInv, NEW r \in running, NEW failing, SubmitResult(r, failing)
  PROVE  RequestsOK' /\ IdsOK' /\ PathsOK' /\ SimsLead' /\ ListedOK'
<1>1. PICK before : before = execute_all(r.parents, Onchain)
  OBVIOUS
<1>2. PICK after : after = IF before = << >> THEN << >> ELSE execute(r.order, before, failing)
  OBVIOUS
<1>3. PICK changed : changed = {a \in Accounts : after[a] # before[a]}
  OBVIOUS
<1>4. PICK result : result = [id |-> r.id, order |-> r.order, previous_orders |-> r.parents]
  OBVIOUS
<1>5. PICK results : results = [i \in DOMAIN sims \cup {r.id} |-> IF i = r.id THEN result ELSE sims[i]]
  OBVIOUS
<1>6. /\ running' = running \ {r}
      /\ after # << >>
      /\ sims' = results
      /\ IF Cardinality(changed) = 1
         THEN \E a \in changed : \E key \in {k \in AccountNonce : k.account = a /\ k.nonce = after[a]} :
                IF sims_that_update_one_nonce[key] = NoSim
                THEN process_new_nonce(result, key, results)
                ELSE process_known_nonce(result, key, results)
         ELSE UNCHANGED <<sims_that_update_one_nonce, pending_orders, pending_nonces,
                          ready_orders, requests>>
  BY <1>1, <1>2, <1>3, <1>4, <1>5, Zenon DEF SubmitResult
<1>7. CASE Cardinality(changed) # 1
  <2>1. UNCHANGED <<sims_that_update_one_nonce, pending_orders, pending_nonces, ready_orders, requests>>
    BY <1>6, <1>7
  <2> QED
    BY <1>5, <1>6, <2>1, OtherResults
<1>8. CASE Cardinality(changed) = 1
  <2>1. PICK a \in changed, key \in AccountNonce :
          /\ key.account = a /\ key.nonce = after[a]
          /\ IF sims_that_update_one_nonce[key] = NoSim
             THEN process_new_nonce(result, key, results)
             ELSE process_known_nonce(result, key, results)
    BY <1>6, <1>8
  <2>2. changed = {a}
    <3>1. IsFiniteSet(changed)
      BY <1>3, SimConstants, FS_Subset
    <3>2. \E x : changed = {x}
      BY <1>8, <3>1, FS_Singleton
    <3> QED
      BY <2>1, <3>2
  <2>3. /\ r \in RequestSet /\ GoodPath(r)
        /\ before # << >> /\ after = execute(r.order, before, failing)
        /\ after # << >>
        /\ a \in Accounts
        /\ OnlyChange(before, after, a)
    BY <1>2, <1>3, <1>6, <2>2 DEF PathInv, RequestsOK, PathsOK, OnlyChange
  <2>4. LeadsTo(Append(r.parents, r.order), a, after[a])
    BY <1>1, <2>3, ResultLeads
  <2>5. LeadsTo(chain(result), key.account, key.nonce) /\ result.id = r.id
    BY <1>4, <2>1, <2>4 DEF chain
  <2>6. CASE sims_that_update_one_nonce[key] = NoSim
    BY <1>5, <1>6, <2>1, <2>5, <2>6, WokenPaths
  <2>7. CASE sims_that_update_one_nonce[key] # NoSim
    <3>1. process_known_nonce(result, key, results)
      BY <2>1, <2>7
    <3>2. /\ \E id \in {r.id, sims_that_update_one_nonce[key]} :
               sims_that_update_one_nonce' = [sims_that_update_one_nonce EXCEPT ![key] = id]
          /\ UNCHANGED <<pending_orders, pending_nonces, ready_orders, requests>>
      BY <2>5, <3>1 DEF process_known_nonce
    <3>3. \A k \in AccountNonce :
           \/ sims_that_update_one_nonce'[k] = sims_that_update_one_nonce[k]
           \/ /\ sims_that_update_one_nonce'[k] = r.id
              /\ LeadsTo(chain(result), k.account, k.nonce)
              /\ sims_that_update_one_nonce[k] # NoSim
      BY <2>5, <2>7, <3>2 DEF PathInv, IndInv, TypeOK
    <3> QED
      BY <1>5, <1>6, <3>2, <3>3, OtherResults
  <2> QED
    BY <2>6, <2>7
<1> QED
  BY <1>7, <1>8

\* The tree is empty.
LEMMA InitPathInv == SimInit => PathInv
<1> SUFFICES ASSUME SimInit PROVE PathInv
  OBVIOUS
<1>1. IndInv
  BY InitIndInv
<1>2. RequestsOK /\ IdsOK /\ PathsOK
  <2>1. ready_orders = << >> /\ running = {} /\ requests = 0 /\ sims = << >>
    BY DEF SimInit
  <2>2. ready_orders \in Seq(RequestSet) /\ Len(ready_orders) = 0 /\ DOMAIN sims = {}
    BY <2>1
  <2> QED
    BY <2>1, <2>2 DEF RequestsOK, IdsOK, PathsOK
<1>3. SimsLead /\ ListedOK
  BY DEF SimInit, SimsLead, ListedOK, NoSim
<1> QED
  BY <1>1, <1>2, <1>3 DEF PathInv

\* Whatever orders are pushed, taken and simulated, in whatever order results come or fail
\* to come: an id names one simulation, a simulation noted for a nonce leads there from
\* the chain, a waiting order is listed under all it needs, and parents lead to orders.
THEOREM PathInvariance == SimSpec => []PathInv
<1>1. PathInv /\ [SimNext]_simVars => PathInv'
  <2> SUFFICES ASSUME PathInv, [SimNext]_simVars PROVE PathInv'
    OBVIOUS
  <2>1. IndInv'
    BY IndInvStep DEF PathInv
  <2>2. CASE UNCHANGED simVars
    <3>1. RequestsOK' /\ IdsOK' /\ PathsOK' /\ SimsLead' /\ ListedOK'
      BY <2>2 DEF simVars, PathInv, RequestsOK, IdsOK, PathsOK, SimsLead, ListedOK
    <3> QED
      BY <2>1, <3>1 DEF PathInv
  <2>3. ASSUME NEW o \in Ids, PushOrderReady(o) PROVE PathInv'
    BY <2>1, <2>3, PushedReady DEF PathInv
  <2>4. ASSUME NEW o \in Ids, PushOrderPending(o) PROVE PathInv'
    BY <2>1, <2>4, PushedPending DEF PathInv
  <2>5. ASSUME NEW limit \in 1..2, PopSimulationTasks(limit) PROVE PathInv'
    <3>1. RequestsOK' /\ IdsOK' /\ PathsOK'
      BY <2>5, Popped DEF PathInv
    <3>2. SimsLead' /\ ListedOK'
      BY <2>5 DEF PopSimulationTasks, PathInv, SimsLead, ListedOK
    <3> QED
      BY <2>1, <3>1, <3>2 DEF PathInv
  <2>6. ASSUME NEW r \in running, SimulationFails(r) PROVE PathInv'
    <3>1. running' = running \ {r}
      BY <2>6 DEF SimulationFails
    <3>2. UNCHANGED <<sims, sims_that_update_one_nonce, pending_orders, pending_nonces,
                      ready_orders, requests>>
      BY <2>6 DEF SimulationFails
    <3>3. RequestsOK' /\ IdsOK' /\ PathsOK' /\ SimsLead' /\ ListedOK'
      BY <3>1, <3>2 DEF PathInv, RequestsOK, IdsOK, PathsOK, SimsLead, ListedOK
    <3> QED
      BY <2>1, <3>3 DEF PathInv
  <2>7. ASSUME NEW r \in running, NEW failing, SubmitResult(r, failing) PROVE PathInv'
    BY <2>1, <2>7, Submitted DEF PathInv
  <2> QED
    BY <2>2, <2>3, <2>4, <2>5, <2>6, <2>7 DEF SimNext
<1> QED
  BY <1>1, InitPathInv, PTL DEF SimSpec

\* The orders that a request is to be simulated after lead from the nonces of the chain to
\* those that its order starts with, also when simulations were replaced by better ones
\* while it waited (sim_tree.rs, get_order_nonce_state).
THEOREM ParentsLeadThere == SimSpec => []ParentsLeadToTheOrder
<1>1. PathInv => ParentsLeadToTheOrder
  <2> SUFFICES ASSUME PathInv,
                      NEW r \in ToSet(ready_orders) \cup running,
                      \A p \in ToSet(r.parents) : \A tx \in ToSet(SimOrders[p]) : ~tx.optional
               PROVE  LET after == execute_all(r.parents, Onchain)
                      IN /\ after # << >>
                         /\ \A i \in ahead(r.order) :
                              after[SimOrders[r.order][i].account] = SimOrders[r.order][i].nonce
    BY DEF ParentsLeadToTheOrder
  <2>1. r \in RequestSet /\ GoodPath(r)
    <3>1. ready_orders \in Seq(RequestSet)
      BY DEF PathInv, RequestsOK
    <3>2. ToSet(ready_orders) = {ready_orders[i] : i \in 1..Len(ready_orders)}
      BY <3>1 DEF ToSet
    <3> QED
      BY <3>1, <3>2 DEF PathInv, RequestsOK, PathsOK
  <2>2. PICK o \in Ids, c \in Seq(Ids) : o = r.order /\ c = r.parents
    BY <2>1 DEF RequestSet
  <2>3. FirmAll(c)
    <3> SUFFICES ASSUME NEW i \in 1..Len(c), NEW j \in DOMAIN SimOrders[c[i]]
                 PROVE  ~SimOrders[c[i]][j].optional
      BY DEF FirmAll, Firm
    <3>1. c[i] \in ToSet(r.parents)
      BY <2>2 DEF ToSet
    <3>2. SimOrders[c[i]][j] \in ToSet(SimOrders[c[i]])
      BY DEF ToSet
    <3> QED
      BY <3>1, <3>2
  <2>4. Onchain \in SimNonces /\ StartsOnchain(o, Onchain)
    BY SimConstants DEF SimNonces, StartsOnchain
  <2>5. PICK after : after = execute_all(c, Onchain)
    OBVIOUS
  <2>6. PICK len \in Nat : len = Len(SimOrders[o]) /\ DOMAIN SimOrders[o] = 1..len
    BY SimConstants DEF Ids
  <2>7. ReachesTo(o, len, Onchain, after)
    BY <2>1, <2>2, <2>3, <2>4, <2>5, <2>6 DEF GoodPath, PathTo
  <2>8. \A i \in ahead(o) : i <= len
    BY <2>6 DEF ahead, considered
  <2>9. after \in SimNonces /\ \A i \in ahead(o) : after[SimOrders[o][i].account] = SimOrders[o][i].nonce
    BY <2>7, <2>8 DEF ReachesTo
  <2>10. after # << >>
    BY <2>9, SomeNonces
  <2> QED
    BY <2>2, <2>5, <2>9, <2>10
<1> QED
  BY <1>1, PathInvariance, PTL
=============================================================================
