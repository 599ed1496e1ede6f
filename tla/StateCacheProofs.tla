-------------------------- MODULE StateCacheProofs --------------------------
(***************************************************************************)
(* What payload jobs read is the state of their parent block, for any      *)
(* tree of blocks, number of jobs and queue of notifications.              *)
(***************************************************************************)
EXTENDS StateCache, SequenceTheorems, TLAPS

(***************************************************************************)
(* Types                                                                   *)
(***************************************************************************)

Blocks == [parent : Nat, accounts : [Addresses -> Accounts], codes : SUBSET Codes,
           destroyed : SUBSET Addresses]

Values == Nat \cup {NotCached}

Slots == [Addresses -> [Keys -> Values]]

Caches == [account : [Addresses -> Values], storage : [Addresses -> Owners \cup {NoCache}],
           code : [Codes -> Values]]

TypeOK ==
  /\ chain \in Seq(Blocks)
  /\ tip \in DOMAIN chain
  /\ commits \in 0..MaxCommits
  /\ heap \in [Owners -> Slots]
  /\ pre_cached \in [block : Nat, cache : Caches]
  /\ jobs \in [Jobs -> [parent : Nat, cache : Caches]]
  /\ pre_cached.block \in {0} \cup DOMAIN chain
  /\ \A j \in Jobs : jobs[j].parent \in {0} \cup DOMAIN chain

\* Notifications wait in the order of their numbers, and are of blocks of the tree.
Queue ==
  /\ \E S : notifications \in Seq(S)
  /\ \A i \in DOMAIN notifications :
       notifications[i].id \in 1..commits /\ notifications[i].tip \in DOMAIN chain
  /\ \A i, k \in DOMAIN notifications : i < k => notifications[i].id < notifications[k].id

\* A block of the tree has what it had.
LEMMA BlocksStay ==
  ASSUME TypeOK, [Next]_vars
  PROVE  /\ chain' \in Seq(Blocks)
         /\ \A b \in DOMAIN chain : b \in DOMAIN chain' /\ chain'[b] = chain[b] /\ b \in Nat \ {0}
<1>1. ASSUME NEW parent \in DOMAIN chain, NEW update \in Updates, NewBlock(parent, update)
      PROVE  /\ chain' \in Seq(Blocks)
             /\ \A b \in DOMAIN chain : b \in DOMAIN chain' /\ chain'[b] = chain[b]
  <2> DEFINE accounts == [a \in Addresses |-> IF a \in DOMAIN update.accounts
                                              THEN update.accounts[a] ELSE chain[parent].accounts[a]]
             block == [parent |-> parent, accounts |-> accounts,
                       codes |-> chain[parent].codes \cup update.codes,
                       destroyed |-> update.destroyed]
  <2>1. chain' = Append(chain, block)
    BY <1>1 DEF NewBlock
  <2>2. parent \in Nat /\ chain[parent] \in Blocks
    BY LenProperties, ElementOfSeq DEF TypeOK
  <2>3. accounts \in [Addresses -> Accounts]
    BY <2>2, CacheConstants DEF Blocks
  <2>4. block \in Blocks
    <3> HIDE DEF accounts
    <3> QED
      BY <2>2, <2>3, CacheConstants DEF Blocks
  <2> HIDE DEF block
  <2>5. chain' \in Seq(Blocks) /\ Len(chain') = Len(chain) + 1 /\ Len(chain) \in Nat
        /\ \A b \in 1..Len(chain) : chain'[b] = chain[b]
    BY <2>1, <2>4, AppendProperties, LenProperties DEF TypeOK
  <2> QED
    BY <2>5, LenProperties DEF TypeOK
<1>2. \/ \E parent \in DOMAIN chain, update \in Updates : NewBlock(parent, update)
      \/ UNCHANGED chain
  BY DEF Next, vars, nodeVars, Commit, OnNewState, NewPayloadJob, BasicAccount, Storage,
       BytecodeByHash, EndJob
<1>3. \A b \in DOMAIN chain : b \in Nat \ {0}
  BY LenProperties DEF TypeOK
<1> QED
  BY <1>1, <1>2, <1>3 DEF TypeOK

\* Empty caches, and the job that has not begun.
LEMMA DefaultCache ==
  /\ ExecutionCacheDefault \in Caches
  /\ \A a \in Addresses : ExecutionCacheDefault.storage[a] = NoCache
  /\ NoJob \in [parent : Nat, cache : Caches] /\ NoJob.parent = 0
  /\ NoSlots \in Slots
BY DEF ExecutionCacheDefault, Caches, NoJob, NoSlots, Slots, Values

\* insert_state: what it takes from a chain is the state at the tip of it.
LEMMA InsertedState ==
  ASSUME TypeOK, NEW n, n.tip \in DOMAIN chain, n.id \in 1..MaxCommits
  PROVE  LET new == insert_state(n) IN
         /\ new.cache \in Caches /\ new.slots \in Slots
         /\ \A a \in Addresses :
              /\ new.cache.account[a] \in {NotCached, chain[n.tip].accounts[a].info}
              /\ new.cache.storage[a] \in {NoCache, n.id}
              /\ \A k \in Keys :
                   new.slots[a][k] \in {NotCached, chain[n.tip].accounts[a].slots[k]}
         /\ \A h \in Codes :
              new.cache.code[h] \in {NotCached, IF h \in chain[n.tip].codes THEN 1 ELSE 0}
<1> DEFINE changed == {a \in Addresses : bundle_account(n, a).status = "changed"}
           account == [a \in Addresses |->
                         IF a \in changed THEN bundle_account(n, a).info ELSE NotCached]
           storage == [a \in Addresses |-> IF a \in changed THEN n.id ELSE NoCache]
           code == [h \in Codes |-> IF h \in contracts(n) THEN 1 ELSE NotCached]
           slots == [a \in Addresses |-> [k \in Keys |->
                       IF a \in changed /\ k \in bundle_account(n, a).storage
                       THEN chain[n.tip].accounts[a].slots[k] ELSE NotCached]]
<1>1. insert_state(n) = [cache |-> [account |-> account, storage |-> storage, code |-> code],
                         slots |-> slots]
  BY DEF insert_state
<1>2. chain[n.tip] \in Blocks
  BY ElementOfSeq, LenProperties DEF TypeOK
<1>3. \A a \in Addresses : chain[n.tip].accounts[a] \in Accounts
  BY <1>2 DEF Blocks
<1>4. \A a \in Addresses : bundle_account(n, a).info = chain[n.tip].accounts[a].info
  BY DEF bundle_account
<1>5. /\ account \in [Addresses -> Values]
      /\ \A a \in Addresses : account[a] \in {NotCached, chain[n.tip].accounts[a].info}
  <2> HIDE DEF changed
  <2>1. \A a \in Addresses : chain[n.tip].accounts[a].info \in Nat
    BY <1>3 DEF Accounts
  <2> QED
    BY <1>4, <2>1 DEF Values
<1>6. /\ storage \in [Addresses -> Owners \cup {NoCache}]
      /\ \A a \in Addresses : storage[a] \in {NoCache, n.id}
  <2> HIDE DEF changed
  <2> QED
    BY DEF Owners
<1>7. /\ code \in [Codes -> Values]
      /\ \A h \in Codes : code[h] \in {NotCached, IF h \in chain[n.tip].codes THEN 1 ELSE 0}
  BY DEF Values, contracts
<1>8. /\ slots \in Slots
      /\ \A a \in Addresses, k \in Keys :
           slots[a][k] \in {NotCached, chain[n.tip].accounts[a].slots[k]}
  <2> HIDE DEF changed
  <2>1. \A a \in Addresses, k \in Keys : chain[n.tip].accounts[a].slots[k] \in Nat
    BY <1>3 DEF Accounts
  <2> QED
    BY <2>1 DEF Slots, Values
<1> HIDE DEF account, storage, code, slots
<1>9. [account |-> account, storage |-> storage, code |-> code] \in Caches
  BY <1>5, <1>6, <1>7 DEF Caches
<1> QED
  BY <1>1, <1>5, <1>6, <1>7, <1>8, <1>9

\* The next notification.
LEMMA HeadOfQueue ==
  ASSUME TypeOK, Queue, notifications # << >>
  PROVE  /\ 1 \in DOMAIN notifications /\ Head(notifications) = notifications[1]
         /\ Head(notifications).id \in 1..commits /\ Head(notifications).id \in 1..MaxCommits
         /\ Head(notifications).tip \in DOMAIN chain
<1>1. PICK S : notifications \in Seq(S)
  BY DEF Queue
<1>2. 1 \in DOMAIN notifications /\ Head(notifications) = notifications[1]
  BY <1>1
<1>3. commits \in Nat /\ commits <= MaxCommits
  BY CacheConstants DEF TypeOK
<1> QED
  BY <1>2, <1>3, CacheConstants DEF Queue

\* What the node answers at the parent of a job.
LEMMA ProvidedState ==
  ASSUME TypeOK, NEW j \in Jobs, jobs[j].parent # 0
  PROVE  \A a \in Addresses : /\ state_provider(j).accounts[a].info \in Nat
                              /\ \A k \in Keys : state_provider(j).accounts[a].slots[k] \in Nat
<1>1. state_provider(j) \in Blocks
  BY ElementOfSeq, LenProperties DEF TypeOK, state_provider
<1> QED
  BY <1>1 DEF Blocks, Accounts

\* One step per action of the node, the generator and the jobs.
LEMMA NextTypeOK == TypeOK /\ Queue /\ [Next]_vars => TypeOK'
<1> SUFFICES ASSUME TypeOK, Queue, [Next]_vars PROVE TypeOK'
  OBVIOUS
<1>1. chain' \in Seq(Blocks)
  BY BlocksStay
<1>2. tip' \in DOMAIN chain'
  <2>1. \/ \E b \in DOMAIN chain : Commit(b)
        \/ UNCHANGED tip
    BY DEF Next, vars, nodeVars, NewBlock, OnNewState, NewPayloadJob, BasicAccount, Storage,
         BytecodeByHash, EndJob
  <2>2. tip' \in DOMAIN chain
    BY <2>1 DEF Commit, TypeOK
  <2> QED
    BY <2>2, BlocksStay
<1>3. commits' \in 0..MaxCommits
  <2>1. ASSUME NEW b, Commit(b)
        PROVE  commits' \in 0..MaxCommits
    BY <2>1, CacheConstants DEF Commit, TypeOK
  <2>2. \/ \E b \in DOMAIN chain : Commit(b)
        \/ UNCHANGED commits
    BY DEF Next, vars, nodeVars, NewBlock, OnNewState, NewPayloadJob, BasicAccount, Storage,
         BytecodeByHash, EndJob
  <2> QED
    BY <2>1, <2>2 DEF TypeOK
<1>4. ASSUME OnNewState
      PROVE  TypeOK'
  <2>1. PICK n : n = Head(notifications)
    OBVIOUS
  <2>2. n.tip \in DOMAIN chain /\ n.id \in 1..MaxCommits
    BY <1>4, <2>1, HeadOfQueue DEF OnNewState
  <2>3. n.tip \in Nat /\ n.id \in Owners
    BY <2>2, BlocksStay DEF Owners
  <2>4. insert_state(n).cache \in Caches /\ insert_state(n).slots \in Slots
    BY <2>2, InsertedState
  <2>5. /\ \/ UNCHANGED <<pre_cached, heap>>
           \/ /\ pre_cached' = [block |-> n.tip, cache |-> insert_state(n).cache]
              /\ heap' = [heap EXCEPT ![n.id] = insert_state(n).slots]
        /\ UNCHANGED <<chain, jobs>>
    BY <1>4, <2>1 DEF OnNewState
  <2>6. heap' \in [Owners -> Slots] /\ pre_cached' \in [block : Nat, cache : Caches]
    BY <2>3, <2>4, <2>5 DEF TypeOK
  <2>7. pre_cached'.block \in {0} \cup DOMAIN chain
    BY <2>2, <2>5 DEF TypeOK
  <2> QED
    BY <1>1, <1>2, <1>3, <2>5, <2>6, <2>7 DEF TypeOK
<1>5. ASSUME NEW j \in Jobs, NEW parent \in DOMAIN chain, NewPayloadJob(j, parent)
      PROVE  TypeOK'
  <2>1. parent \in Nat /\ j \in Owners
    BY BlocksStay DEF Owners
  <2>2. maybe_pre_cached(parent) \in Caches
    BY DefaultCache DEF maybe_pre_cached, TypeOK
  <2>3. /\ jobs' = [jobs EXCEPT ![j] = [parent |-> parent, cache |-> maybe_pre_cached(parent)]]
        /\ heap' = [heap EXCEPT ![j] = NoSlots]
        /\ UNCHANGED <<chain, pre_cached>>
    BY <1>5 DEF NewPayloadJob, nodeVars
  <2>4. heap' \in [Owners -> Slots] /\ jobs' \in [Jobs -> [parent : Nat, cache : Caches]]
    BY <2>1, <2>2, <2>3, DefaultCache DEF TypeOK
  <2>5. \A i \in Jobs : jobs'[i].parent \in {0} \cup DOMAIN chain
    BY <2>3 DEF TypeOK
  <2> QED
    BY <1>1, <1>2, <1>3, <2>3, <2>4, <2>5 DEF TypeOK
<1>6. ASSUME NEW j \in Jobs, EndJob(j)
      PROVE  TypeOK'
  <2>1. jobs' = [jobs EXCEPT ![j] = NoJob] /\ UNCHANGED <<chain, heap, pre_cached>>
    BY <1>6 DEF EndJob, nodeVars
  <2>2. /\ jobs' \in [Jobs -> [parent : Nat, cache : Caches]]
        /\ \A i \in Jobs : jobs'[i].parent \in {0} \cup DOMAIN chain
    BY <2>1, DefaultCache DEF TypeOK
  <2> QED
    BY <1>1, <1>2, <1>3, <2>1, <2>2 DEF TypeOK
<1>7. ASSUME NEW j \in Jobs, NEW a \in Addresses, BasicAccount(j, a)
      PROVE  TypeOK'
  <2> DEFINE info == state_provider(j).accounts[a].info
  <2>1. info \in Values
    BY <1>7, ProvidedState DEF BasicAccount, Values
  <2>2. jobs' = [jobs EXCEPT ![j].cache.account[a] = info] /\ UNCHANGED <<chain, heap, pre_cached>>
    BY <1>7 DEF BasicAccount, nodeVars
  <2> HIDE DEF info
  <2>3. /\ jobs' \in [Jobs -> [parent : Nat, cache : Caches]]
        /\ \A i \in Jobs : jobs'[i].parent = jobs[i].parent
    BY <2>1, <2>2 DEF TypeOK, Caches
  <2> QED
    BY <1>1, <1>2, <1>3, <2>2, <2>3 DEF TypeOK
<1>8. ASSUME NEW j \in Jobs, NEW h \in Codes, BytecodeByHash(j, h)
      PROVE  TypeOK'
  <2> DEFINE known == IF h \in state_provider(j).codes THEN 1 ELSE 0
  <2>1. known \in Values
    BY DEF Values
  <2>2. jobs' = [jobs EXCEPT ![j].cache.code[h] = known] /\ UNCHANGED <<chain, heap, pre_cached>>
    BY <1>8 DEF BytecodeByHash, nodeVars
  <2> HIDE DEF known
  <2>3. /\ jobs' \in [Jobs -> [parent : Nat, cache : Caches]]
        /\ \A i \in Jobs : jobs'[i].parent = jobs[i].parent
    BY <2>1, <2>2 DEF TypeOK, Caches
  <2> QED
    BY <1>1, <1>2, <1>3, <2>2, <2>3 DEF TypeOK
<1>9. ASSUME NEW j \in Jobs, NEW a \in Addresses, NEW k \in Keys, Storage(j, a, k)
      PROVE  TypeOK'
  <2> DEFINE value == state_provider(j).accounts[a].slots[k]
             owner == IF jobs[j].cache.storage[a] = NoCache THEN j ELSE jobs[j].cache.storage[a]
  <2>1. value \in Values
    BY <1>9, ProvidedState DEF Storage, Values
  <2>2. owner \in Owners
    BY DEF TypeOK, Caches, Owners
  <2>3. /\ jobs' = [jobs EXCEPT ![j].cache.storage[a] = owner]
        /\ heap' = [heap EXCEPT ![owner][a][k] = value]
        /\ UNCHANGED <<chain, pre_cached>>
    BY <1>9 DEF Storage, insert_storage, nodeVars
  <2> HIDE DEF value, owner
  <2>4. /\ jobs' \in [Jobs -> [parent : Nat, cache : Caches]]
        /\ \A i \in Jobs : jobs'[i].parent = jobs[i].parent
    BY <2>2, <2>3 DEF TypeOK, Caches
  <2>5. heap' \in [Owners -> Slots]
    BY <2>1, <2>2, <2>3 DEF TypeOK, Slots
  <2> QED
    BY <1>1, <1>2, <1>3, <2>3, <2>4, <2>5 DEF TypeOK
<1>10. CASE UNCHANGED <<heap, pre_cached, jobs>>
  <2>1. /\ pre_cached.block \in {0} \cup DOMAIN chain'
        /\ \A j \in Jobs : jobs[j].parent \in {0} \cup DOMAIN chain'
    BY BlocksStay DEF TypeOK
  <2> QED
    BY <1>1, <1>2, <1>3, <1>10, <2>1 DEF TypeOK
<1>11. \/ OnNewState
       \/ \E j \in Jobs : \/ \E parent \in DOMAIN chain : NewPayloadJob(j, parent)
                          \/ \E a \in Addresses : \/ BasicAccount(j, a)
                                                  \/ \E k \in Keys : Storage(j, a, k)
                          \/ \E h \in Codes : BytecodeByHash(j, h)
                          \/ EndJob(j)
       \/ UNCHANGED <<heap, pre_cached, jobs>>
  BY DEF Next, vars, NewBlock, Commit
<1> QED
  BY <1>4, <1>5, <1>6, <1>7, <1>8, <1>9, <1>10, <1>11

\* Notifications are numbered as they come.
LEMMA NextQueue == TypeOK /\ Queue /\ [Next]_vars => Queue'
<1> SUFFICES ASSUME TypeOK, Queue, [Next]_vars PROVE Queue'
  OBVIOUS
<1>1. PICK S : notifications \in Seq(S)
  BY DEF Queue
<1>2. ASSUME NEW b \in DOMAIN chain, Commit(b)
      PROVE  Queue'
  <2> DEFINE new == [id |-> commits', fork |-> fork(tip, b), tip |-> b]
             all == Append(notifications, new)
  <2>1. /\ commits' = commits + 1 /\ commits \in Nat /\ chain' = chain
        /\ notifications' = all \/ (notifications' = Tail(all) /\ all # << >>)
    <3>1. Len(<< >>) = 0 /\ Capacity \in Nat
      BY CacheConstants
    <3>2. commits' = commits + 1 /\ commits \in Nat /\ chain' = chain
      BY <1>2, CacheConstants DEF Commit, TypeOK
    <3>3. notifications' = IF Len(all) > Capacity THEN Tail(all) ELSE all
      BY <1>2 DEF Commit
    <3> HIDE DEF all
    <3>4. all = << >> => ~(Len(all) > Capacity)
      BY <3>1
    <3> QED
      BY <3>2, <3>3, <3>4
  <2>2. new.id = commits' /\ new.tip = b
    OBVIOUS
  <2> HIDE DEF new
  <2>3. notifications \in Seq(S \cup {new}) /\ all \in Seq(S \cup {new})
        /\ Len(all) = Len(notifications) + 1 /\ all[Len(all)] = new
        /\ \A i \in DOMAIN notifications : all[i] = notifications[i]
    BY <1>1
  <2> HIDE DEF all
  <2>4. \A i \in DOMAIN all : /\ i \in DOMAIN notifications \/ i = Len(all)
                              /\ all[i].id \in 1..commits' /\ all[i].tip \in DOMAIN chain'
    <3>1. \A i \in DOMAIN all : i \in DOMAIN notifications \/ i = Len(all)
      BY <2>3
    <3> QED
      BY <2>1, <2>2, <2>3, <3>1 DEF Queue
  <2>5. \A i, k \in DOMAIN all : i < k => all[i].id < all[k].id
    <3> SUFFICES ASSUME NEW i \in DOMAIN all, NEW k \in DOMAIN all, i < k
                 PROVE  all[i].id < all[k].id
      OBVIOUS
    <3>1. i \in DOMAIN notifications
      BY <2>3
    <3>2. CASE k \in DOMAIN notifications
      BY <2>3, <3>1, <3>2 DEF Queue
    <3>3. CASE k = Len(all)
      <4>1. all[i].id \in 1..commits /\ all[k].id = commits + 1
        BY <2>1, <2>2, <2>3, <3>1, <3>3 DEF Queue
      <4> QED
        BY <2>1, <4>1
    <3> QED
      BY <2>4, <3>2, <3>3
  <2>6. CASE notifications' = all
    BY <2>3, <2>4, <2>5, <2>6 DEF Queue
  <2>7. CASE notifications' = Tail(all) /\ all # << >>
    <3>1. /\ Tail(all) \in Seq(S \cup {new})
          /\ \A i \in DOMAIN Tail(all) : i + 1 \in DOMAIN all /\ Tail(all)[i] = all[i + 1] /\ i \in Nat
      BY <2>3, <2>7
    <3>2. \A i, k \in DOMAIN Tail(all) : i < k => i + 1 < k + 1
      BY <3>1
    <3> QED
      BY <2>4, <2>5, <2>7, <3>1, <3>2 DEF Queue
  <2> QED
    BY <2>1, <2>6, <2>7
<1>3. CASE OnNewState
  <2>1. notifications # << >> /\ notifications' = Tail(notifications) /\ UNCHANGED <<chain, commits>>
    BY <1>3 DEF OnNewState
  <2>2. /\ Tail(notifications) \in Seq(S)
        /\ \A i \in DOMAIN Tail(notifications) :
             i + 1 \in DOMAIN notifications /\ Tail(notifications)[i] = notifications[i + 1] /\ i \in Nat
    BY <1>1, <2>1
  <2>3. \A i, k \in DOMAIN Tail(notifications) : i < k => i + 1 < k + 1
    BY <2>2
  <2> QED
    BY <2>1, <2>2, <2>3 DEF Queue
<1>4. CASE UNCHANGED <<notifications, commits>>
  BY <1>4, BlocksStay DEF Queue
<1>5. \/ \E b \in DOMAIN chain : Commit(b)
      \/ OnNewState
      \/ UNCHANGED <<notifications, commits>>
  BY DEF Next, vars, nodeVars, NewBlock, NewPayloadJob, BasicAccount, Storage,
       BytecodeByHash, EndJob
<1> QED
  BY <1>2, <1>3, <1>4, <1>5

(***************************************************************************)
(* Who uses which storage cache                                            *)
(***************************************************************************)

\* The users of caches: jobs, and the generator with the one that is pre-cached.
Generator == 0
Users == Jobs \cup {Generator}

blockOf(u) == IF u = Generator THEN pre_cached.block ELSE jobs[u].parent
cacheOf(u) == IF u = Generator THEN pre_cached.cache ELSE jobs[u].cache
storageOf(u, a) == cacheOf(u).storage[a]

active(u) == blockOf(u) # 0

\* Storage caches are the user's own, or of a notification that is gone from the queue.
Naming ==
  \A u \in Users : active(u) => \A a \in Addresses :
    \/ storageOf(u, a) \in {NoCache, u}
    \/ /\ storageOf(u, a) \in 1..commits
       /\ \A i \in DOMAIN notifications : storageOf(u, a) < notifications[i].id

\* Who shares a storage cache shares the block.
Sharing ==
  \A u, v \in Users : active(u) /\ active(v) => \A a \in Addresses :
    storageOf(u, a) = storageOf(v, a) /\ storageOf(u, a) # NoCache => blockOf(u) = blockOf(v)

\* A user keeps its block; what it adds to its cache is what the node answers.
Reading(u) ==
  /\ active(u)
  /\ blockOf(u)' = blockOf(u)
  /\ \A a \in Addresses :
       /\ \/ storageOf(u, a)' = storageOf(u, a)
          \/ storageOf(u, a) = NoCache /\ storageOf(u, a)' = u
       /\ cacheOf(u)'.account[a] \in {cacheOf(u).account[a], chain[blockOf(u)].accounts[a].info}
  /\ \A h \in Codes :
       cacheOf(u)'.code[h] \in {cacheOf(u).code[h], IF h \in chain[blockOf(u)].codes THEN 1 ELSE 0}

\* The state of a notification takes the place of the pre-cached one.
Refreshing ==
  LET n == Head(notifications) IN
  /\ notifications # << >>
  /\ notifications' = Tail(notifications)
  /\ pre_cached' = [block |-> n.tip, cache |-> insert_state(n).cache]
  /\ heap' = [heap EXCEPT ![n.id] = insert_state(n).slots]
  /\ UNCHANGED <<chain, commits, jobs>>

\* How users and their caches change.
LEMMA UserOfAStep ==
  ASSUME TypeOK, [Next]_vars, NEW u \in Users, active(u)'
  PROVE  \/ Reading(u)
         \/ u \in Jobs /\ \E parent \in DOMAIN chain : NewPayloadJob(u, parent)
         \/ u = Generator /\ Refreshing
<1>0. Generator \notin Jobs
  BY CacheConstants DEF Generator
<1>1. CASE UNCHANGED <<blockOf(u), cacheOf(u)>>
  BY <1>1 DEF Reading, active, storageOf
<1>2. CASE u = Generator
  <2>1. OnNewState \/ UNCHANGED pre_cached
    BY DEF Next, vars, NewBlock, Commit, NewPayloadJob, BasicAccount, Storage, BytecodeByHash, EndJob
  <2>2. CASE UNCHANGED pre_cached
    <3>1. UNCHANGED <<blockOf(u), cacheOf(u)>>
      BY <1>2, <2>2 DEF blockOf, cacheOf
    <3> QED
      BY <1>1, <3>1
  <2>3. CASE OnNewState
    <3>1. UNCHANGED pre_cached \/ Refreshing
      BY <2>3 DEF OnNewState, Refreshing
    <3> QED
      BY <1>2, <2>2, <3>1
  <2> QED
    BY <2>1, <2>2, <2>3
<1>3. CASE u \in Jobs
  <2>0. /\ blockOf(u) = jobs[u].parent /\ cacheOf(u) = jobs[u].cache
        /\ blockOf(u)' = jobs'[u].parent /\ cacheOf(u)' = jobs'[u].cache
        /\ jobs[u] \in [parent : Nat, cache : Caches]
    BY <1>0, <1>3 DEF blockOf, cacheOf, TypeOK
  <2>1. CASE jobs'[u] = jobs[u]
    BY <1>1, <2>0, <2>1
  <2>2. ASSUME NEW a \in Addresses, BasicAccount(u, a)
        PROVE  Reading(u)
    <3> DEFINE info == chain[blockOf(u)].accounts[a].info
    <3>1. jobs' = [jobs EXCEPT ![u].cache.account[a] = info] /\ jobs[u].parent # 0
      BY <2>0, <2>2 DEF BasicAccount, state_provider
    <3> HIDE DEF info
    <3>2. /\ jobs'[u].parent = jobs[u].parent
          /\ jobs'[u].cache.storage = jobs[u].cache.storage
          /\ jobs'[u].cache.code = jobs[u].cache.code
          /\ \A c \in Addresses : \/ jobs'[u].cache.account[c] = jobs[u].cache.account[c]
                                  \/ c = a /\ jobs'[u].cache.account[c] = info
      BY <1>3, <3>1 DEF TypeOK, Caches
    <3> QED
      BY <2>0, <3>1, <3>2 DEF Reading, active, storageOf, info
  <2>3. ASSUME NEW h \in Codes, BytecodeByHash(u, h)
        PROVE  Reading(u)
    <3> DEFINE known == IF h \in chain[blockOf(u)].codes THEN 1 ELSE 0
    <3>1. jobs' = [jobs EXCEPT ![u].cache.code[h] = known] /\ jobs[u].parent # 0
      BY <2>0, <2>3 DEF BytecodeByHash, state_provider
    <3> HIDE DEF known
    <3>2. /\ jobs'[u].parent = jobs[u].parent
          /\ jobs'[u].cache.storage = jobs[u].cache.storage
          /\ jobs'[u].cache.account = jobs[u].cache.account
          /\ \A c \in Codes : \/ jobs'[u].cache.code[c] = jobs[u].cache.code[c]
                              \/ c = h /\ jobs'[u].cache.code[c] = known
      BY <1>3, <3>1 DEF TypeOK, Caches
    <3> QED
      BY <2>0, <3>1, <3>2 DEF Reading, active, storageOf, known
  <2>4. ASSUME NEW a \in Addresses, NEW k \in Keys, Storage(u, a, k)
        PROVE  Reading(u)
    <3> DEFINE owner == IF jobs[u].cache.storage[a] = NoCache THEN u ELSE jobs[u].cache.storage[a]
    <3>1. jobs' = [jobs EXCEPT ![u].cache.storage[a] = owner] /\ jobs[u].parent # 0
      BY <2>4 DEF Storage, insert_storage
    <3> HIDE DEF owner
    <3>2. /\ jobs'[u].parent = jobs[u].parent
          /\ jobs'[u].cache.code = jobs[u].cache.code
          /\ jobs'[u].cache.account = jobs[u].cache.account
          /\ \A c \in Addresses : \/ jobs'[u].cache.storage[c] = jobs[u].cache.storage[c]
                                  \/ c = a /\ jobs'[u].cache.storage[c] = owner
      BY <1>3, <3>1 DEF TypeOK, Caches
    <3> QED
      BY <2>0, <3>1, <3>2 DEF Reading, active, storageOf, owner
  <2>5. ~EndJob(u)
    <3>1. jobs'[u].parent # 0
      BY <2>0 DEF active
    <3> QED
      BY <1>3, <3>1 DEF EndJob, NoJob, TypeOK
  <2>6. ASSUME NEW j \in Jobs,
               \/ \E parent \in DOMAIN chain : NewPayloadJob(j, parent)
               \/ \E a \in Addresses : BasicAccount(j, a) \/ \E k \in Keys : Storage(j, a, k)
               \/ \E h \in Codes : BytecodeByHash(j, h)
               \/ EndJob(j)
        PROVE  jobs'[u] = jobs[u] \/ j = u
    BY <1>3, <2>6 DEF NewPayloadJob, BasicAccount, Storage, insert_storage, BytecodeByHash, EndJob, TypeOK
  <2>7. \/ \E j \in Jobs :
             \/ \E parent \in DOMAIN chain : NewPayloadJob(j, parent)
             \/ \E a \in Addresses : BasicAccount(j, a) \/ \E k \in Keys : Storage(j, a, k)
             \/ \E h \in Codes : BytecodeByHash(j, h)
             \/ EndJob(j)
        \/ UNCHANGED jobs
    BY DEF Next, vars, NewBlock, Commit, OnNewState
  <2> QED
    BY <1>3, <2>1, <2>2, <2>3, <2>4, <2>5, <2>6, <2>7
<1> QED
  BY <1>2, <1>3 DEF Users

\* Notifications of the queue were there before, or are new; the first one goes first.
LEMMA QueueOfAStep ==
  ASSUME TypeOK, Queue, [Next]_vars
  PROVE  /\ commits \in Nat /\ commits' \in Nat /\ commits <= commits'
         /\ \A i \in DOMAIN notifications' :
              \/ \E k \in DOMAIN notifications : notifications'[i] = notifications[k]
              \/ notifications'[i].id = commits + 1
         /\ Refreshing => \A i \in DOMAIN notifications' :
              Head(notifications).id < notifications'[i].id
<1>1. PICK S : notifications \in Seq(S)
  BY DEF Queue
<1>2. commits \in Nat
  BY CacheConstants DEF TypeOK
<1>3. ASSUME NEW b \in DOMAIN chain, Commit(b)
      PROVE  /\ commits' = commits + 1
             /\ \A i \in DOMAIN notifications' :
                  \/ \E k \in DOMAIN notifications : notifications'[i] = notifications[k]
                  \/ notifications'[i].id = commits + 1
  <2> DEFINE new == [id |-> commits', fork |-> fork(tip, b), tip |-> b]
             all == Append(notifications, new)
  <2>1. commits' = commits + 1
    BY <1>3 DEF Commit
  <2>2. notifications' = IF Len(all) > Capacity THEN Tail(all) ELSE all
    BY <1>3 DEF Commit
  <2>3. new.id = commits + 1
    BY <2>1
  <2> HIDE DEF new
  <2>4. /\ all \in Seq(S \cup {new})
        /\ all # << >>
        /\ \A i \in DOMAIN all : all[i] = new \/ (i \in DOMAIN notifications /\ all[i] = notifications[i])
    BY <1>1
  <2> HIDE DEF all
  <2>5. \A i \in DOMAIN notifications' : \E k \in DOMAIN all : notifications'[i] = all[k]
    <3>1. \A i \in DOMAIN Tail(all) : i + 1 \in DOMAIN all /\ Tail(all)[i] = all[i + 1]
      BY <2>4
    <3> QED
      BY <2>2, <3>1
  <2> QED
    BY <2>1, <2>3, <2>4, <2>5
<1>4. ASSUME notifications # << >>, notifications' = Tail(notifications)
      PROVE  \A i \in DOMAIN notifications' :
               /\ i + 1 \in DOMAIN notifications /\ notifications'[i] = notifications[i + 1]
               /\ 1 < i + 1
  BY <1>1, <1>4
<1>5. \/ \E b \in DOMAIN chain : Commit(b)
      \/ OnNewState
      \/ UNCHANGED <<notifications, commits>>
  BY DEF Next, vars, nodeVars, NewBlock, NewPayloadJob, BasicAccount, Storage,
       BytecodeByHash, EndJob
<1>6. CASE OnNewState
  <2>1. notifications # << >> /\ notifications' = Tail(notifications) /\ commits' = commits
    BY <1>6 DEF OnNewState
  <2> QED
    BY <1>2, <1>4, <2>1, HeadOfQueue DEF Queue
<1>7. ASSUME Refreshing
      PROVE  \A i \in DOMAIN notifications' : Head(notifications).id < notifications'[i].id
  <2>1. notifications # << >> /\ notifications' = Tail(notifications)
    BY <1>7 DEF Refreshing
  <2> QED
    BY <1>4, <2>1, HeadOfQueue DEF Queue
<1> QED
  BY <1>2, <1>3, <1>5, <1>6, <1>7

\* A job that starts has the storage caches of the generator, at the same block, or none.
LEMMA StorageOfNewJob ==
  ASSUME TypeOK, NEW j \in Jobs, NEW parent \in DOMAIN chain, NewPayloadJob(j, parent)
  PROVE  /\ blockOf(j)' = parent
         /\ \/ cacheOf(j)' = ExecutionCacheDefault
            \/ cacheOf(j)' = cacheOf(Generator) /\ blockOf(Generator) = parent /\ active(Generator)
         /\ heap' = [heap EXCEPT ![j] = NoSlots]
         /\ UNCHANGED <<chain, pre_cached>>
<1>1. Generator \notin Jobs /\ parent # 0
  BY CacheConstants, LenProperties DEF Generator, TypeOK
<1>2. jobs'[j] = [parent |-> parent, cache |-> maybe_pre_cached(parent)]
  BY DEF NewPayloadJob, TypeOK
<1>3. blockOf(j)' = parent /\ cacheOf(j)' = maybe_pre_cached(parent)
  BY <1>1, <1>2 DEF blockOf, cacheOf
<1>4. heap' = [heap EXCEPT ![j] = NoSlots] /\ UNCHANGED <<chain, pre_cached>>
  BY DEF NewPayloadJob, nodeVars
<1> QED
  BY <1>1, <1>3, <1>4 DEF maybe_pre_cached, blockOf, cacheOf, active

\* The storage caches after a notification.
LEMMA StorageOfGenerator ==
  ASSUME TypeOK, Queue, Refreshing
  PROVE  /\ blockOf(Generator)' = Head(notifications).tip
         /\ cacheOf(Generator)' = insert_state(Head(notifications)).cache
         /\ \A a \in Addresses : storageOf(Generator, a)' \in {NoCache, Head(notifications).id}
<1>1. Head(notifications).tip \in DOMAIN chain /\ Head(notifications).id \in 1..MaxCommits
  BY HeadOfQueue DEF Refreshing
<1>2. /\ blockOf(Generator)' = Head(notifications).tip
      /\ cacheOf(Generator)' = insert_state(Head(notifications)).cache
  BY DEF Refreshing, blockOf, cacheOf, Generator
<1> QED
  BY <1>1, <1>2, InsertedState DEF storageOf

\* A storage cache comes from the notification that was consumed, or is made by its user.
LEMMA NextNaming ==
  ASSUME TypeOK, Queue, Naming, [Next]_vars
  PROVE  Naming'
<1> SUFFICES ASSUME NEW u \in Users, active(u)', NEW a \in Addresses
             PROVE  \/ storageOf(u, a)' \in {NoCache, u}
                    \/ /\ storageOf(u, a)' \in 1..commits'
                       /\ \A i \in DOMAIN notifications' : storageOf(u, a)' < notifications'[i].id
  BY DEF Naming
<1>1. ASSUME NEW w \in 1..commits, \A i \in DOMAIN notifications : w < notifications[i].id
      PROVE  w \in 1..commits' /\ \A i \in DOMAIN notifications' : w < notifications'[i].id
  <2>1. w \in 1..commits' /\ w < commits + 1
    BY QueueOfAStep
  <2> QED
    BY <1>1, <2>1, QueueOfAStep
<1>2. CASE Reading(u)
  BY <1>1, <1>2 DEF Reading, Naming
<1>3. ASSUME u \in Jobs, NEW parent \in DOMAIN chain, NewPayloadJob(u, parent)
      PROVE  \/ storageOf(u, a)' = NoCache
             \/ /\ storageOf(u, a)' \in 1..commits'
                /\ \A i \in DOMAIN notifications' : storageOf(u, a)' < notifications'[i].id
  <2>1. CASE cacheOf(u)' = ExecutionCacheDefault
    BY <2>1, DefaultCache DEF storageOf
  <2>2. CASE cacheOf(u)' = cacheOf(Generator) /\ active(Generator)
    <3>1. storageOf(u, a)' = storageOf(Generator, a)
      BY <2>2 DEF storageOf
    <3>2. Generator \in Users /\ Generator = NoCache
      BY DEF Users, Generator, NoCache
    <3> QED
      BY <1>1, <2>2, <3>1, <3>2 DEF Naming
  <2> QED
    BY <1>3, <2>1, <2>2, StorageOfNewJob
<1>4. CASE u = Generator /\ Refreshing
  <2>1. Head(notifications).id \in 1..commits
    BY <1>4, HeadOfQueue DEF Refreshing
  <2>2. Head(notifications).id \in 1..commits'
    BY <2>1, QueueOfAStep
  <2>3. storageOf(u, a)' \in {NoCache, Head(notifications).id}
    BY <1>4, StorageOfGenerator
  <2> QED
    BY <1>4, <2>2, <2>3, QueueOfAStep
<1> QED
  BY <1>2, <1>3, <1>4, UserOfAStep

\* Nobody uses the storage cache of another job.
LEMMA OwnIsPrivate ==
  ASSUME TypeOK, Naming, NEW u \in Users, active(u), NEW a \in Addresses, storageOf(u, a) \in Jobs
  PROVE  storageOf(u, a) = u
<1>1. \A j \in Jobs : j \notin 1..commits /\ j # NoCache
  BY CacheConstants DEF TypeOK, NoCache
<1> QED
  BY <1>1 DEF Naming

\* The storage cache of the next notification is not in use.
LEMMA NewIsFresh ==
  ASSUME TypeOK, Queue, Naming, Refreshing, NEW u \in Users, active(u), NEW a \in Addresses
  PROVE  storageOf(u, a) # Head(notifications).id /\ u # Head(notifications).id
<1>1. 1 \in DOMAIN notifications /\ Head(notifications) = notifications[1]
      /\ Head(notifications).id \in 1..commits
  BY HeadOfQueue DEF Refreshing
<1>2. Head(notifications).id \notin Jobs /\ Head(notifications).id # 0
  BY <1>1, CacheConstants DEF TypeOK
<1>3. u # Head(notifications).id
  BY <1>2 DEF Users, Generator
<1>4. CASE storageOf(u, a) \in 1..commits /\ storageOf(u, a) < notifications[1].id
  BY <1>1, <1>3, <1>4
<1>5. CASE storageOf(u, a) \in {NoCache, u}
  BY <1>2, <1>3, <1>5 DEF NoCache
<1> QED
  BY <1>1, <1>3, <1>4, <1>5 DEF Naming

\* A job shares the caches of the generator only when it is on the same block.
LEMMA NextSharing ==
  ASSUME TypeOK, TypeOK', Queue, Naming, Naming', Sharing, [Next]_vars
  PROVE  Sharing'
<1> SUFFICES ASSUME NEW u \in Users, NEW v \in Users, active(u)', active(v)', NEW a \in Addresses,
                    NEW w, storageOf(u, a)' = w, storageOf(v, a)' = w, w # NoCache
             PROVE  blockOf(u)' = blockOf(v)'
  BY DEF Sharing
<1>0. Generator \in Users /\ Generator = NoCache
  BY DEF Users, Generator, NoCache
<1>1. CASE w \in Jobs
  <2>1. ASSUME NEW x \in Users, active(x)', storageOf(x, a)' = w
        PROVE  w = x
    BY <1>1, <2>1, CacheConstants DEF Naming, NoCache, TypeOK
  <2>2. w = u /\ w = v
    BY <2>1
  <2> QED
    BY <2>2
<1>2. CASE w \notin Jobs
  <2>1. ASSUME NEW x \in Users, active(x)', storageOf(x, a)' = w
        PROVE  \/ \E o \in Users : active(o) /\ storageOf(o, a) = w /\ blockOf(x)' = blockOf(o)
               \/ /\ Refreshing /\ w = Head(notifications).id
                  /\ blockOf(x)' = Head(notifications).tip
    <3>1. CASE Reading(x)
      <4>1. w # x
        BY <1>0, <1>2 DEF Users
      <4>2. storageOf(x, a) = w
        BY <2>1, <3>1, <4>1 DEF Reading
      <4> QED
        BY <3>1, <4>2 DEF Reading
    <3>2. ASSUME x \in Jobs, NEW parent \in DOMAIN chain, NewPayloadJob(x, parent)
          PROVE  /\ active(Generator) /\ storageOf(Generator, a) = w
                 /\ blockOf(x)' = blockOf(Generator)
      BY <2>1, <3>2, StorageOfNewJob, DefaultCache DEF storageOf
    <3>3. CASE x = Generator /\ Refreshing
      BY <2>1, <3>3, StorageOfGenerator
    <3> QED
      BY <1>0, <2>1, <3>1, <3>2, <3>3, UserOfAStep
  <2>2. ASSUME Refreshing, w = Head(notifications).id
        PROVE  \A o \in Users : active(o) => storageOf(o, a) # w
    BY <2>2, NewIsFresh
  <2> QED
    BY <2>1, <2>2 DEF Sharing
<1> QED
  BY <1>1, <1>2

(***************************************************************************)
(* What the caches hold                                                    *)
(***************************************************************************)

slotsAgree(w, a, b) ==
  \A k \in Keys : heap[w][a][k] \in {NotCached, chain[b].accounts[a].slots[k]}

entriesAgree(cache, b) ==
  /\ \A a \in Addresses : cache.account[a] \in {NotCached, chain[b].accounts[a].info}
  /\ \A h \in Codes : cache.code[h] \in {NotCached, IF h \in chain[b].codes THEN 1 ELSE 0}

\* A storage cache that the user has, or would make.
usable(u, w, a) == w # NoCache /\ w \in {storageOf(u, a), u}

\* Caches agree with the blocks of their users.
Agreement ==
  \A u \in Users : active(u) =>
    /\ entriesAgree(cacheOf(u), blockOf(u))
    /\ \A a \in Addresses, w \in Owners : usable(u, w, a) => slotsAgree(w, a, blockOf(u))

\* How a slot changes: it is new, of a notification, or read by a job.
LEMMA SlotOfAStep ==
  ASSUME TypeOK, [Next]_vars, NEW w \in Owners, NEW a \in Addresses, NEW k \in Keys
  PROVE  \/ heap'[w][a][k] \in {NotCached, heap[w][a][k]}
         \/ Refreshing /\ w = Head(notifications).id
         \/ \E j \in Jobs : /\ active(j) /\ usable(j, w, a)
                            /\ heap'[w][a][k] = chain[blockOf(j)].accounts[a].slots[k]
<1>0. \A j \in Jobs : j # Generator /\ j # NoCache
  BY CacheConstants DEF Generator, NoCache
<1>1. CASE OnNewState
  <2>1. UNCHANGED heap \/ Refreshing
    BY <1>1 DEF OnNewState, Refreshing
  <2>2. ASSUME Refreshing, w # Head(notifications).id
        PROVE  heap'[w] = heap[w]
    BY <2>2 DEF Refreshing, TypeOK
  <2> QED
    BY <2>1, <2>2
<1>2. ASSUME NEW j \in Jobs, NEW parent \in DOMAIN chain, NewPayloadJob(j, parent)
      PROVE  heap'[w][a][k] \in {NotCached, heap[w][a][k]}
  <2>1. heap' = [heap EXCEPT ![j] = NoSlots] /\ NoSlots[a][k] = NotCached
    BY <1>2 DEF NewPayloadJob, NoSlots
  <2> QED
    BY <2>1 DEF TypeOK
<1>3. ASSUME NEW j \in Jobs, NEW c \in Addresses, NEW l \in Keys, Storage(j, c, l)
      PROVE  \/ heap'[w][a][k] = heap[w][a][k]
             \/ /\ active(j) /\ usable(j, w, a)
                /\ heap'[w][a][k] = chain[blockOf(j)].accounts[a].slots[k]
  <2> DEFINE owner == IF storageOf(j, c) = NoCache THEN j ELSE storageOf(j, c)
             value == chain[blockOf(j)].accounts[c].slots[l]
  <2>1. blockOf(j) = jobs[j].parent /\ storageOf(j, c) = jobs[j].cache.storage[c]
    BY <1>0 DEF blockOf, storageOf, cacheOf
  <2>2. /\ heap' = [heap EXCEPT ![owner][c][l] = value]
        /\ active(j)
    BY <1>3, <2>1 DEF Storage, insert_storage, state_provider, active
  <2>3. usable(j, owner, c)
    BY <1>0 DEF usable
  <2> HIDE DEF owner, value
  <2>4. \/ heap'[w][a][k] = heap[w][a][k]
        \/ w = owner /\ a = c /\ k = l /\ heap'[w][a][k] = value
    BY <2>2 DEF TypeOK, Slots
  <2> QED
    BY <2>2, <2>3, <2>4 DEF value
<1>4. \/ OnNewState
      \/ \E j \in Jobs, parent \in DOMAIN chain : NewPayloadJob(j, parent)
      \/ \E j \in Jobs, c \in Addresses, l \in Keys : Storage(j, c, l)
      \/ UNCHANGED heap
  BY DEF Next, vars, NewBlock, Commit, BasicAccount, BytecodeByHash, EndJob
<1> QED
  BY <1>1, <1>2, <1>3, <1>4

\* What a read adds to a cache is the state at the block of the reader.
LEMMA NextAgreement ==
  ASSUME TypeOK, TypeOK', Queue, Naming, Sharing, Agreement, [Next]_vars
  PROVE  Agreement'
<1>0. Generator \in Users /\ Generator = NoCache /\ Generator \notin Jobs
  BY CacheConstants DEF Users, Generator, NoCache
<1>1. ASSUME NEW u \in Users, active(u)', NEW b, blockOf(u)' = b
      PROVE  /\ entriesAgree(cacheOf(u), b)'
             /\ \A a \in Addresses, w \in Owners : usable(u, w, a)' => slotsAgree(w, a, b)'
  <2>1. CASE Reading(u)
    <3>1. b = blockOf(u) /\ active(u) /\ b \in DOMAIN chain /\ chain'[b] = chain[b]
      <4>1. b = blockOf(u) /\ active(u)
        BY <1>1, <2>1 DEF Reading
      <4>2. b \in DOMAIN chain
        BY <1>0, <4>1 DEF active, blockOf, TypeOK, Users
      <4> QED
        BY <4>1, <4>2, BlocksStay
    <3>2. entriesAgree(cacheOf(u), b)'
      BY <2>1, <3>1 DEF Agreement, entriesAgree, Reading
    <3>3. ASSUME NEW a \in Addresses, NEW w \in Owners, usable(u, w, a)', NEW k \in Keys
          PROVE  heap'[w][a][k] \in {NotCached, chain'[b].accounts[a].slots[k]}
      <4>1. usable(u, w, a)
        BY <2>1, <3>3 DEF usable, Reading
      <4>2. CASE heap'[w][a][k] \in {NotCached, heap[w][a][k]}
        BY <3>1, <4>1, <4>2 DEF Agreement, slotsAgree
      <4>3. CASE Refreshing /\ w = Head(notifications).id
        BY <3>1, <4>1, <4>3, NewIsFresh DEF usable
      <4>4. ASSUME NEW j \in Jobs, active(j), usable(j, w, a),
                   heap'[w][a][k] = chain[blockOf(j)].accounts[a].slots[k]
            PROVE  heap'[w][a][k] = chain[b].accounts[a].slots[k]
        <5>1. blockOf(j) = b
          <6>1. CASE w \in Jobs
            <7>1. w = u /\ w = j
              BY <3>1, <4>1, <4>4, <6>1, OwnIsPrivate DEF usable, Users
            <7> QED
              BY <3>1, <7>1
          <6>2. CASE w \notin Jobs
            <7>1. w = storageOf(u, a) /\ w = storageOf(j, a) /\ w # NoCache
              BY <1>0, <4>1, <4>4, <6>2 DEF usable, Users
            <7> QED
              BY <3>1, <4>4, <7>1 DEF Sharing, Users
          <6> QED
            BY <6>1, <6>2
        <5> QED
          BY <4>4, <5>1
      <4> QED
        BY <3>1, <4>2, <4>3, <4>4, SlotOfAStep
    <3> QED
      BY <3>2, <3>3 DEF slotsAgree
  <2>2. ASSUME u \in Jobs, NEW parent \in DOMAIN chain, NewPayloadJob(u, parent)
        PROVE  /\ entriesAgree(cacheOf(u), b)'
               /\ \A a \in Addresses, w \in Owners : usable(u, w, a)' => slotsAgree(w, a, b)'
    <3>1. /\ b = parent /\ chain' = chain
          /\ heap' = [heap EXCEPT ![u] = NoSlots]
          /\ \/ cacheOf(u)' = ExecutionCacheDefault
             \/ cacheOf(u)' = cacheOf(Generator) /\ blockOf(Generator) = parent /\ active(Generator)
      BY <1>1, <2>2, StorageOfNewJob
    <3>2. u \in Owners /\ u # NoCache
      BY <1>0, <2>2 DEF Owners
    <3>3. heap'[u] = NoSlots /\ \A w \in Owners : w # u => heap'[w] = heap[w]
      BY <3>1, <3>2 DEF TypeOK
    <3>4. \A a \in Addresses : slotsAgree(u, a, b)'
      BY <3>3 DEF slotsAgree, NoSlots
    <3>5. CASE cacheOf(u)' = ExecutionCacheDefault
      <4>1. entriesAgree(cacheOf(u), b)'
        BY <3>5 DEF entriesAgree, ExecutionCacheDefault
      <4>2. \A a \in Addresses : storageOf(u, a)' = NoCache
        BY <3>5, DefaultCache DEF storageOf
      <4> QED
        BY <3>4, <4>1, <4>2 DEF usable
    <3>6. CASE cacheOf(u)' = cacheOf(Generator) /\ blockOf(Generator) = parent /\ active(Generator)
      <4>1. entriesAgree(cacheOf(u), b)'
        BY <1>0, <3>1, <3>6 DEF Agreement, entriesAgree
      <4>2. \A a \in Addresses : storageOf(u, a)' = storageOf(Generator, a)
        BY <3>6 DEF storageOf
      <4>3. ASSUME NEW a \in Addresses, NEW w \in Owners, usable(u, w, a)', w # u
            PROVE  slotsAgree(w, a, b)'
        <5>1. usable(Generator, w, a)
          BY <4>2, <4>3 DEF usable
        <5>2. slotsAgree(w, a, b)
          BY <1>0, <3>1, <3>6, <5>1 DEF Agreement
        <5> QED
          BY <3>1, <3>3, <4>3, <5>2 DEF slotsAgree
      <4> QED
        BY <3>4, <4>1, <4>3
    <3> QED
      BY <3>1, <3>5, <3>6
  <2>3. ASSUME u = Generator, Refreshing
        PROVE  /\ entriesAgree(cacheOf(u), b)'
               /\ \A a \in Addresses, w \in Owners : usable(u, w, a)' => slotsAgree(w, a, b)'
    <3>1. PICK n : n = Head(notifications)
      OBVIOUS
    <3>2. n.tip \in DOMAIN chain /\ n.id \in 1..MaxCommits /\ n.id \in Owners
      BY <2>3, <3>1, HeadOfQueue DEF Refreshing, Owners
    <3>3. /\ b = n.tip /\ cacheOf(u)' = insert_state(n).cache
          /\ \A a \in Addresses : storageOf(u, a)' \in {NoCache, n.id}
      BY <1>1, <2>3, <3>1, StorageOfGenerator
    <3>4. heap'[n.id] = insert_state(n).slots /\ chain' = chain
      BY <2>3, <3>1, <3>2 DEF Refreshing, TypeOK
    <3>5. entriesAgree(cacheOf(u), b)'
      BY <3>2, <3>3, <3>4, InsertedState DEF entriesAgree
    <3>6. \A a \in Addresses : slotsAgree(n.id, a, b)'
      BY <3>2, <3>3, <3>4, InsertedState DEF slotsAgree
    <3> QED
      BY <1>0, <2>3, <3>3, <3>5, <3>6 DEF usable
  <2> QED
    BY <1>1, <2>1, <2>2, <2>3, UserOfAStep
<1>2. \A u \in Users : active(u)' =>
        /\ entriesAgree(cacheOf(u), blockOf(u))'
        /\ \A a \in Addresses, w \in Owners : usable(u, w, a)' => slotsAgree(w, a, blockOf(u))'
  BY <1>1 DEF entriesAgree, slotsAgree
<1> QED
  BY <1>2 DEF Agreement

(***************************************************************************)
(* The inductive invariant, and the property of the run                    *)
(***************************************************************************)

IndInv == TypeOK /\ Queue /\ Naming /\ Sharing /\ Agreement

\* Nothing is cached.
LEMMA InitIndInv == Init => IndInv
<1> SUFFICES ASSUME Init PROVE IndInv
  OBVIOUS
<1>1. TypeOK
  <2> DEFINE genesis == [parent |-> 0, accounts |-> Genesis, codes |-> {}, destroyed |-> {}]
  <2>1. genesis \in Blocks /\ chain = <<genesis>>
    BY CacheConstants DEF Init, Blocks
  <2> HIDE DEF genesis
  <2>2. chain \in Seq(Blocks) /\ 1 \in DOMAIN chain
    BY <2>1
  <2>3. 0 \in 0..MaxCommits
    BY CacheConstants
  <2> QED
    BY <2>2, <2>3, DefaultCache DEF Init, TypeOK
<1>2. Queue
  <2>1. << >> \in Seq({}) /\ DOMAIN << >> = {}
    OBVIOUS
  <2> QED
    BY <2>1 DEF Init, Queue
<1>3. \A u \in Users : ~active(u)
  BY CacheConstants DEF Init, active, blockOf, Users, Generator, NoJob
<1> QED
  BY <1>1, <1>2, <1>3 DEF IndInv, Naming, Sharing, Agreement

\* The inductive invariant holds whatever the node, the service and the jobs do.
THEOREM CacheInvariance == Spec => []IndInv
<1>1. IndInv /\ [Next]_vars => IndInv'
  BY NextTypeOK, NextQueue, NextNaming, NextSharing, NextAgreement DEF IndInv
<1> QED
  BY <1>1, InitIndInv, PTL DEF Spec

\* CachedStateProvider answers what the node has at the parent of the job: although caches
\* start from the last notification and share storage, reorgs and lost notifications never
\* let a job read the state of another block.
THEOREM ReadsAreTheParentState == Spec => []CachedReadsAreTheParentState
<1>1. IndInv => CachedReadsAreTheParentState
  <2> SUFFICES ASSUME IndInv PROVE CachedReadsAreTheParentState
    OBVIOUS
  <2>0. Generator \in Users /\ Jobs \subseteq Users /\ \A j \in Jobs : j # Generator
    BY CacheConstants DEF Users, Generator
  <2>1. ASSUME NEW u \in Users, active(u)
        PROVE  agrees(cacheOf(u), blockOf(u))
    <3>1. entriesAgree(cacheOf(u), blockOf(u))
      BY <2>1 DEF IndInv, Agreement
    <3>2. cacheOf(u) \in Caches
      BY <2>0 DEF IndInv, TypeOK, cacheOf, Users
    <3>3. ASSUME NEW a \in Addresses, NEW k \in Keys
          PROVE  get_storage(cacheOf(u), a, k) \in
                   {NotCached, chain[blockOf(u)].accounts[a].slots[k]}
      <4>1. CASE storageOf(u, a) = NoCache
        BY <4>1 DEF get_storage, storageOf
      <4>2. CASE storageOf(u, a) # NoCache
        <5>1. storageOf(u, a) \in Owners /\ usable(u, storageOf(u, a), a)
          BY <3>2, <4>2 DEF usable, storageOf, Caches
        <5>2. slotsAgree(storageOf(u, a), a, blockOf(u))
          BY <2>1, <5>1 DEF IndInv, Agreement
        <5> QED
          BY <4>2, <5>2 DEF get_storage, storageOf, slotsAgree
      <4> QED
        BY <4>1, <4>2
    <3> QED
      BY <3>1, <3>3 DEF agrees, entriesAgree
  <2>2. \A j \in Jobs : jobs[j].parent # 0 => agrees(jobs[j].cache, jobs[j].parent)
    BY <2>0, <2>1 DEF active, blockOf, cacheOf
  <2>3. pre_cached.block # 0 => agrees(pre_cached.cache, pre_cached.block)
    BY <2>0, <2>1 DEF active, blockOf, cacheOf
  <2> QED
    BY <2>2, <2>3 DEF CachedReadsAreTheParentState
<1> QED
  BY <1>1, CacheInvariance, PTL
=============================================================================
