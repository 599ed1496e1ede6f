----------------------------- MODULE StateCache -----------------------------
(***************************************************************************)
(* The state that payload jobs read: JobGenerator (pipelines/service.rs),  *)
(* which keeps a cache filled from the last committed chain, BlockContext  *)
(* (core payload/block.rs) and CachedStateProvider                         *)
(* (core payload/ext/cached_state.rs).                                     *)
(*                                                                         *)
(* The node is external: blocks form a tree, and its notifications of new  *)
(* canonical chains wait in a queue that may lose them.  An account is its *)
(* info, NoAccount if there is none, and its slots; 0 is an empty slot.    *)
(* Code is known by its hash and never forgotten by the node.              *)
(*                                                                         *)
(* Each AccountStorageCache is behind an Arc: copies of an ExecutionCache  *)
(* share those that were there when the copy was made, while the maps of   *)
(* accounts and code, and the outer map of the storage, are copied.  So    *)
(* the storage caches live in a heap, named by who made them: a job, or    *)
(* the notification with this number.                                      *)
(***************************************************************************)
EXTENDS Integers, Sequences, FiniteSets

CONSTANTS
  Addresses,
  Keys,           \* storage keys
  Codes,          \* code hashes
  Genesis,        \* accounts of the first block
  Updates,        \* what a block may do: new accounts, codes and destroyed addresses
  Jobs,
  MaxBlocks,      \* bound: blocks of the tree
  MaxCommits,     \* bound: changes of the canonical chain
  Capacity        \* of the queue of notifications

NotCached == -1
NoAccount == 0
NoCache == 0

Accounts == [info : Nat, slots : [Keys -> Nat]]

\* Jobs are not numbers, which name the storage caches of notifications.
ASSUME CacheConstants ==
  /\ Genesis \in [Addresses -> Accounts]
  /\ \A update \in Updates :
       /\ \A a \in DOMAIN update.accounts : update.accounts[a] \in Accounts
       /\ update.codes \subseteq Codes
       /\ update.destroyed \subseteq Addresses
  /\ \A j \in Jobs : j \notin Nat
  /\ MaxBlocks \in Nat /\ MaxCommits \in Nat /\ Capacity \in Nat

VARIABLES
  chain,          \* the blocks: parent, accounts, codes, addresses destroyed in it
  tip,            \* the last block of the canonical chain
  commits,        \* how often it has changed
  notifications,  \* the changes that the service has not heard of
  heap,           \* the slots of every AccountStorageCache
  pre_cached,     \* JobGenerator::pre_cached: its block, 0 if there is none, and cache
  jobs            \* the block context of each job; parent is 0 if there is none

nodeVars == <<chain, tip, commits, notifications>>
vars == <<nodeVars, heap, pre_cached, jobs>>

Owners == Jobs \cup 1..MaxCommits

ancestors[b \in 0..MaxBlocks] ==
  IF b = 0 THEN {} ELSE {b} \cup ancestors[chain[b].parent]

ExecutionCacheDefault ==
  [account |-> [a \in Addresses |-> NotCached],
   storage |-> [a \in Addresses |-> NoCache],
   code    |-> [h \in Codes |-> NotCached]]

NoSlots == [a \in Addresses |-> [k \in Keys |-> NotCached]]

NoJob == [parent |-> 0, cache |-> ExecutionCacheDefault]

Init ==
  /\ chain = <<[parent |-> 0, accounts |-> Genesis, codes |-> {}, destroyed |-> {}]>>
  /\ tip = 1
  /\ commits = 0
  /\ notifications = << >>
  /\ heap = [o \in Owners |-> NoSlots]
  /\ pre_cached = [block |-> 0, cache |-> ExecutionCacheDefault]
  /\ jobs = [j \in Jobs |-> NoJob]

(***************************************************************************)
(* The node (external)                                                     *)
(***************************************************************************)

NewBlock(parent, update) ==
  /\ Len(chain) < MaxBlocks
  /\ chain' = Append(chain, [parent |-> parent,
                             accounts |-> [a \in Addresses |->
                                             IF a \in DOMAIN update.accounts
                                             THEN update.accounts[a] ELSE chain[parent].accounts[a]],
                             codes |-> chain[parent].codes \cup update.codes,
                             destroyed |-> update.destroyed])
  /\ UNCHANGED <<tip, commits, notifications, heap, pre_cached, jobs>>

\* The last common block of two chains.
fork(b, c) == CHOOSE f \in ancestors[b] \cap ancestors[c] :
                \A g \in ancestors[b] \cap ancestors[c] : g <= f

\* The canonical chain grows or, in a reorg, changes its branch.  A service that lags
\* loses the oldest notifications.
Commit(b) ==
  /\ commits < MaxCommits
  /\ b # tip
  /\ tip \notin ancestors[b] => b \notin ancestors[tip]
  /\ tip' = b
  /\ commits' = commits + 1
  /\ LET all == Append(notifications, [id |-> commits', fork |-> fork(tip, b), tip |-> b])
     IN notifications' = IF Len(all) > Capacity THEN Tail(all) ELSE all
  /\ UNCHANGED <<chain, heap, pre_cached, jobs>>

\* The bundle state of the committed chain: every account that its blocks touch, with
\* the slots that they change.  Accounts that are only read are there, too, unmodified.
bundle_account(n, a) ==
  LET before == chain[n.fork].accounts[a]
      after == chain[n.tip].accounts[a]
      new == ancestors[n.tip] \ ancestors[n.fork]
      gone == \E b \in new : a \in chain[b].destroyed
  IN [status |-> IF gone THEN "destroyed" ELSE IF before = after THEN "not_modified" ELSE "changed",
      info |-> after.info,
      storage |-> {k \in Keys : before.slots[k] # after.slots[k]}]

contracts(n) == chain[n.tip].codes \ chain[n.fork].codes

(***************************************************************************)
(* ExecutionCache                                                          *)
(***************************************************************************)

\* ExecutionCache::get_storage: the status of a slot.
get_storage(cache, a, k) ==
  IF cache.storage[a] = NoCache THEN NotCached ELSE heap[cache.storage[a]][a][k]

\* insert_state on a new cache: accounts that are changed, but not destroyed.
insert_state(n) ==
  LET changed == {a \in Addresses : bundle_account(n, a).status = "changed"}
  IN [cache |-> [account |-> [a \in Addresses |->
                                IF a \in changed THEN bundle_account(n, a).info ELSE NotCached],
                 storage |-> [a \in Addresses |-> IF a \in changed THEN n.id ELSE NoCache],
                 code |-> [h \in Codes |-> IF h \in contracts(n) THEN 1 ELSE NotCached]],
      slots |-> [a \in Addresses |-> [k \in Keys |->
                   IF a \in changed /\ k \in bundle_account(n, a).storage
                   THEN chain[n.tip].accounts[a].slots[k] ELSE NotCached]]]

\* An account that is changed, not destroyed, and gone.
inconsistent(n) ==
  \E a \in Addresses : bundle_account(n, a).status = "changed" /\ bundle_account(n, a).info = NoAccount

(***************************************************************************)
(* JobGenerator                                                            *)
(***************************************************************************)

\* Mutant: the state goes on top of the cache that is there.
OnNewStateOnTop ==
  /\ notifications # << >>
  /\ notifications' = Tail(notifications)
  /\ LET n == Head(notifications)
         new == insert_state(n)
         old == pre_cached.cache
     IN /\ ~inconsistent(n)
        /\ pre_cached' = [block |-> n.tip,
                          cache |-> [new.cache EXCEPT
                                       !.account = [a \in Addresses |->
                                                      IF @[a] # NotCached THEN @[a] ELSE old.account[a]]]]
        /\ heap' = [heap EXCEPT ![n.id] = new.slots]
  /\ UNCHANGED <<chain, tip, commits, jobs>>

\* on_new_state: a new cache takes the place of the old one, unless the state of the
\* chain is inconsistent.
OnNewState ==
  /\ notifications # << >>
  /\ notifications' = Tail(notifications)
  /\ LET n == Head(notifications)
     IN IF inconsistent(n) THEN UNCHANGED <<pre_cached, heap>>
        ELSE /\ pre_cached' = [block |-> n.tip, cache |-> insert_state(n).cache]
             /\ heap' = [heap EXCEPT ![n.id] = insert_state(n).slots]
  /\ UNCHANGED <<chain, tip, commits, jobs>>

maybe_pre_cached(parent) ==
  IF pre_cached.block = parent THEN pre_cached.cache ELSE ExecutionCacheDefault

\* new_payload_job and BlockContext::new; nothing happens for an unknown parent.  The
\* pre-execution changes go to a State on top of the provider that base_state() does
\* not look at; what they read on the way is read by the actions below.
NewPayloadJob(j, parent) ==
  /\ jobs[j].parent = 0
  /\ parent \in DOMAIN chain
  /\ jobs' = [jobs EXCEPT ![j] = [parent |-> parent, cache |-> maybe_pre_cached(parent)]]
  /\ heap' = [heap EXCEPT ![j] = NoSlots]
  /\ UNCHANGED <<nodeVars, pre_cached>>

EndJob(j) ==
  /\ jobs[j].parent # 0
  /\ jobs' = [jobs EXCEPT ![j] = NoJob]
  /\ UNCHANGED <<nodeVars, heap, pre_cached>>

(***************************************************************************)
(* CachedStateProvider: a miss asks the provider of the parent's state and *)
(* fills the cache; a hit changes nothing.                                 *)
(***************************************************************************)

state_provider(j) == chain[jobs[j].parent]

\* basic_account
BasicAccount(j, a) ==
  /\ jobs[j].parent # 0
  /\ jobs[j].cache.account[a] = NotCached
  /\ jobs' = [jobs EXCEPT ![j].cache.account[a] = state_provider(j).accounts[a].info]
  /\ UNCHANGED <<nodeVars, heap, pre_cached>>

\* insert_storage: without a cache for the account the job makes one of its own.
insert_storage(j, a, k, value) ==
  LET owner == IF jobs[j].cache.storage[a] = NoCache THEN j ELSE jobs[j].cache.storage[a] IN
  /\ jobs' = [jobs EXCEPT ![j].cache.storage[a] = owner]
  /\ heap' = [heap EXCEPT ![owner][a][k] = value]

\* storage
Storage(j, a, k) ==
  /\ jobs[j].parent # 0
  /\ get_storage(jobs[j].cache, a, k) = NotCached
  /\ insert_storage(j, a, k, state_provider(j).accounts[a].slots[k])
  /\ UNCHANGED <<nodeVars, pre_cached>>

\* bytecode_by_hash: that there is no such code is cached, too.
BytecodeByHash(j, h) ==
  /\ jobs[j].parent # 0
  /\ jobs[j].cache.code[h] = NotCached
  /\ jobs' = [jobs EXCEPT ![j].cache.code[h] = IF h \in state_provider(j).codes THEN 1 ELSE 0]
  /\ UNCHANGED <<nodeVars, heap, pre_cached>>

Next ==
  \/ \E parent \in DOMAIN chain, update \in Updates : NewBlock(parent, update)
  \/ \E b \in DOMAIN chain : Commit(b)
  \/ OnNewState
  \/ \E j \in Jobs : \/ \E parent \in DOMAIN chain : NewPayloadJob(j, parent)
                     \/ \E a \in Addresses : \/ BasicAccount(j, a)
                                             \/ \E k \in Keys : Storage(j, a, k)
                     \/ \E h \in Codes : BytecodeByHash(j, h)
                     \/ EndJob(j)

Spec == Init /\ [][Next]_vars

(***************************************************************************)
(* Properties                                                              *)
(***************************************************************************)

\* The entries of a cache are what the node has at the block.
agrees(cache, b) ==
  /\ \A a \in Addresses :
       /\ cache.account[a] \in {NotCached, chain[b].accounts[a].info}
       /\ \A k \in Keys : get_storage(cache, a, k) \in {NotCached, chain[b].accounts[a].slots[k]}
  /\ \A h \in Codes : cache.code[h] \in {NotCached, IF h \in chain[b].codes THEN 1 ELSE 0}

\* Whatever a job reads is the state of its parent block, although it starts from the
\* cache of the last notification, shares storage caches with other jobs, and chains
\* are reorganised and notifications lost: "Returns the pre-cached reads for the given
\* parent header if it matches the cached state's block" (service.rs).
CachedReadsAreTheParentState ==
  /\ \A j \in Jobs : jobs[j].parent # 0 => agrees(jobs[j].cache, jobs[j].parent)
  /\ pre_cached.block # 0 => agrees(pre_cached.cache, pre_cached.block)
=============================================================================
