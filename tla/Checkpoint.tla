----------------------------- MODULE Checkpoint -----------------------------
(***************************************************************************)
(* Checkpoints (core payload/checkpoint.rs, ext/checkpoint.rs), spans of   *)
(* them (span.rs, ext/span.rs) and the step that takes failed transactions *)
(* out of a payload (steps/revert.rs).                                     *)
(*                                                                         *)
(* A checkpoint is never changed, so all of them are kept in a sequence    *)
(* and named by their index, which is their identity (Arc::ptr_eq).  Any   *)
(* of them can be built upon: the checkpoints form a tree.                 *)
(***************************************************************************)
EXTENDS Execution, FiniteSetsExt

CONSTANTS
  Base,            \* the state of the parent block
  Transactions,    \* loose transactions that may be applied
  Bundles,         \* bundles that may be applied
  MaxCheckpoints   \* bound: checkpoints made before the removal of failures

ASSUME BaseIsState == Base \in [Addresses -> [info : Nat, slot : Nat]]

ASSUME OrdersAreOrders == Transactions \subseteq TxSet /\ Bundles \subseteq BundleSet

VARIABLES
  checkpoints,  \* all checkpoints made so far: prev, depth and mutation of each
  removal       \* where RemoveRevertedTransactions::step is

vars == <<checkpoints, removal>>

Barrier == [kind |-> "barrier", results |-> << >>, state |-> NoChanges]

NoCheckpoint == 0

(***************************************************************************)
(* Reading a checkpoint                                                    *)
(***************************************************************************)

depth(c) == checkpoints[c].depth

prev(c) == checkpoints[c].prev

is_barrier(c) == checkpoints[c].mutation.kind = "barrier"

is_bundle(c) == checkpoints[c].mutation.kind = "bundle"

\* The transactions of a checkpoint.
transactions(c) ==
  LET m == checkpoints[c].mutation IN
  CASE m.kind = "barrier"     -> << >>
    [] m.kind = "transaction" -> <<m.source>>
    [] m.kind = "bundle"      -> m.source.txs

\* The n-th checkpoint before c, for n up to its depth.
iter(c) ==
  LET back[n \in 0..depth(c)] == IF n = 0 THEN c ELSE prev(back[n - 1]) IN back

\* Mutant: the checkpoints are probed from the first one on.
newest_oldest_first(c, found) ==
  LET back == iter(c)
      hits == {n \in DOMAIN back : back[n] \in found}
  IN IF hits = {} THEN NoCheckpoint ELSE back[Max(hits)]

\* find_map: the newest checkpoint from c backwards in which something is found.
newest(c, found) ==
  LET back == iter(c)
      hits == {n \in DOMAIN back : back[n] \in found}
  IN IF hits = {} THEN NoCheckpoint ELSE back[Min(hits)]

changes(c) == checkpoints[c].mutation.state

\* The checkpoints that touch an account.
touching(a) == {c \in DOMAIN checkpoints : a \in DOMAIN changes(c)}

\* DatabaseRef::basic_ref: a destroyed account has no info, so the search goes on.
basic_ref(c, a) ==
  LET d == newest(c, {e \in touching(a) : changes(e)[a].info # NoAccount})
  IN IF d = NoCheckpoint THEN Base[a].info ELSE changes(d)[a].info

\* DatabaseRef::storage_ref
storage_ref(c, a) ==
  LET d == newest(c, {e \in touching(a) : changes(e)[a].slot # None})
  IN IF d = NoCheckpoint THEN Base[a].slot ELSE changes(d)[a].slot

\* The checkpoint as the database of an EVM.
database(c) == [a \in Addresses |-> [info |-> basic_ref(c, a), slot |-> storage_ref(c, a)]]

(***************************************************************************)
(* Spans: sequences of checkpoints                                         *)
(***************************************************************************)

NonlinearHistory == << >>

\* Span::between: walks back from the deeper one until it meets the other.
between(start, end) ==
  IF start = end THEN <<start>>
  ELSE LET ancestor == IF depth(start) < depth(end) THEN start ELSE end
           descendant == IF ancestor = start THEN end ELSE start
           distance == depth(descendant) - depth(ancestor)
       IN IF iter(descendant)[distance] # ancestor THEN NonlinearHistory
          ELSE [i \in 1..(distance + 1) |-> iter(descendant)[distance + 1 - i]]

root(c) == iter(c)[depth(c)]

history(c) == between(c, root(c))

last_barrier(span) == SelectLastInSeq(span, is_barrier)

\* Mutant: everything since the beginning can still be changed.
history_staging_all(c) == history(c)

\* From the last barrier on, which is included.
history_staging(c) ==
  LET h == history(c) IN SubSeq(h, last_barrier(h), Len(h))

\* Up to the last barrier, which is included here, too.
history_sealed(c) ==
  LET h == history(c) IN SubSeq(h, 1, last_barrier(h))

(***************************************************************************)
(* Building: Checkpoint::apply and barrier                                 *)
(***************************************************************************)

\* The new checkpoint is built on c.
apply_with(c, mutation) ==
  Append(checkpoints, [prev |-> c, depth |-> depth(c) + 1, mutation |-> mutation])

NoRemoval == [pc |-> "idle", from |-> NoCheckpoint, prefix |-> NoCheckpoint, remaining |-> << >>]

\* BlockContext::start
Init ==
  /\ checkpoints = <<[prev |-> NoCheckpoint, depth |-> 0, mutation |-> Barrier]>>
  /\ removal = NoRemoval

Building == removal.pc = "idle" /\ Len(checkpoints) < MaxCheckpoints

Apply(c, execution) ==
  /\ Building
  /\ execution.error = "none"
  /\ checkpoints' = apply_with(c, execution.mutation)
  /\ UNCHANGED removal

ApplyTransaction(c, tx, outcome) == Apply(c, execute_transaction(tx, database(c), outcome))

ApplyBundle(c, bundle, outcomes) == Apply(c, execute_bundle(bundle, database(c), outcomes))

MakeBarrier(c) ==
  /\ Building
  /\ checkpoints' = apply_with(c, Barrier)
  /\ UNCHANGED removal

(***************************************************************************)
(* RemoveRevertedTransactions::step                                        *)
(***************************************************************************)

\* Where the failed transactions are that can be removed: results belong to what is left
\* of a bundle in the order they are in.
removable(mutation) ==
  {i \in DOMAIN mutation.results :
     /\ mutation.results[i].outcome # "Success"
     /\ mutation.kind = "bundle" => is_optional(mutation.source, mutation.source.txs[i])}

has_failures(c) == removable(checkpoints[c].mutation) # {}

\* Nothing to do without a failure in the staging history; otherwise what is before
\* it stays, and what is after it is applied again.
BeginRemoval(c) ==
  LET staging == history_staging(c)
      first == SelectInSeq(staging, has_failures)
      again == SubSeq(staging, first, Len(staging))
  IN /\ removal.pc = "idle"
     /\ depth(c) # 0
     /\ first # 0
     /\ removal' = [pc |-> "running", from |-> c, prefix |-> staging[first - 1],
                    remaining |-> [i \in DOMAIN again |-> checkpoints[again[i]].mutation]]
     /\ UNCHANGED checkpoints

\* The prefix is extended with what has been executed on it ...
Extend(execution) ==
  /\ checkpoints' = apply_with(removal.prefix, execution.mutation)
  /\ removal' = [removal EXCEPT !.prefix = Len(checkpoints'), !.remaining = Tail(@)]

\* Mutant: what cannot be applied is tried again.
KeepNext == UNCHANGED vars

\* ... or stays as it is.
DropNext ==
  /\ removal' = [removal EXCEPT !.remaining = Tail(@)]
  /\ UNCHANGED checkpoints

\* Mutant: a transaction is kept as long as it can be applied.
ReapplyValidTransaction(execution) ==
  IF execution.error = "none" THEN Extend(execution) ELSE DropNext

\* A transaction is kept only if it succeeds.
ReapplyTransaction(execution) ==
  IF execution.error = "none" /\ removable(execution.mutation) = {}
  THEN Extend(execution)
  ELSE DropNext

\* A bundle that has failures is tried again without them, until it has none or can
\* not be applied any more.  is_optional is asked of the bundle that was tried.
ReapplyBundle(bundle, execution) ==
  LET m == execution.mutation
      failed == {i \in DOMAIN m.results : /\ m.results[i].outcome # "Success"
                                         /\ is_optional(bundle, m.source.txs[i])}
      reduced == FoldLeftDomain(
        LAMBDA b, i : IF i \in failed THEN without_transaction(b, m.source.txs[i]) ELSE b,
        bundle, m.results)
  IN IF execution.error # "none" THEN DropNext
     ELSE IF failed = {} THEN Extend(execution)
     ELSE /\ removal' = [removal EXCEPT !.remaining[1].source = reduced]
          /\ UNCHANGED checkpoints

\* The outcomes that the transactions of a bundle may have.
BundleOutcomes(bundle) == [DOMAIN bundle.txs -> Outcomes]

\* The next of the remaining checkpoints is executed on top of the prefix.
Reapply ==
  /\ removal.pc = "running"
  /\ removal.remaining # << >>
  /\ \E next \in {Head(removal.remaining)}, db \in {database(removal.prefix)} :
       \/ /\ next.kind = "transaction"
          /\ \E execution \in {execute_transaction(next.source, db, o) : o \in Outcomes} :
               ReapplyTransaction(execution)
       \/ /\ next.kind = "bundle"
          /\ \E execution \in {execute_bundle(next.source, db, o) :
                                 o \in BundleOutcomes(next.source)} :
               ReapplyBundle(next.source, execution)

EndRemoval ==
  /\ removal.pc = "running"
  /\ removal.remaining = << >>
  /\ removal' = [removal EXCEPT !.pc = "done"]
  /\ UNCHANGED checkpoints

Next ==
  \/ \E c \in DOMAIN checkpoints :
       \/ \E tx \in Transactions, outcome \in Outcomes : ApplyTransaction(c, tx, outcome)
       \/ \E b \in Bundles : \E outcomes \in BundleOutcomes(b) : ApplyBundle(c, b, outcomes)
       \/ MakeBarrier(c)
       \/ BeginRemoval(c)
  \/ Reapply
  \/ EndRemoval

(***************************************************************************)
(* Properties                                                              *)
(***************************************************************************)

\* What was executed in the history of a checkpoint, in its order.
executed(c) ==
  LET h == history(c) IN FlattenSeq([i \in DOMAIN h |-> checkpoints[h[i]].mutation.results])

\* The state after executing all of it, one transaction after the other.
replayed(c) ==
  FoldLeft(LAMBDA s, r : committed(s, effects(s, r.tx, r.outcome)), Base, executed(c))

\* "The state at a checkpoint is the cumulative aggregate of all state mutations that
\* occurred in the current checkpoint and all its ancestors" (checkpoint.rs): what the
\* lookups find is what executing the whole history gives, for all accounts that
\* nothing in the history destroys.
LookupsAreTheState ==
  \A c \in DOMAIN checkpoints : \A a \in Addresses :
    (\A r \in ToSet(executed(c)) : r.tx.target = a /\ r.outcome = "Success" => r.tx.write # None)
      => database(c)[a] = replayed(c)[a]

\* No transaction that may be dropped is there twice.
Once(bundle) ==
  \A i, k \in DOMAIN bundle.txs :
    bundle.txs[i] = bundle.txs[k] /\ is_optional(bundle, bundle.txs[i]) => i = k

\* No such bundle is in the payload.
OnceIn(c) ==
  \A d \in ToSet(history(c)) : is_bundle(d) => Once(checkpoints[d].mutation.executable)

\* "Checkpoints are always in a state that can be used to build a valid block payload"
\* (checkpoint.rs): along the history of a checkpoint every transaction has the nonce
\* its signer has then, whatever has been discarded or removed, and each transaction
\* of the payload has its own result.  The second half says nothing of a payload with a
\* bundle that has an optional transaction twice, which nothing rejects: execute_bundle
\* discards the later one, and without_transaction then takes out the first, so that
\* the transactions are in another order than they were executed in.
PayloadsAreValid ==
  \A c \in DOMAIN checkpoints :
    LET all == executed(c)
        h == history(c)
    IN /\ \A i \in DOMAIN all :
            all[i].tx.nonce = Base[all[i].tx.signer].info
                + Cardinality({j \in 1..(i - 1) : all[j].tx.signer = all[i].tx.signer})
       /\ OnceIn(c) => FlattenSeq([i \in DOMAIN h |-> transactions(h[i])])
                         = [i \in DOMAIN all |-> all[i].tx]

\* The truth table of execute_bundle: a bundle in a payload has all its transactions
\* in their order but for optional ones, and those that failed were allowed to.  All of
\* them may be gone: see EmptyBundlesAreInvalid.
BundleRules ==
  \A c \in DOMAIN checkpoints : is_bundle(c) =>
    LET m == checkpoints[c].mutation
        sent == m.executable
    IN /\ \E place \in [DOMAIN m.source.txs -> DOMAIN sent.txs] :
            /\ \A i, k \in DOMAIN place : i < k => place[i] < place[k]
            /\ \A i \in DOMAIN place : m.source.txs[i] = sent.txs[place[i]]
            /\ \A j \in DOMAIN sent.txs : (\A i \in DOMAIN place : place[i] # j)
                                           => is_optional(sent, sent.txs[j])
       /\ \A r \in ToSet(m.results) : r.outcome = "Success" \/ is_allowed_to_fail(sent, r.tx)

\* RemoveRevertedTransactions leaves nothing that failed and could be removed behind
\* the last barrier, although what follows a removed transaction is executed anew and
\* may fail only then.
RevertsAreRemoved ==
  removal.pc = "done" => \A c \in ToSet(history_staging(removal.prefix)) : ~has_failures(c)

\* "we're working only with the staging history of the payload, if a reverting
\* transaction was already committed, we will not remove it" (revert.rs): the payload
\* keeps all checkpoints up to its last barrier, and no other barrier takes its place.
SealedHistoryIsKept ==
  removal.pc # "idle" => history_sealed(removal.prefix) = history_sealed(removal.from)

\* The step ends: it does not try one bundle or transaction for ever.
RemovalEnds == removal.pc = "running" ~> removal.pc = "done"

(***************************************************************************)
(* What a comment says                                                     *)
(***************************************************************************)

\* "If removing the invalid optional transaction results in an empty bundle, the bundle
\* will be considered invalid and no execution result will be produced" (exec.rs): no
\* checkpoint is made from a bundle of which nothing is left.  execute_bundle does not
\* look at what is left: the result without transactions becomes a checkpoint.
EmptyBundlesAreInvalid ==
  \A c \in DOMAIN checkpoints : is_bundle(c) => transactions(c) # << >>
=============================================================================
