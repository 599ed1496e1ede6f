-------------------------- MODULE AppendOrdersProofs --------------------------
(***************************************************************************)
(* The payloads that AppendOrders extends have no transaction twice and    *)
(* stay within the gas and the blob gas of their scope, a run of the step  *)
(* stays within its limits, its counters add up, and those of a job are    *)
(* its own if no other overlaps with it: for any number of jobs, any       *)
(* orders and any configuration.                                           *)
(***************************************************************************)
EXTENDS AppendOrders, FiniteSetTheorems, SequenceTheorems, WellFoundedInduction, TLAPS

(***************************************************************************)
(* Types                                                                   *)
(***************************************************************************)

Txs == UNION {ToSet(OrderOf[o].txs) : o \in Orders}

Checkpoints == [kind : {"barrier", "transaction", "bundle"}, order : Orders \cup {"none"},
                txs : Seq(Txs)]

Runs == [txs : Nat, orders : Nat, bundles : Nat, existing_txs : SUBSET Txs]

JobStates == [pc : {"waiting", "reset", "between", "running", "attempted", "considered",
                    "after", "ended", "done"},
              deadline_reached : BOOLEAN, payload : Seq(Checkpoints), run : Runs,
              source : {"pool", "system"}, visited : SUBSET Orders, order : Orders \cup {"none"}]

TypeOK ==
  /\ config \in Configs
  /\ jobs \in [Jobs -> JobStates]
  /\ attempted \subseteq Orders
  /\ IsFiniteSet(attempted)
  /\ per_job \in [considered : Nat, included : Nat]
  /\ metrics \in [considered : Nat, skipped : Nat, inclusion_failed : Nat, included : Nat]
  /\ IsFiniteSet(Undecided)

\* The positions of a part of a sequence are positions of the sequence, each once, and
\* not more of them.
LEMMA SelectionFacts ==
  ASSUME NEW S, NEW s \in Seq(S), NEW f \in Selections(s)
  PROVE  /\ \E n \in 0..Len(s) : f \in [1..n -> DOMAIN s]
         /\ \A i, k \in DOMAIN f : f[i] = f[k] => i = k
         /\ \A g : (g = [i \in DOMAIN f |-> s[f[i]]])
                     => /\ g \in Seq(S)
                        /\ DOMAIN g = DOMAIN f
                        /\ Len(g) <= Len(s)
                        /\ \A i \in DOMAIN g : f[i] \in DOMAIN s /\ g[i] = s[f[i]]
  <1>1. PICK n \in 0..Len(s) : f \in [1..n -> DOMAIN s]
    BY DEF Selections
  <1>2. \A i, k \in DOMAIN f : i < k => f[i] < f[k]
    BY DEF Selections
  <1>3. Len(s) \in Nat /\ DOMAIN s = 1..Len(s) /\ \A i \in DOMAIN s : s[i] \in S
    OBVIOUS
  <1>4. n \in Nat /\ n <= Len(s) /\ DOMAIN f = 1..n
    BY <1>1, <1>3
  <1>5. \A i, k \in DOMAIN f : f[i] = f[k] => i = k
    <2>1. \A i \in DOMAIN f : i \in Nat /\ f[i] \in Nat
      BY <1>1, <1>3, <1>4
    <2> QED
      BY <1>2, <2>1
  <1>6. ASSUME NEW g, g = [i \in DOMAIN f |-> s[f[i]]]
        PROVE  /\ g \in Seq(S)
               /\ DOMAIN g = DOMAIN f
               /\ Len(g) <= Len(s)
               /\ \A i \in DOMAIN g : f[i] \in DOMAIN s /\ g[i] = s[f[i]]
    <2>1. g \in [1..n -> S]
      BY <1>1, <1>3, <1>4, <1>6
    <2>2. g \in Seq(S) /\ Len(g) = n
      BY <1>4, <2>1
    <2> QED
      BY <1>1, <1>4, <1>6, <2>1, <2>2
  <1> QED
    BY <1>1, <1>5, <1>6

\* What is left of an order: a checkpoint of the order's kind, with transactions of the
\* order, each once, and not more of them.
LEMMA AppliedFacts ==
  ASSUME NEW o \in Orders, NEW candidate \in Applied(o)
  PROVE  /\ candidate \in Checkpoints
         /\ candidate.kind = OrderOf[o].kind
         /\ Len(candidate.txs) <= Len(OrderOf[o].txs)
         /\ ToSet(candidate.txs) \subseteq ToSet(OrderOf[o].txs)
         /\ \A p, q \in DOMAIN candidate.txs : candidate.txs[p] = candidate.txs[q] => p = q
  <1> DEFINE order == OrderOf[o]
             txs == OrderOf[o].txs
  <1>1. /\ order.kind \in {"transaction", "bundle"}
        /\ txs \in Seq(ToSet(txs))
    BY AppendConstants
  <1>2. ToSet(txs) \subseteq Txs
    BY DEF Txs
  <1>3. PICK f \in Selections(txs) :
          /\ \A i, k \in DOMAIN f : txs[f[i]] = txs[f[k]] => i = k
          /\ candidate = [kind |-> order.kind, order |-> o, txs |-> [i \in DOMAIN f |-> txs[f[i]]]]
    BY DEF Applied
  <1>4. PICK g : g = [i \in DOMAIN f |-> txs[f[i]]]
    OBVIOUS
  <1>5. candidate = [kind |-> order.kind, order |-> o, txs |-> g]
    BY <1>3, <1>4
  <1> HIDE DEF order, txs
  <1>6. /\ g \in Seq(ToSet(txs))
        /\ DOMAIN g = DOMAIN f
        /\ Len(g) <= Len(txs)
        /\ \A i \in DOMAIN g : f[i] \in DOMAIN txs /\ g[i] = txs[f[i]]
    BY <1>1, <1>4, SelectionFacts, Zenon
  <1>7. g \in Seq(Txs)
    BY <1>2, <1>6
  <1>8. ToSet(g) \subseteq ToSet(txs)
    BY <1>6 DEF ToSet
  <1>9. \A p, q \in DOMAIN g : g[p] = g[q] => p = q
    BY <1>3, <1>6
  <1>10. candidate \in Checkpoints /\ candidate.kind = order.kind /\ candidate.txs = g
    BY <1>1, <1>5, <1>7 DEF Checkpoints
  <1> QED
    BY <1>6, <1>8, <1>9, <1>10 DEF order, txs

\* The barrier that a payload starts with, and the run that has not begun.
LEMMA Nothing ==
  /\ BarrierCheckpoint \in Checkpoints
  /\ NoRun = [txs |-> 0, orders |-> 0, bundles |-> 0, existing_txs |-> {}]
  /\ NoRun \in Runs
  /\ transactions(<<BarrierCheckpoint>>) = {}
  <1>1. BarrierCheckpoint \in Checkpoints
    BY DEF BarrierCheckpoint, Checkpoints
  <1>2. transactions(<<BarrierCheckpoint>>) = {}
    BY DEF transactions, BarrierCheckpoint, ToSet
  <1> QED
    BY <1>1, <1>2 DEF NoRun, RunNew, Runs

\* A run of the step begins with the transactions of the payload.
LEMMA TransactionsTyped ==
  ASSUME NEW payload \in Seq(Checkpoints)
  PROVE  transactions(payload) \subseteq Txs /\ RunNew(payload) \in Runs
  <1>1. \A i \in DOMAIN payload : payload[i].txs \in Seq(Txs)
    <2>1. \A i \in DOMAIN payload : payload[i] \in Checkpoints
      OBVIOUS
    <2> QED
      BY <2>1 DEF Checkpoints
  <1>2. \A i \in DOMAIN payload : ToSet(payload[i].txs) \subseteq Txs
    BY <1>1 DEF ToSet
  <1>3. transactions(payload) \subseteq Txs
    BY <1>2 DEF transactions
  <1> QED
    BY <1>3 DEF RunNew, Runs

(***************************************************************************)
(* What a step does to a job                                               *)
(***************************************************************************)

\* The run after it has included a candidate.
RunWith(run, candidate) ==
  [txs |-> run.txs + Len(candidate.txs), orders |-> run.orders + 1,
   bundles |-> run.bundles + IF is_bundle(candidate) THEN 1 ELSE 0,
   existing_txs |-> run.existing_txs \cup ToSet(candidate.txs)]

InRun(job) == job.pc \in {"running", "attempted", "considered"}

Trying(job) == job.pc \in {"attempted", "considered"}

Keeps(old, new) ==
  /\ new.payload = old.payload /\ new.run = old.run
  /\ InRun(new) => InRun(old)
  /\ Trying(new) => \/ Trying(old) /\ new.order = old.order
                    \/ ~should_stop(old) /\ new.order \in Orders

Begins(old, new) ==
  new.payload = old.payload /\ new.run = RunNew(old.payload) /\ new.pc = "running"

Ends(old, new) ==
  new.payload = old.payload /\ new.run = NoRun /\ ~InRun(new)

Loses(old, new) ==
  /\ new.run = old.run /\ ~InRun(new)
  /\ \E f \in Selections(old.payload) :
       new.payload = [i \in DOMAIN f |-> old.payload[f[i]]]

Gains(old, new) ==
  \E candidate \in Applied(old.order) :
    /\ Trying(old) /\ ~should_skip(old, OrderOf[old.order])
    /\ fits(old, candidate)
    /\ new.payload = Append(old.payload, candidate)
    /\ new.run = RunWith(old.run, candidate)
    /\ new.pc = "running"

Moves(old, new) ==
  Keeps(old, new) \/ Begins(old, new) \/ Ends(old, new) \/ Loses(old, new) \/ Gains(old, new)

\* Where only the place of a job changes, or an order is taken up.
LEMMA AttemptMoves ==
  ASSUME TypeOK, NEW j \in Jobs, Attempt(j)
  PROVE  /\ \E new \in JobStates : jobs' = [jobs EXCEPT ![j] = new] /\ Keeps(jobs[j], new)
         /\ UNCHANGED config
  <1> DEFINE old == jobs[j]
  <1>1. old \in JobStates /\ config \in Configs /\ jobs \in [Jobs -> JobStates]
    BY DEF TypeOK
  <1>2. old.pc = "running" /\ ~should_stop(old)
    BY DEF Attempt
  <1>3. PICK o \in config.orders :
          \/ jobs' = [jobs EXCEPT ![j].visited = @ \cup {o}]
          \/ jobs' = [jobs EXCEPT ![j].visited = @ \cup {o}, ![j].pc = "attempted", ![j].order = o]
    BY DEF Attempt
  <1>4. o \in Orders
    BY <1>1, AppendConstants
  <1>5. UNCHANGED config
    BY DEF Attempt
  <1> HIDE DEF old
  <1>6. CASE jobs' = [jobs EXCEPT ![j].visited = @ \cup {o}]
    <2>1. PICK new : new = [old EXCEPT !.visited = @ \cup {o}]
      OBVIOUS
    <2>2. new \in JobStates /\ Keeps(old, new)
      BY <1>1, <1>2, <1>4, <2>1 DEF JobStates, Keeps, InRun, Trying
    <2>3. jobs' = [jobs EXCEPT ![j] = new]
      BY <1>1, <1>6, <2>1 DEF old
    <2> QED
      BY <1>5, <2>2, <2>3 DEF old
  <1>7. CASE jobs' = [jobs EXCEPT ![j].visited = @ \cup {o}, ![j].pc = "attempted", ![j].order = o]
    <2>1. PICK new : new = [old EXCEPT !.visited = @ \cup {o}, !.pc = "attempted", !.order = o]
      OBVIOUS
    <2>2. new \in JobStates /\ Keeps(old, new)
      BY <1>1, <1>2, <1>4, <2>1 DEF JobStates, Keeps, InRun, Trying
    <2>3. jobs' = [jobs EXCEPT ![j] = new]
      BY <1>1, <1>7, <2>1 DEF old
    <2> QED
      BY <1>5, <2>2, <2>3 DEF old
  <1> QED
    BY <1>3, <1>6, <1>7

\* try_include keeps the job, or includes what is left of the order.
LEMMA ConcludeMoves ==
  ASSUME TypeOK, NEW j \in Jobs, jobs[j].order \in Orders, Conclude(j)
  PROVE  /\ \E new \in JobStates : /\ jobs' = [jobs EXCEPT ![j] = new]
                                   /\ Keeps(jobs[j], new) \/ Gains(jobs[j], new)
         /\ UNCHANGED config
  <1> DEFINE old == jobs[j]
             o == jobs[j].order
  <1>1. old \in JobStates /\ jobs \in [Jobs -> JobStates] /\ o \in Orders
    BY DEF TypeOK
  <1>2. old.pc = "considered" /\ UNCHANGED config
    BY DEF Conclude
  <1>3. CASE jobs' = [jobs EXCEPT ![j].pc = "running", ![j].order = "none"]
    <2>1. PICK new : new = [old EXCEPT !.pc = "running", !.order = "none"]
      OBVIOUS
    <2>2. new \in JobStates /\ Keeps(old, new)
      BY <1>1, <1>2, <2>1 DEF JobStates, Keeps, InRun, Trying
    <2>3. jobs' = [jobs EXCEPT ![j] = new]
      BY <1>1, <1>3, <2>1
    <2> QED
      BY <1>2, <2>2, <2>3
  <1>4. CASE jobs' # [jobs EXCEPT ![j].pc = "running", ![j].order = "none"]
    <2>1. /\ ~should_skip(old, OrderOf[o])
          /\ \E candidate \in Applied(o) : Include(j, candidate)
      BY <1>4 DEF Conclude, Skip, Fail, SkipForGas, LeaveOut
    <2>2. PICK candidate \in Applied(o) : Include(j, candidate)
      BY <2>1
    <2>3. fits(old, candidate)
      BY <2>2 DEF Include
    <2>4. candidate \in Checkpoints
      BY <1>1, AppliedFacts
    <2>5. candidate.txs \in Seq(Txs) /\ Len(candidate.txs) \in Nat /\ ToSet(candidate.txs) \subseteq Txs
      <3>1. candidate.txs \in Seq(Txs)
        BY <2>4 DEF Checkpoints
      <3> QED
        BY <3>1 DEF ToSet
    <2>6. PICK new : new = Extended(old, candidate)
      OBVIOUS
    <2>7. jobs' = [jobs EXCEPT ![j] = new]
      BY <2>2, <2>6 DEF Include
    <2>8. old.run \in Runs /\ old.payload \in Seq(Checkpoints)
      BY <1>1 DEF JobStates
    <2> HIDE DEF old, o
    <2>9. /\ new.run = RunWith(old.run, candidate) /\ new.payload = Append(old.payload, candidate)
          /\ new.pc = "running"
      BY <1>1, <2>6 DEF JobStates, Runs, RunWith, Extended
    <2>10. new.run \in Runs
      <3>1. \A n \in Nat : n + 1 \in Nat /\ n + 0 \in Nat /\ n + Len(candidate.txs) \in Nat
        BY <2>5
      <3> QED
        BY <2>5, <2>8, <2>9, <3>1 DEF RunWith, Runs
    <2>11. new.payload \in Seq(Checkpoints)
      BY <2>4, <2>8, <2>9
    <2>12. new = [old EXCEPT !.pc = "running", !.order = "none", !.payload = new.payload, !.run = new.run]
      BY <1>1, <2>6, ZenonT(60) DEF JobStates, Runs, Extended
    <2>13. new \in JobStates
      BY <1>1, <2>10, <2>11, <2>12 DEF JobStates
    <2>14. o = old.order
      BY DEF old, o
    <2>15. Gains(old, new)
      BY <1>2, <2>1, <2>3, <2>9, <2>14 DEF Gains, Trying
    <2> QED
      BY <1>2, <2>7, <2>13, <2>15 DEF old
  <1> QED
    BY <1>3, <1>4

\* Where a job goes on without a new order.
LEMMA ProceedMoves ==
  ASSUME TypeOK, NEW j \in Jobs, jobs[j].pc = "considered" => jobs[j].order \in Orders,
         Proceed(j) \/ DeadlineReached(j)
  PROVE  /\ \E new \in JobStates : /\ jobs' = [jobs EXCEPT ![j] = new]
                                   /\ Moves(jobs[j], new)
         /\ UNCHANGED config
  <1> DEFINE old == jobs[j]
  <1>1. old \in JobStates /\ old.payload \in Seq(Checkpoints) /\ jobs \in [Jobs -> JobStates]
    BY DEF TypeOK, JobStates
  <1>2. CASE BeforeJob(j) \/ ResetCounters(j) \/ AfterJob(j) \/ Consider(j)
    <2>1. PICK pc \in {"reset", "between", "done", "considered"} :
            /\ jobs' = [jobs EXCEPT ![j].pc = pc]
            /\ pc = "considered" => old.pc = "attempted"
      BY <1>2 DEF BeforeJob, ResetCounters, AfterJob, Consider
    <2>2. PICK new : new = [old EXCEPT !.pc = pc]
      OBVIOUS
    <2>3. new \in JobStates /\ Keeps(old, new)
      BY <1>1, <2>1, <2>2 DEF JobStates, Keeps, InRun, Trying
    <2>4. jobs' = [jobs EXCEPT ![j] = new]
      BY <1>1, <2>1, <2>2
    <2>5. UNCHANGED config
      BY <1>2 DEF BeforeJob, ResetCounters, AfterJob, Consider
    <2> QED
      BY <2>3, <2>4, <2>5 DEF Moves
  <1>3. CASE DeadlineReached(j)
    <2>1. PICK new : new = [old EXCEPT !.deadline_reached = TRUE]
      OBVIOUS
    <2>2. new \in JobStates /\ Keeps(old, new)
      BY <1>1, <2>1 DEF JobStates, Keeps, InRun, Trying
    <2>3. jobs' = [jobs EXCEPT ![j] = new] /\ UNCHANGED config
      BY <1>1, <1>3, <2>1 DEF DeadlineReached
    <2> QED
      BY <2>2, <2>3 DEF Moves
  <1>4. CASE BeginStep(j)
    <2>1. PICK run : run = RunNew(old.payload)
      OBVIOUS
    <2>2. run \in Runs
      BY <1>1, <2>1, TransactionsTyped
    <2>3. PICK new : new = [old EXCEPT !.pc = "running", !.run = run]
      OBVIOUS
    <2>4. new \in JobStates /\ new.payload = old.payload /\ new.run = run /\ new.pc = "running"
      BY <1>1, <2>2, <2>3 DEF JobStates
    <2>5. jobs' = [jobs EXCEPT ![j] = new] /\ UNCHANGED config
      BY <1>1, <1>4, <2>1, <2>3 DEF BeginStep
    <2> QED
      BY <2>1, <2>4, <2>5 DEF Moves, Begins
  <1>5. CASE OrderPoolExhausted(j)
    <2>1. PICK new : new = [old EXCEPT !.source = "system", !.visited = {}]
      OBVIOUS
    <2>2. new \in JobStates /\ Keeps(old, new)
      BY <1>1, <2>1 DEF JobStates, Keeps, InRun, Trying
    <2>3. jobs' = [jobs EXCEPT ![j] = new] /\ UNCHANGED config
      BY <1>1, <1>5, <2>1 DEF OrderPoolExhausted
    <2> QED
      BY <2>2, <2>3 DEF Moves
  <1>6. CASE EndStep(j)
    <2>1. PICK pc \in {"ended", "after"} :
            jobs' = [jobs EXCEPT ![j].pc = pc, ![j].run = NoRun, ![j].source = "pool", ![j].visited = {}]
      BY <1>6 DEF EndStep
    <2>2. PICK new : new = [old EXCEPT !.pc = pc, !.run = NoRun, !.source = "pool", !.visited = {}]
      OBVIOUS
    <2>3. new \in JobStates /\ Ends(old, new)
      BY <1>1, <2>2, Nothing DEF JobStates, Ends, InRun
    <2>4. jobs' = [jobs EXCEPT ![j] = new]
      BY <1>1, <2>1, <2>2
    <2>5. UNCHANGED config
      BY <1>6 DEF EndStep
    <2> QED
      BY <2>3, <2>4, <2>5 DEF Moves
  <1>7. CASE OtherSteps(j)
    <2>1. PICK f \in Selections(old.payload) :
            jobs' = [jobs EXCEPT ![j].pc = "between",
                                 ![j].payload = [i \in DOMAIN f |-> old.payload[f[i]]]]
      BY <1>1, <1>7 DEF OtherSteps
    <2>2. PICK left : left = [i \in DOMAIN f |-> old.payload[f[i]]]
      OBVIOUS
    <2>3. left \in Seq(Checkpoints)
      BY <1>1, <2>2, SelectionFacts, Zenon
    <2>4. PICK new : new = [old EXCEPT !.pc = "between", !.payload = left]
      OBVIOUS
    <2>5. new \in JobStates /\ new.pc = "between" /\ new.run = old.run /\ new.payload = left
      BY <1>1, <2>3, <2>4 DEF JobStates
    <2>6. jobs' = [jobs EXCEPT ![j] = new]
      BY <1>1, <2>1, <2>2, <2>4
    <2>7. UNCHANGED config
      BY <1>7 DEF OtherSteps
    <2>8. Loses(old, new)
      BY <2>2, <2>5 DEF Loses, InRun
    <2> QED
      BY <2>5, <2>6, <2>7, <2>8 DEF Moves
  <1>8. CASE Conclude(j)
    <2>1. old.order \in Orders
      BY <1>8 DEF Conclude
    <2> QED
      BY <1>8, <2>1, ConcludeMoves DEF Moves
  <1> QED
    BY <1>2, <1>3, <1>4, <1>5, <1>6, <1>7, <1>8 DEF Proceed

\* A run that has taken up an order has room for one more, whatever it is.
HasRoom(job) ==
  /\ ~at_limit(job.run.orders, config.step.max_new_orders)
  /\ ~at_limit(job.run.bundles, config.step.max_new_bundles)

Ready(job) == Trying(job) => job.order \in Orders /\ HasRoom(job)

ReadyJobs == \A j \in Jobs : Ready(jobs[j])

\* The job that acts moves, and the others stay.
LEMMA ActorMoves ==
  ASSUME TypeOK, ReadyJobs, NEW j \in Jobs, Proceed(j) \/ Attempt(j) \/ DeadlineReached(j)
  PROVE  /\ config' = config
         /\ jobs' \in [Jobs -> JobStates]
         /\ Moves(jobs[j], jobs'[j])
         /\ \A k \in Jobs \ {j} : jobs'[k] = jobs[k]
  <1>1. jobs \in [Jobs -> JobStates]
    BY DEF TypeOK
  <1>2. jobs[j].pc = "considered" => jobs[j].order \in Orders
    BY DEF ReadyJobs, Ready, Trying
  <1>3. /\ config' = config
        /\ \E new \in JobStates : jobs' = [jobs EXCEPT ![j] = new] /\ Moves(jobs[j], new)
    BY <1>2, AttemptMoves, ProceedMoves DEF Moves
  <1>4. PICK new \in JobStates : jobs' = [jobs EXCEPT ![j] = new] /\ Moves(jobs[j], new)
    BY <1>3
  <1>5. jobs'[j] = new /\ \A k \in Jobs \ {j} : jobs'[k] = jobs[k]
    BY <1>1, <1>4
  <1> QED
    BY <1>1, <1>3, <1>4, <1>5

\* The configuration stays, and so does every job but one, which moves.
LEMMA OneMoves ==
  ASSUME TypeOK, ReadyJobs, [Next]_vars
  PROVE  /\ config' = config
         /\ jobs' \in [Jobs -> JobStates]
         /\ \A j \in Jobs : jobs'[j] = jobs[j] \/ Moves(jobs[j], jobs'[j])
  <1>1. CASE UNCHANGED vars
    BY <1>1 DEF vars, TypeOK
  <1>2. CASE \E j \in Jobs : Proceed(j) \/ Attempt(j) \/ DeadlineReached(j)
    BY <1>2, ActorMoves
  <1> QED
    BY <1>1, <1>2 DEF Next, AllDone

(***************************************************************************)
(* What a step does to the shared state                                    *)
(***************************************************************************)

Starts(j) ==
  /\ jobs[j].pc = "waiting" /\ jobs'[j].pc = "reset" /\ jobs'[j].payload = jobs[j].payload
  /\ attempted' = {}
  /\ overlapped' = overlapped \cup LET others == {k \in Jobs : Running(k)}
                                 IN IF others = {} THEN {} ELSE others \cup {j}
  /\ UNCHANGED <<per_job, metrics>>

Resets(j) ==
  /\ jobs[j].pc = "reset" /\ jobs'[j].pc = "between" /\ jobs'[j].payload = jobs[j].payload
  /\ per_job' = PerJobZero
  /\ UNCHANGED <<attempted, metrics, overlapped>>

TakesUp(j) ==
  /\ jobs[j].pc = "running" /\ jobs'[j].pc = "attempted" /\ jobs'[j].payload = jobs[j].payload
  /\ \E o \in Orders \ attempted : attempted' = attempted \cup {o}
  /\ UNCHANGED <<per_job, metrics, overlapped>>

Counts(j) ==
  /\ jobs[j].pc = "attempted" /\ jobs'[j].pc = "considered" /\ jobs'[j].payload = jobs[j].payload
  /\ metrics' = [metrics EXCEPT !.considered = @ + 1]
  /\ per_job' = [per_job EXCEPT !.considered = @ + 1]
  /\ UNCHANGED <<attempted, overlapped>>

LeavesOut(j) ==
  /\ jobs[j].pc = "considered" /\ jobs'[j].pc = "running" /\ jobs'[j].payload = jobs[j].payload
  /\ \/ metrics' = [metrics EXCEPT !.skipped = @ + 1]
     \/ metrics' = [metrics EXCEPT !.inclusion_failed = @ + 1]
  /\ UNCHANGED <<attempted, per_job, overlapped>>

Includes(j) ==
  /\ jobs[j].pc = "considered" /\ jobs'[j].pc = "running"
  /\ Len(jobs'[j].payload) = Len(jobs[j].payload) + 1
  /\ metrics' = [metrics EXCEPT !.included = @ + 1]
  /\ per_job' = [per_job EXCEPT !.included = @ + 1]
  /\ UNCHANGED <<attempted, overlapped>>

\* What is not shared.
Quiet(j) ==
  /\ Running(j)
  /\ \/ jobs'[j].pc = jobs[j].pc /\ jobs'[j].payload = jobs[j].payload
     \/ /\ jobs[j].pc \in {"between", "running", "after", "ended"}
        /\ jobs'[j].pc \in {"between", "running", "after", "ended", "done"}
        /\ Len(jobs'[j].payload) <= Len(jobs[j].payload)
  /\ UNCHANGED <<attempted, per_job, metrics, overlapped>>

Acts(j) ==
  \/ Starts(j) \/ Resets(j) \/ TakesUp(j) \/ Counts(j) \/ LeavesOut(j) \/ Includes(j) \/ Quiet(j)

\* Every action is one of these.
LEMMA Acting ==
  ASSUME TypeOK, ReadyJobs, NEW j \in Jobs, Proceed(j) \/ Attempt(j) \/ DeadlineReached(j)
  PROVE  Acts(j)
  <1> DEFINE old == jobs[j]
  <1>1. /\ jobs \in [Jobs -> JobStates] /\ config \in Configs
        /\ old \in JobStates /\ old.payload \in Seq(Checkpoints)
    BY DEF TypeOK, JobStates
  <1>2. CASE BeforeJob(j)
    <2>1. jobs'[j].pc = "reset" /\ jobs'[j].payload = old.payload
      BY <1>1, <1>2 DEF BeforeJob, JobStates
    <2> QED
      BY <1>2, <2>1 DEF BeforeJob, Acts, Starts
  <1>3. CASE ResetCounters(j)
    <2>1. jobs'[j].pc = "between" /\ jobs'[j].payload = old.payload
      BY <1>1, <1>3 DEF ResetCounters, JobStates
    <2> QED
      BY <1>3, <2>1 DEF ResetCounters, Acts, Resets
  <1>4. CASE Consider(j)
    <2>1. jobs'[j].pc = "considered" /\ jobs'[j].payload = old.payload
      BY <1>1, <1>4 DEF Consider, JobStates
    <2> QED
      BY <1>4, <2>1 DEF Consider, Acts, Counts
  <1>5. CASE Attempt(j)
    <2>1. PICK o \in config.orders :
            /\ \/ /\ o \in attempted
                  /\ jobs' = [jobs EXCEPT ![j].visited = @ \cup {o}]
               \/ /\ o \notin attempted
                  /\ jobs' = [jobs EXCEPT ![j].visited = @ \cup {o},
                                          ![j].pc = "attempted", ![j].order = o]
            /\ attempted' = attempted \cup {o}
      BY <1>5 DEF Attempt
    <2>2. o \in Orders
      BY <1>1, AppendConstants
    <2>3. old.pc = "running" /\ UNCHANGED <<per_job, metrics, overlapped>>
      BY <1>5 DEF Attempt
    <2>4. CASE o \in attempted
      <3>1. jobs'[j].pc = "running" /\ jobs'[j].payload = old.payload
        BY <1>1, <2>1, <2>3, <2>4 DEF JobStates
      <3>2. attempted' = attempted
        BY <2>1, <2>4
      <3> QED
        BY <2>3, <3>1, <3>2 DEF Acts, Quiet, Running
    <2>5. CASE o \notin attempted
      <3>1. jobs'[j].pc = "attempted" /\ jobs'[j].payload = old.payload
        BY <1>1, <2>1, <2>3, <2>5 DEF JobStates
      <3> QED
        BY <2>1, <2>2, <2>3, <2>5, <3>1 DEF Acts, TakesUp
    <2> QED
      BY <2>4, <2>5
  <1>6. CASE Conclude(j)
    <2>1. old.pc = "considered" /\ UNCHANGED <<attempted, overlapped>>
      BY <1>6 DEF Conclude
    <2>2. CASE LeaveOut(j, "skipped") \/ LeaveOut(j, "inclusion_failed")
      <3>1. jobs'[j].pc = "running" /\ jobs'[j].payload = old.payload
        BY <1>1, <2>2 DEF LeaveOut, JobStates
      <3>2. /\ \/ metrics' = [metrics EXCEPT !.skipped = @ + 1]
               \/ metrics' = [metrics EXCEPT !.inclusion_failed = @ + 1]
            /\ UNCHANGED per_job
        BY <2>2 DEF LeaveOut
      <3> QED
        BY <2>1, <3>1, <3>2 DEF Acts, LeavesOut
    <2>3. CASE \E candidate \in Applied(old.order) : Include(j, candidate)
      <3>1. PICK candidate \in Applied(old.order) : Include(j, candidate)
        BY <2>3
      <3>2. old.order \in Orders
        BY <2>1 DEF ReadyJobs, Ready, Trying
      <3>3. candidate \in Checkpoints
        BY <3>2, AppliedFacts
      <3>4. jobs'[j].pc = "running" /\ jobs'[j].payload = Append(old.payload, candidate)
        <4>1. jobs'[j] = Extended(old, candidate)
          BY <1>1, <3>1 DEF Include
        <4>2. PICK job \in JobStates : job = old
          BY <1>1
        <4>3. /\ Extended(job, candidate).pc = "running"
              /\ Extended(job, candidate).payload = Append(job.payload, candidate)
          BY <4>2 DEF Extended, JobStates
        <4> QED
          BY <4>1, <4>2, <4>3
      <3>5. Len(jobs'[j].payload) = Len(old.payload) + 1
        BY <1>1, <3>3, <3>4
      <3> QED
        BY <2>1, <3>1, <3>4, <3>5 DEF Acts, Includes, Include
    <2> QED
      BY <1>6, <2>2, <2>3 DEF Conclude, Skip, Fail, SkipForGas
  <1>7. CASE AfterJob(j) \/ BeginStep(j) \/ OrderPoolExhausted(j) \/ EndStep(j)
    <2>1. /\ UNCHANGED <<attempted, per_job, metrics, overlapped>>
          /\ old.pc \in {"between", "running", "after", "ended"}
      BY <1>7 DEF AfterJob, BeginStep, OrderPoolExhausted, EndStep
    <2>2. /\ jobs'[j].pc \in {"between", "running", "after", "ended", "done"}
          /\ jobs'[j].payload = old.payload
      BY <1>1, <1>7, <2>1 DEF AfterJob, BeginStep, OrderPoolExhausted, EndStep, JobStates
    <2>3. Len(jobs'[j].payload) <= Len(old.payload)
      BY <1>1, <2>2
    <2> QED
      BY <2>1, <2>2, <2>3 DEF Acts, Quiet, Running
  <1>8. CASE OtherSteps(j)
    <2>1. PICK f \in Selections(old.payload) :
            jobs' = [jobs EXCEPT ![j].pc = "between",
                                 ![j].payload = [i \in DOMAIN f |-> old.payload[f[i]]]]
      BY <1>1, <1>8 DEF OtherSteps
    <2>2. PICK left : left = [i \in DOMAIN f |-> old.payload[f[i]]]
      OBVIOUS
    <2>3. Len(left) <= Len(old.payload)
      BY <1>1, <2>2, SelectionFacts, ZenonT(40)
    <2>4. jobs'[j].pc = "between" /\ jobs'[j].payload = left
      BY <1>1, <2>1, <2>2 DEF JobStates
    <2>5. old.pc = "after" /\ UNCHANGED <<attempted, per_job, metrics, overlapped>>
      BY <1>8 DEF OtherSteps
    <2> QED
      BY <2>3, <2>4, <2>5 DEF Acts, Quiet, Running
  <1>9. CASE DeadlineReached(j)
    <2>1. jobs'[j].pc = old.pc /\ jobs'[j].payload = old.payload
      BY <1>1, <1>9 DEF DeadlineReached, JobStates
    <2> QED
      BY <1>9, <2>1 DEF DeadlineReached, Acts, Quiet
  <1> QED
    BY <1>2, <1>3, <1>4, <1>5, <1>6, <1>7, <1>8, <1>9 DEF Proceed

\* The jobs that have an order to decide.
LEMMA UndecidedMoves ==
  ASSUME TypeOK, NEW j \in Jobs, \A k \in Jobs \ {j} : jobs'[k] = jobs[k]
  PROVE  /\ IsFiniteSet(Undecided')
         /\ (jobs'[j].pc = "considered" <=> jobs[j].pc = "considered") => Undecided' = Undecided
         /\ jobs[j].pc # "considered" /\ jobs'[j].pc = "considered"
              => Cardinality(Undecided') = Cardinality(Undecided) + 1
         /\ jobs[j].pc = "considered" /\ jobs'[j].pc # "considered"
              => Cardinality(Undecided') = Cardinality(Undecided) - 1
  <1>1. IsFiniteSet(Undecided)
    BY DEF TypeOK
  <1>2. CASE jobs'[j].pc = "considered" <=> jobs[j].pc = "considered"
    <2>1. Undecided' = Undecided
      BY <1>2 DEF Undecided
    <2> QED
      BY <1>1, <1>2, <2>1
  <1>3. CASE jobs[j].pc # "considered" /\ jobs'[j].pc = "considered"
    <2>1. Undecided' = Undecided \cup {j} /\ j \notin Undecided
      BY <1>3 DEF Undecided
    <2>2. IsFiniteSet(Undecided') /\ Cardinality(Undecided') = Cardinality(Undecided) + 1
      BY <1>1, <2>1, FS_AddElement
    <2> QED
      BY <1>3, <2>2
  <1>4. CASE jobs[j].pc = "considered" /\ jobs'[j].pc # "considered"
    <2>1. Undecided' = Undecided \ {j} /\ j \in Undecided
      BY <1>4 DEF Undecided
    <2>2. IsFiniteSet(Undecided') /\ Cardinality(Undecided') = Cardinality(Undecided) - 1
      BY <1>1, <2>1, FS_RemoveElement
    <2> QED
      BY <1>4, <2>2
  <1> QED
    BY <1>2, <1>3, <1>4

\* The counters are numbers and the attempted orders are finitely many orders.
LEMMA CountersTyped ==
  ASSUME TypeOK, ReadyJobs, [Next]_vars
  PROVE  /\ attempted' \subseteq Orders /\ IsFiniteSet(attempted')
         /\ per_job' \in [considered : Nat, included : Nat]
         /\ metrics' \in [considered : Nat, skipped : Nat, inclusion_failed : Nat, included : Nat]
         /\ IsFiniteSet(Undecided')
  <1>1. /\ attempted \subseteq Orders /\ IsFiniteSet(attempted)
        /\ per_job \in [considered : Nat, included : Nat]
        /\ metrics \in [considered : Nat, skipped : Nat, inclusion_failed : Nat, included : Nat]
        /\ IsFiniteSet(Undecided)
    BY DEF TypeOK
  <1>2. CASE UNCHANGED vars
    BY <1>1, <1>2 DEF vars, Undecided
  <1>3. ASSUME NEW j \in Jobs, Proceed(j) \/ Attempt(j) \/ DeadlineReached(j)
        PROVE  /\ attempted' \subseteq Orders /\ IsFiniteSet(attempted')
               /\ per_job' \in [considered : Nat, included : Nat]
               /\ metrics' \in [considered : Nat, skipped : Nat, inclusion_failed : Nat, included : Nat]
               /\ IsFiniteSet(Undecided')
    <2>1. Acts(j)
      BY <1>3, Acting
    <2>2. \A k \in Jobs \ {j} : jobs'[k] = jobs[k]
      BY <1>3, ActorMoves
    <2>3. IsFiniteSet(Undecided')
      BY <2>2, UndecidedMoves
    <2>4. attempted' \subseteq Orders /\ IsFiniteSet(attempted')
      <3>1. CASE Starts(j)
        BY <3>1, FS_EmptySet DEF Starts
      <3>2. CASE TakesUp(j)
        BY <1>1, <3>2, FS_AddElement DEF TakesUp
      <3>3. CASE UNCHANGED attempted
        BY <1>1, <3>3
      <3> QED
        BY <2>1, <3>1, <3>2, <3>3 DEF Acts, Resets, Counts, LeavesOut, Includes, Quiet
    <2>5. \A n \in Nat : n + 1 \in Nat
      OBVIOUS
    <2>6. per_job' \in [considered : Nat, included : Nat]
      BY <1>1, <2>1, <2>5
        DEF Acts, Starts, Resets, TakesUp, Counts, LeavesOut, Includes, Quiet, PerJobZero
    <2>7. metrics' \in [considered : Nat, skipped : Nat, inclusion_failed : Nat, included : Nat]
      BY <1>1, <2>1, <2>5
        DEF Acts, Starts, Resets, TakesUp, Counts, LeavesOut, Includes, Quiet
    <2> QED
      BY <2>3, <2>4, <2>6, <2>7
  <1> QED
    BY <1>2, <1>3 DEF Next, AllDone

\* The counters go on adding up.
LEMMA CountersStep ==
  ASSUME TypeOK, ReadyJobs, CountersAgree, [Next]_vars
  PROVE  CountersAgree'
  <1>1. PICK c \in Nat, s \in Nat, f \in Nat, i \in Nat, u \in Nat :
          /\ metrics.considered = c /\ metrics.skipped = s
          /\ metrics.inclusion_failed = f /\ metrics.included = i
          /\ Cardinality(Undecided) = u /\ c = s + f + i + u
    <2>1. Cardinality(Undecided) \in Nat
      BY FS_CardinalityType DEF TypeOK
    <2> QED
      BY <2>1 DEF TypeOK, CountersAgree
  <1>2. metrics \in [considered : Nat, skipped : Nat, inclusion_failed : Nat, included : Nat]
    BY DEF TypeOK
  <1>3. CASE UNCHANGED vars
    BY <1>3 DEF vars, CountersAgree, Undecided
  <1>4. ASSUME NEW j \in Jobs, Proceed(j) \/ Attempt(j) \/ DeadlineReached(j)
        PROVE  CountersAgree'
    <2>1. Acts(j)
      BY <1>4, Acting
    <2>2. \A k \in Jobs \ {j} : jobs'[k] = jobs[k]
      BY <1>4, ActorMoves
    <2>3. CASE Starts(j) \/ Resets(j) \/ TakesUp(j) \/ Quiet(j)
      <3>1. UNCHANGED metrics /\ (jobs'[j].pc = "considered" <=> jobs[j].pc = "considered")
        BY <2>3 DEF Starts, Resets, TakesUp, Quiet
      <3>2. Undecided' = Undecided
        BY <2>2, <3>1, UndecidedMoves
      <3> QED
        BY <3>1, <3>2 DEF CountersAgree
    <2>4. CASE Counts(j)
      <3>1. Cardinality(Undecided') = u + 1
        BY <1>1, <2>2, <2>4, UndecidedMoves DEF Counts
      <3>2. /\ metrics'.considered = c + 1 /\ metrics'.skipped = s
            /\ metrics'.inclusion_failed = f /\ metrics'.included = i
        BY <1>1, <1>2, <2>4 DEF Counts
      <3> QED
        BY <1>1, <3>1, <3>2 DEF CountersAgree
    <2>5. CASE LeavesOut(j) \/ Includes(j)
      <3>1. Cardinality(Undecided') = u - 1
        BY <1>1, <2>2, <2>5, UndecidedMoves DEF LeavesOut, Includes
      <3>2. /\ metrics'.considered = c
            /\ \/ metrics'.skipped = s + 1 /\ metrics'.inclusion_failed = f /\ metrics'.included = i
               \/ metrics'.skipped = s /\ metrics'.inclusion_failed = f + 1 /\ metrics'.included = i
               \/ metrics'.skipped = s /\ metrics'.inclusion_failed = f /\ metrics'.included = i + 1
        BY <1>1, <1>2, <2>5 DEF LeavesOut, Includes
      <3> QED
        BY <1>1, <3>1, <3>2 DEF CountersAgree
    <2> QED
      BY <2>1, <2>3, <2>4, <2>5 DEF Acts
  <1> QED
    BY <1>3, <1>4 DEF Next, AllDone

\* A job that no other overlaps with is alone as long as it runs, and starts with no
\* attempted order and an empty payload.
Alone(j) ==
  j \notin overlapped /\ Running(j) =>
    /\ \A k \in Jobs \ {j} : ~Running(k)
    /\ jobs[j].pc = "reset" => attempted = {}

Fresh(j) == jobs[j].pc \in {"waiting", "reset"} => Len(jobs[j].payload) = 1

\* One conjunct of LoneJobsReportThemselves.
Reports(j) ==
  j \notin overlapped /\ Running(j) /\ jobs[j].pc # "reset" =>
    /\ Cardinality(attempted)
         = per_job.considered + IF jobs[j].pc = "attempted" THEN 1 ELSE 0
    /\ per_job.included + (IF jobs[j].pc = "considered" THEN 1 ELSE 0) <= per_job.considered
    /\ Len(jobs[j].payload) <= per_job.included + 1

LoneInv == \A j \in Jobs : Alone(j) /\ Fresh(j) /\ Reports(j)

\* Another job that is not under way can only start, and is then one that overlaps.
LEMMA LoneOther ==
  ASSUME TypeOK, ReadyJobs, NEW j \in Jobs, NEW i \in Jobs \ {j}, Acts(i),
         \A k \in Jobs \ {i} : jobs'[k] = jobs[k],
         Alone(j), Fresh(j), Reports(j)
  PROVE  Alone(j)' /\ Fresh(j)' /\ Reports(j)'
  <1>1. jobs'[j] = jobs[j] /\ (Running(j)' <=> Running(j))
    BY DEF Running
  <1>2. Fresh(j)'
    BY <1>1 DEF Fresh
  <1>3. SUFFICES ASSUME j \notin overlapped', Running(j)
                 PROVE  Alone(j)' /\ Reports(j)'
    BY <1>1, <1>2 DEF Alone, Reports
  <1>4. j \notin overlapped
    BY <1>3 DEF Acts, Starts, Resets, TakesUp, Counts, LeavesOut, Includes, Quiet
  <1>5. ~Running(i)
    BY <1>3, <1>4 DEF Alone
  <1>6. ~Starts(i)
    BY <1>3 DEF Starts
  <1> QED
    BY <1>5, <1>6 DEF Acts, Resets, TakesUp, Counts, LeavesOut, Includes, Quiet, Running

\* A job that is alone, and goes on.
LEMMA LoneSelf ==
  ASSUME TypeOK, ReadyJobs, NEW j \in Jobs, Acts(j), jobs'[j] \in JobStates,
         \A k \in Jobs \ {j} : jobs'[k] = jobs[k],
         Alone(j), Fresh(j), Reports(j)
  PROVE  Alone(j)' /\ Fresh(j)' /\ Reports(j)'
  <1>1. \A k \in Jobs \ {j} : Running(k)' <=> Running(k)
    BY DEF Running
  <1>2. PICK c \in Nat, i \in Nat, n \in Nat, l \in Nat, m \in Nat :
          /\ per_job.considered = c /\ per_job.included = i /\ Cardinality(attempted) = n
          /\ Len(jobs[j].payload) = l /\ Len(jobs'[j].payload) = m
    <2>1. jobs[j].payload \in Seq(Checkpoints) /\ jobs'[j].payload \in Seq(Checkpoints)
      BY DEF TypeOK, JobStates
    <2>2. Cardinality(attempted) \in Nat
      BY FS_CardinalityType DEF TypeOK
    <2> QED
      BY <2>1, <2>2, SMTT(40) DEF TypeOK
  <1>3. per_job \in [considered : Nat, included : Nat] /\ IsFiniteSet(attempted)
    BY DEF TypeOK
  <1>4. CASE Starts(j)
    <2>1. jobs[j].pc = "waiting" /\ jobs'[j].pc = "reset" /\ jobs'[j].payload = jobs[j].payload
      BY <1>4 DEF Starts
    <2>2. Fresh(j)' /\ Reports(j)'
      BY <2>1 DEF Fresh, Reports
    <2>3. j \notin overlapped' => \A k \in Jobs \ {j} : ~Running(k)
      BY <1>4 DEF Starts
    <2>4. attempted' = {}
      BY <1>4 DEF Starts
    <2> QED
      BY <1>1, <2>2, <2>3, <2>4 DEF Alone
  <1>5. CASE ~Starts(j)
    <2>1. overlapped' = overlapped /\ Running(j)
      BY <1>5 DEF Acts, Resets, TakesUp, Counts, LeavesOut, Includes, Quiet, Running
    <2>2. jobs'[j].pc # "waiting" /\ (jobs'[j].pc = "reset" => Quiet(j) /\ jobs[j].pc = "reset"
                                                             /\ jobs'[j].payload = jobs[j].payload)
      BY <1>5 DEF Acts, Resets, TakesUp, Counts, LeavesOut, Includes, Quiet, Running
    <2>3. Alone(j)'
      BY <1>1, <2>1, <2>2 DEF Alone, Quiet
    <2>4. Fresh(j)'
      BY <2>2 DEF Fresh
    <2>5. SUFFICES ASSUME j \notin overlapped, jobs'[j].pc # "reset"
                   PROVE  Reports(j)'
      BY <2>1, <2>3, <2>4 DEF Reports
    <2>6. CASE Resets(j)
      <3>1. attempted = {} /\ l = 1
        BY <1>2, <2>1, <2>5, <2>6 DEF Alone, Fresh, Resets
      <3>2. /\ per_job'.considered = 0 /\ per_job'.included = 0 /\ attempted' = {}
            /\ jobs'[j].pc = "between" /\ Len(jobs'[j].payload) = 1
        BY <1>2, <2>6, <3>1 DEF Resets, PerJobZero
      <3>3. Cardinality(attempted') = 0
        BY <3>2, FS_EmptySet
      <3> QED
        BY <3>2, <3>3 DEF Reports
    <2>7. CASE ~Resets(j)
      <3>1. jobs[j].pc # "reset"
        BY <1>5, <2>5, <2>7 DEF Acts, TakesUp, Counts, LeavesOut, Includes, Quiet
      <3>2. /\ n = c + IF jobs[j].pc = "attempted" THEN 1 ELSE 0
            /\ i + (IF jobs[j].pc = "considered" THEN 1 ELSE 0) <= c
            /\ l <= i + 1
        BY <1>2, <2>1, <2>5, <3>1 DEF Reports
      <3>3. CASE TakesUp(j)
        <4>1. Cardinality(attempted') = n + 1
          BY <1>2, <1>3, <3>3, FS_AddElement DEF TakesUp
        <4>2. /\ jobs[j].pc = "running" /\ jobs'[j].pc = "attempted" /\ m = l
              /\ per_job'.considered = c /\ per_job'.included = i
          BY <1>2, <3>3 DEF TakesUp
        <4>3. n = c /\ i <= c /\ l <= i + 1
          BY <3>2, <4>2
        <4> QED
          BY <1>2, <4>1, <4>2, <4>3 DEF Reports
      <3>4. CASE Counts(j)
        <4>1. /\ jobs[j].pc = "attempted" /\ jobs'[j].pc = "considered" /\ m = l
              /\ per_job'.considered = c + 1 /\ per_job'.included = i /\ attempted' = attempted
          BY <1>2, <1>3, <3>4 DEF Counts
        <4>2. n = c + 1 /\ i <= c /\ l <= i + 1
          BY <3>2, <4>1
        <4> QED
          BY <1>2, <4>1, <4>2 DEF Reports
      <3>5. CASE LeavesOut(j)
        <4>1. /\ jobs[j].pc = "considered" /\ jobs'[j].pc = "running" /\ m = l
              /\ per_job' = per_job /\ attempted' = attempted
          BY <1>2, <3>5 DEF LeavesOut
        <4>2. n = c /\ i + 1 <= c /\ l <= i + 1
          BY <3>2, <4>1
        <4> QED
          BY <1>2, <4>1, <4>2 DEF Reports
      <3>6. CASE Includes(j)
        <4>1. /\ jobs[j].pc = "considered" /\ jobs'[j].pc = "running" /\ m = l + 1
              /\ per_job'.considered = c /\ per_job'.included = i + 1 /\ attempted' = attempted
          BY <1>2, <1>3, <3>6 DEF Includes
        <4>2. n = c /\ i + 1 <= c /\ l <= i + 1
          BY <3>2, <4>1
        <4> QED
          BY <1>2, <4>1, <4>2 DEF Reports
      <3>7. CASE Quiet(j)
        <4>1. /\ per_job' = per_job /\ attempted' = attempted /\ m <= l
              /\ jobs'[j].pc = "attempted" <=> jobs[j].pc = "attempted"
              /\ jobs'[j].pc = "considered" <=> jobs[j].pc = "considered"
          BY <1>2, <3>7 DEF Quiet
        <4> QED
          BY <1>2, <3>2, <4>1 DEF Reports
      <3> QED
        BY <1>5, <2>7, <3>3, <3>4, <3>5, <3>6, <3>7 DEF Acts
    <2> QED
      BY <2>6, <2>7
  <1> QED
    BY <1>4, <1>5

\* Jobs that are alone go on reporting what they did.
LEMMA LoneStep ==
  ASSUME TypeOK, ReadyJobs, LoneInv, [Next]_vars
  PROVE  LoneInv'
  <1>1. CASE UNCHANGED vars
    BY <1>1 DEF vars, LoneInv, Alone, Fresh, Reports, Running
  <1>2. ASSUME NEW i \in Jobs, Proceed(i) \/ Attempt(i) \/ DeadlineReached(i)
        PROVE  LoneInv'
    <2>1. Acts(i)
      BY <1>2, Acting
    <2>2. jobs' \in [Jobs -> JobStates] /\ \A k \in Jobs \ {i} : jobs'[k] = jobs[k]
      BY <1>2, ActorMoves
    <2>3. \A j \in Jobs : Alone(j) /\ Fresh(j) /\ Reports(j)
      BY DEF LoneInv
    <2>4. ASSUME NEW j \in Jobs
          PROVE  Alone(j)' /\ Fresh(j)' /\ Reports(j)'
      <3>1. CASE j = i
        BY <2>1, <2>2, <2>3, <3>1, LoneSelf
      <3>2. CASE j # i
        BY <2>1, <2>2, <2>3, <3>2, LoneOther
      <3> QED
        BY <3>1, <3>2
    <2> QED
      BY <2>4 DEF LoneInv
  <1> QED
    BY <1>1, <1>2 DEF Next, AllDone


(***************************************************************************)
(* The payload and the run of a job                                        *)
(***************************************************************************)

\* No transaction is twice in the payload.
Distinct(payload) ==
  \A i, k \in DOMAIN payload :
    \A p \in DOMAIN payload[i].txs, q \in DOMAIN payload[k].txs :
      payload[i].txs[p] = payload[k].txs[q] => i = k /\ p = q

\* While the step runs, its set of the transactions that are there lacks none of them.
Knows(job) == InRun(job) => transactions(job.payload) \subseteq job.run.existing_txs

\* What the run has added is within the limits.
Bounded(run) ==
  /\ within(run.txs, max_transactions)
  /\ within(run.orders, config.step.max_new_orders)
  /\ within(run.bundles, config.step.max_new_bundles)

\* A limit is a number or absent, that of the transactions included, which is the smaller of two.
LEMMA LimitsTyped ==
  ASSUME config \in Configs
  PROVE  /\ max_transactions \in Optional
         /\ config.step.max_new_orders \in Optional
         /\ config.step.max_new_bundles \in Optional
  BY AppendConstants DEF max_transactions, MinPresent

\* A run that has added nothing is within every limit.
LEMMA RunBegins ==
  ASSUME config \in Configs, NEW run, run.txs = 0, run.orders = 0, run.bundles = 0
  PROVE  Bounded(run)
  BY LimitsTyped DEF Bounded, within, Optional, None

\* A part of a payload has no transaction twice if the payload has none.
LEMMA LosesKeepsDistinct ==
  ASSUME NEW payload \in Seq(Checkpoints), Distinct(payload), NEW f \in Selections(payload),
         NEW left, left = [i \in DOMAIN f |-> payload[f[i]]]
  PROVE  Distinct(left)
  <1>1. /\ DOMAIN left = DOMAIN f
        /\ \A i \in DOMAIN left : f[i] \in DOMAIN payload /\ left[i] = payload[f[i]]
        /\ \A i, k \in DOMAIN f : f[i] = f[k] => i = k
    BY SelectionFacts, Zenon
  <1>2. SUFFICES ASSUME NEW i \in DOMAIN left, NEW k \in DOMAIN left,
                        NEW p \in DOMAIN left[i].txs, NEW q \in DOMAIN left[k].txs,
                        left[i].txs[p] = left[k].txs[q]
                 PROVE  i = k /\ p = q
    BY DEF Distinct
  <1>3. f[i] = f[k] /\ p = q
    BY <1>1, <1>2 DEF Distinct
  <1> QED
    BY <1>1, <1>3

\* A checkpoint with transactions of its own, each once, can be appended.
LEMMA GainsKeepsDistinct ==
  ASSUME NEW payload \in Seq(Checkpoints), Distinct(payload), NEW candidate \in Checkpoints,
         ToSet(candidate.txs) \cap transactions(payload) = {},
         \A p, q \in DOMAIN candidate.txs : candidate.txs[p] = candidate.txs[q] => p = q,
         NEW longer, longer = Append(payload, candidate)
  PROVE  /\ Distinct(longer)
         /\ transactions(longer) = transactions(payload) \cup ToSet(candidate.txs)
  <1> DEFINE n == Len(payload) + 1
  <1>1. /\ DOMAIN longer = DOMAIN payload \cup {n} /\ n \notin DOMAIN payload
        /\ longer[n] = candidate
        /\ \A i \in DOMAIN payload : longer[i] = payload[i]
    OBVIOUS
  <1> HIDE DEF n
  <1>2. \A i \in DOMAIN payload : \A p \in DOMAIN payload[i].txs :
          payload[i].txs[p] \in transactions(payload)
    BY DEF transactions, ToSet
  <1>3. \A q \in DOMAIN candidate.txs : candidate.txs[q] \in ToSet(candidate.txs)
    BY DEF ToSet
  <1>4. ASSUME NEW i \in DOMAIN longer, NEW k \in DOMAIN longer,
               NEW p \in DOMAIN longer[i].txs, NEW q \in DOMAIN longer[k].txs,
               longer[i].txs[p] = longer[k].txs[q]
        PROVE  i = k /\ p = q
    <2>1. CASE i \in DOMAIN payload /\ k \in DOMAIN payload
      BY <1>1, <1>4, <2>1 DEF Distinct
    <2>2. CASE i = n /\ k = n
      BY <1>1, <1>4, <2>2
    <2>3. CASE i \in DOMAIN payload /\ k = n
      BY <1>1, <1>2, <1>3, <1>4, <2>3
    <2>4. CASE i = n /\ k \in DOMAIN payload
      BY <1>1, <1>2, <1>3, <1>4, <2>4
    <2> QED
      BY <1>1, <2>1, <2>2, <2>3, <2>4
  <1>5. transactions(longer) = transactions(payload) \cup ToSet(candidate.txs)
    BY <1>1 DEF transactions
  <1> QED
    BY <1>4, <1>5 DEF Distinct

\* A run that is not at a limit can include an order that it does not skip.
LEMMA GainsKeepsBounded ==
  ASSUME config \in Configs, NEW job \in JobStates, HasRoom(job), NEW o \in Orders,
         ~should_skip(job, OrderOf[o]), NEW candidate \in Applied(o)
  PROVE  Bounded(RunWith(job.run, candidate))
  <1>1. job.run.txs \in Nat /\ job.run.orders \in Nat /\ job.run.bundles \in Nat
    BY DEF JobStates, Runs
  <1>2. /\ candidate.txs \in Seq(Txs) /\ Len(candidate.txs) \in Nat
        /\ Len(candidate.txs) <= Len(OrderOf[o].txs)
    BY AppliedFacts DEF Checkpoints
  <1>3. Len(OrderOf[o].txs) \in Nat
    BY AppendConstants
  <1>4. /\ max_transactions # None => Len(OrderOf[o].txs) + job.run.txs <= max_transactions
    BY <1>1, <1>3, LimitsTyped DEF should_skip, Optional, None
  <1>5. /\ config.step.max_new_orders # None => job.run.orders < config.step.max_new_orders
        /\ config.step.max_new_bundles # None => job.run.bundles < config.step.max_new_bundles
    BY <1>1, LimitsTyped DEF HasRoom, at_limit, Optional, None
  <1>6. PICK m \in Optional, l \in Optional, b \in Optional :
          /\ m = max_transactions
          /\ l = config.step.max_new_orders /\ b = config.step.max_new_bundles
    BY LimitsTyped
  <1>7. PICK run : run = RunWith(job.run, candidate)
    OBVIOUS
  <1>8. /\ run.txs = job.run.txs + Len(candidate.txs)
        /\ run.orders = job.run.orders + 1
        /\ run.bundles = job.run.bundles \/ run.bundles = job.run.bundles + 1
    BY <1>1, <1>7 DEF RunWith
  <1>9. within(run.txs, m)
    BY <1>1, <1>2, <1>3, <1>4, <1>6, <1>8, SMTT(30) DEF within, Optional, None
  <1>10. within(run.orders, l) /\ within(run.bundles, b)
    BY <1>1, <1>5, <1>6, <1>8 DEF within, Optional, None
  <1> QED
    BY <1>6, <1>7, <1>9, <1>10 DEF Bounded

(***************************************************************************)
(* Sums over sequences                                                     *)
(***************************************************************************)

\* Every non-empty set of naturals has a least element.
LEMMA LeastNat ==
  ASSUME NEW T \in SUBSET Nat, T # {}
  PROVE  \E x \in T : \A y \in T : x <= y
<1>1. IsWellFoundedOn(OpToRel(<, Nat), Nat)
  BY NatLessThanWellFounded
<1>2. PICK x \in T : \A y \in T : ~(<<y, x>> \in OpToRel(<, Nat))
  BY <1>1, WFMin
<1>3. \A y \in T : ~(y < x)
  BY <1>2 DEF OpToRel
<1> QED
  BY <1>3

\* Induction, for a set of naturals.
LEMMA NatSetInduction ==
  ASSUME NEW T \in SUBSET Nat, 0 \in T, \A n \in T : n + 1 \in T
  PROVE  T = Nat
<1> SUFFICES ASSUME T # Nat PROVE FALSE
  OBVIOUS
<1> DEFINE Rest == Nat \ T
<1>1. Rest \in SUBSET Nat /\ Rest # {}
  OBVIOUS
<1> HIDE DEF Rest
<1>2. PICK x \in Rest : \A y \in Rest : x <= y
  BY <1>1, LeastNat
<1>3. x \in Nat /\ x # 0 /\ x \notin T
  BY <1>2 DEF Rest
<1>4. x - 1 \in Nat /\ ~(x <= x - 1) /\ (x - 1) + 1 = x
  BY <1>3
<1>5. x - 1 \in T
  BY <1>2, <1>4 DEF Rest
<1> QED
  BY <1>3, <1>4, <1>5

\* Non-empty sets of naturals that are bounded have a greatest element.
LEMMA MaxOf ==
  ASSUME NEW m \in Nat, NEW s \in SUBSET (0..m), s # {}
  PROVE  Max(s) \in s /\ \A y \in s : y <= Max(s)
<1> DEFINE T == {m - x : x \in s}
<1>1. T \in SUBSET Nat /\ T # {}
  OBVIOUS
<1> HIDE DEF T
<1>2. PICK z \in T : \A y \in T : z <= y
  BY <1>1, LeastNat
<1>3. PICK x \in s : z = m - x
  BY <1>2 DEF T
<1>4. \A y \in s : x >= y
  <2> TAKE y \in s
  <2>1. m - y \in T
    BY DEF T
  <2> QED
    BY <1>2, <1>3, <2>1
<1>5. Max(s) \in s /\ \A y \in s : Max(s) >= y
  BY <1>4 DEF Max
<1> QED
  BY <1>5

\* The equation that the function inside a sum satisfies.
Folds(vals, m, it) ==
  it = [s \in SUBSET (1..m) |-> IF s = {} THEN 0 ELSE it[s \ {Max(s)}] + vals[Max(s)]]

\* A function that satisfies it exists ...
LEMMA FoldExists ==
  ASSUME NEW vals, NEW n \in Nat
  PROVE  \E it : Folds(vals, n, it)
<1> DEFINE T == {m \in Nat : \E it : Folds(vals, m, it)}
<1>1. 0 \in T
  <2> DEFINE it0 == [s \in SUBSET (1..0) |-> 0]
  <2>1. \A s \in SUBSET (1..0) : s = {}
    OBVIOUS
  <2>2. Folds(vals, 0, it0)
    BY <2>1 DEF Folds
  <2> QED
    BY <2>2
<1>2. ASSUME NEW m \in T PROVE m + 1 \in T
  <2>1. m \in Nat /\ m + 1 \in Nat
    OBVIOUS
  <2>2. PICK it : Folds(vals, m, it)
    OBVIOUS
  <2> DEFINE new == [s \in SUBSET (1..(m + 1)) |->
                       IF s = {} THEN 0 ELSE it[s \ {Max(s)}] + vals[Max(s)]]
  <2>3. \A s \in SUBSET (1..m) : s \in SUBSET (1..(m + 1)) /\ new[s] = it[s]
    <3>1. \A x \in 1..m : x \in 1..(m + 1)
      BY <2>1
    <3>2. ASSUME NEW s \in SUBSET (1..m) PROVE s \in SUBSET (1..(m + 1)) /\ new[s] = it[s]
      <4>1. s \in SUBSET (1..(m + 1))
        BY <3>1
      <4>2. it[s] = IF s = {} THEN 0 ELSE it[s \ {Max(s)}] + vals[Max(s)]
        BY <2>2 DEF Folds
      <4> QED
        BY <4>1, <4>2
    <3> QED
      BY <3>2
  <2>4. ASSUME NEW s \in SUBSET (1..(m + 1)), s # {} PROVE s \ {Max(s)} \in SUBSET (1..m)
    <3>1. s \in SUBSET (0..(m + 1))
      BY <2>1
    <3>2. Max(s) \in s /\ \A y \in s : y <= Max(s)
      BY <2>1, <3>1, <2>4, MaxOf
    <3>3. \A y \in s : y \in 1..(m + 1) /\ y <= Max(s) /\ Max(s) \in 1..(m + 1)
      BY <3>2
    <3>4. \A y \in s : y # Max(s) => y \in 1..m
      BY <2>1, <3>3
    <3> QED
      BY <3>4
  <2>5. \A s \in SUBSET (1..(m + 1)) : s # {} => new[s \ {Max(s)}] = it[s \ {Max(s)}]
    BY <2>3, <2>4
  <2>6. \A s \in SUBSET (1..(m + 1)) :
          new[s] = IF s = {} THEN 0 ELSE it[s \ {Max(s)}] + vals[Max(s)]
    OBVIOUS
  <2>7. \A s \in SUBSET (1..(m + 1)) :
          new[s] = IF s = {} THEN 0 ELSE new[s \ {Max(s)}] + vals[Max(s)]
    BY <2>5, <2>6
  <2>8. new = [s \in SUBSET (1..(m + 1)) |-> new[s]]
    OBVIOUS
  <2> HIDE DEF new
  <2>9. Folds(vals, m + 1, new)
    BY <2>7, <2>8 DEF Folds
  <2> QED
    BY <2>1, <2>9
<1>3. T \in SUBSET Nat
  OBVIOUS
<1> HIDE DEF T
<1>4. T = Nat
  BY <1>1, <1>2, <1>3, NatSetInduction
<1> QED
  BY <1>4 DEF T

\* The sums up to each of the values.
Adds(vals, n, g) == g[0] = 0 /\ \A k \in 1..n : g[k] = g[k - 1] + vals[k]

IsSum(vals, n, t) == \E g : Adds(vals, n, g) /\ g[n] = t

\* ... and gives the values between one element of the sequence and the next.
LEMMA FoldTrace ==
  ASSUME NEW vals, NEW n \in Nat, NEW it,
         Folds(vals, n, it)
  PROVE  \E g : Adds(vals, n, g) /\ g[n] = it[1..n]
<1> DEFINE g == [k \in 0..n |-> it[1..k]]
<1>1. g[0] = 0
  <2>1. 1..0 = {} /\ {} \in SUBSET (1..n)
    OBVIOUS
  <2> QED
    BY <2>1 DEF Folds
<1>2. ASSUME NEW k \in 1..n PROVE g[k] = g[k - 1] + vals[k]
  <2>1. 1..k \in SUBSET (1..n) /\ 1..k # {} /\ 1..k \in SUBSET (0..k) /\ k \in Nat /\ k - 1 \in 0..n /\ k \in 0..n
    OBVIOUS
  <2>2. Max(1..k) \in 1..k /\ \A y \in 1..k : y <= Max(1..k)
    BY <2>1, MaxOf
  <2>3. Max(1..k) = k
    BY <2>1, <2>2
  <2>4. (1..k) \ {k} = 1..(k - 1)
    BY <2>1
  <2>5. it[1..k] = it[(1..k) \ {Max(1..k)}] + vals[Max(1..k)]
    BY <2>1 DEF Folds
  <2> QED
    BY <2>1, <2>3, <2>4, <2>5
<1>3. g[n] = it[1..n]
  OBVIOUS
<1> QED
  BY <1>1, <1>2, <1>3 DEF Adds

\* The position that a sum takes last.
LEMMA MaxWithin ==
  ASSUME NEW n \in Nat, NEW s \in SUBSET (1..n), s # {}
  PROVE  Max(s) \in 1..n
<1>1. s \in SUBSET (0..n)
  OBVIOUS
<1> QED
  BY <1>1, MaxOf

GasOf(sq) == total(LAMBDA tx : tx.gas, sq)
BlobsOf(sq) == total(LAMBDA tx : tx.blob, sq)
PresentBlobsOf(sq) == total(LAMBDA tx : IF tx.blob = None THEN 0 ELSE tx.blob, sq)

\* The gas of transactions.
LEMMA GasSum ==
  ASSUME NEW sq, NEW n \in Nat, DOMAIN sq = 1..n
  PROVE  IsSum([i \in 1..n |-> sq[i].gas], n, GasOf(sq))
<1> DEFINE vals == [i \in 1..n |-> sq[i].gas]
           Eq(it) == it = [s \in SUBSET (1..n) |-> IF s = {} THEN 0
                             ELSE it[s \ {Max(s)}] + sq[Max(s)].gas]
           itself == CHOOSE it : Eq(it)
<1>1. \A s \in SUBSET (1..n) : s # {} => vals[Max(s)] = sq[Max(s)].gas
  BY MaxWithin
<1> HIDE DEF vals
<1>2. \A it : Folds(vals, n, it) <=> Eq(it)
  BY <1>1 DEF Folds
<1>3. \E it : Eq(it)
  BY <1>2, FoldExists
<1>4. Eq(itself)
  BY <1>3
<1>5. GasOf(sq) = itself[1..n]
  BY DEF GasOf, total, FoldLeft, MapThenFoldSet
<1> HIDE DEF itself
<1>6. Folds(vals, n, itself)
  BY <1>2, <1>4
<1>7. PICK g : Adds(vals, n, g) /\ g[n] = itself[1..n]
  BY <1>6, FoldTrace
<1> QED
  BY <1>5, <1>7 DEF IsSum, vals

\* The blob gas of transactions that all have blobs.
LEMMA BlobSum ==
  ASSUME NEW sq, NEW n \in Nat, DOMAIN sq = 1..n
  PROVE  IsSum([i \in 1..n |-> sq[i].blob], n, BlobsOf(sq))
<1> DEFINE vals == [i \in 1..n |-> sq[i].blob]
           Eq(it) == it = [s \in SUBSET (1..n) |-> IF s = {} THEN 0
                             ELSE it[s \ {Max(s)}] + sq[Max(s)].blob]
           itself == CHOOSE it : Eq(it)
<1>1. \A s \in SUBSET (1..n) : s # {} => vals[Max(s)] = sq[Max(s)].blob
  BY MaxWithin
<1> HIDE DEF vals
<1>2. \A it : Folds(vals, n, it) <=> Eq(it)
  BY <1>1 DEF Folds
<1>3. \E it : Eq(it)
  BY <1>2, FoldExists
<1>4. Eq(itself)
  BY <1>3
<1>5. BlobsOf(sq) = itself[1..n]
  BY DEF BlobsOf, total, FoldLeft, MapThenFoldSet
<1> HIDE DEF itself
<1>6. Folds(vals, n, itself)
  BY <1>2, <1>4
<1>7. PICK g : Adds(vals, n, g) /\ g[n] = itself[1..n]
  BY <1>6, FoldTrace
<1> QED
  BY <1>5, <1>7 DEF IsSum, vals

\* The blob gas of those transactions that have blobs.
LEMMA PresentBlobSum ==
  ASSUME NEW sq, NEW n \in Nat, DOMAIN sq = 1..n
  PROVE  IsSum([i \in 1..n |-> IF sq[i].blob = None THEN 0 ELSE sq[i].blob], n, PresentBlobsOf(sq))
<1> DEFINE vals == [i \in 1..n |-> IF sq[i].blob = None THEN 0 ELSE sq[i].blob]
           Eq(it) == it = [s \in SUBSET (1..n) |-> IF s = {} THEN 0
                             ELSE it[s \ {Max(s)}] + (IF sq[Max(s)].blob = None THEN 0 ELSE sq[Max(s)].blob)]
           itself == CHOOSE it : Eq(it)
<1>1. \A s \in SUBSET (1..n) : s # {} => vals[Max(s)] = (IF sq[Max(s)].blob = None THEN 0 ELSE sq[Max(s)].blob)
  BY MaxWithin
<1> HIDE DEF vals
<1>2. \A it : Folds(vals, n, it) <=> Eq(it)
  BY <1>1 DEF Folds
<1>3. \E it : Eq(it)
  BY <1>2, FoldExists
<1>4. Eq(itself)
  BY <1>3
<1>5. PresentBlobsOf(sq) = itself[1..n]
  BY DEF PresentBlobsOf, total, FoldLeft, MapThenFoldSet
<1> HIDE DEF itself
<1>6. Folds(vals, n, itself)
  BY <1>2, <1>4
<1>7. PICK g : Adds(vals, n, g) /\ g[n] = itself[1..n]
  BY <1>6, FoldTrace
<1> QED
  BY <1>5, <1>7 DEF IsSum, vals

\* The gas of a payload.
LEMMA PayloadGasSum ==
  ASSUME NEW sq, NEW n \in Nat, DOMAIN sq = 1..n
  PROVE  IsSum([i \in 1..n |-> gas_used(sq[i])], n, cumulative_gas_used(sq))
<1> DEFINE vals == [i \in 1..n |-> gas_used(sq[i])]
           Eq(it) == it = [s \in SUBSET (1..n) |-> IF s = {} THEN 0
                             ELSE it[s \ {Max(s)}] + gas_used(sq[Max(s)])]
           itself == CHOOSE it : Eq(it)
<1>1. \A s \in SUBSET (1..n) : s # {} => vals[Max(s)] = gas_used(sq[Max(s)])
  BY MaxWithin
<1> HIDE DEF vals
<1>2. \A it : Folds(vals, n, it) <=> Eq(it)
  BY <1>1 DEF Folds
<1>3. \E it : Eq(it)
  BY <1>2, FoldExists
<1>4. Eq(itself)
  BY <1>3
<1>5. cumulative_gas_used(sq) = itself[1..n]
  BY DEF cumulative_gas_used, total, FoldLeft, MapThenFoldSet
<1> HIDE DEF itself
<1>6. Folds(vals, n, itself)
  BY <1>2, <1>4
<1>7. PICK g : Adds(vals, n, g) /\ g[n] = itself[1..n]
  BY <1>6, FoldTrace
<1> QED
  BY <1>5, <1>7 DEF IsSum, vals

\* The blob gas of a payload, as the span of it counts.
LEMMA PayloadBlobSum ==
  ASSUME NEW sq, NEW n \in Nat, DOMAIN sq = 1..n
  PROVE  IsSum([i \in 1..n |-> IF blob_gas_used(sq[i]) = None THEN 0 ELSE blob_gas_used(sq[i])], n, cumulative_blob_gas_used(sq))
<1> DEFINE vals == [i \in 1..n |-> IF blob_gas_used(sq[i]) = None THEN 0 ELSE blob_gas_used(sq[i])]
           Eq(it) == it = [s \in SUBSET (1..n) |-> IF s = {} THEN 0
                             ELSE it[s \ {Max(s)}] + (IF blob_gas_used(sq[Max(s)]) = None THEN 0 ELSE blob_gas_used(sq[Max(s)]))]
           itself == CHOOSE it : Eq(it)
<1>1. \A s \in SUBSET (1..n) : s # {} => vals[Max(s)] = (IF blob_gas_used(sq[Max(s)]) = None THEN 0 ELSE blob_gas_used(sq[Max(s)]))
  BY MaxWithin
<1> HIDE DEF vals
<1>2. \A it : Folds(vals, n, it) <=> Eq(it)
  BY <1>1 DEF Folds
<1>3. \E it : Eq(it)
  BY <1>2, FoldExists
<1>4. Eq(itself)
  BY <1>3
<1>5. cumulative_blob_gas_used(sq) = itself[1..n]
  BY DEF cumulative_blob_gas_used, total, FoldLeft, MapThenFoldSet
<1> HIDE DEF itself
<1>6. Folds(vals, n, itself)
  BY <1>2, <1>4
<1>7. PICK g : Adds(vals, n, g) /\ g[n] = itself[1..n]
  BY <1>6, FoldTrace
<1> QED
  BY <1>5, <1>7 DEF IsSum, vals

\* The blob gas of all transactions of a payload.
LEMMA AllBlobSum ==
  ASSUME NEW sq, NEW n \in Nat, DOMAIN sq = 1..n
  PROVE  IsSum([i \in 1..n |-> order_blob_gas(sq[i])], n, blobs(sq))
<1> DEFINE vals == [i \in 1..n |-> order_blob_gas(sq[i])]
           Eq(it) == it = [s \in SUBSET (1..n) |-> IF s = {} THEN 0
                             ELSE it[s \ {Max(s)}] + order_blob_gas(sq[Max(s)])]
           itself == CHOOSE it : Eq(it)
<1>1. \A s \in SUBSET (1..n) : s # {} => vals[Max(s)] = order_blob_gas(sq[Max(s)])
  BY MaxWithin
<1> HIDE DEF vals
<1>2. \A it : Folds(vals, n, it) <=> Eq(it)
  BY <1>1 DEF Folds
<1>3. \E it : Eq(it)
  BY <1>2, FoldExists
<1>4. Eq(itself)
  BY <1>3
<1>5. blobs(sq) = itself[1..n]
  BY DEF blobs, total, FoldLeft, MapThenFoldSet
<1> HIDE DEF itself
<1>6. Folds(vals, n, itself)
  BY <1>2, <1>4
<1>7. PICK g : Adds(vals, n, g) /\ g[n] = itself[1..n]
  BY <1>6, FoldTrace
<1> QED
  BY <1>5, <1>7 DEF IsSum, vals

\* Sums of naturals are naturals, and grow.
LEMMA SumsGrow ==
  ASSUME NEW w, NEW n \in Nat, NEW g, Adds(w, n, g), \A k \in 1..n : w[k] \in Nat
  PROVE  \A k \in 0..n : g[k] \in Nat /\ \A j \in 0..k : g[j] <= g[k]
<1> DEFINE T == {k \in Nat : k <= n => g[k] \in Nat /\ \A j \in 0..k : g[j] \in Nat /\ g[j] <= g[k]}
<1>1. 0 \in T
  BY DEF Adds
<1>2. ASSUME NEW k \in T PROVE k + 1 \in T
  <2> SUFFICES ASSUME k + 1 <= n
               PROVE  g[k + 1] \in Nat /\ \A j \in 0..(k + 1) : g[j] \in Nat /\ g[j] <= g[k + 1]
    OBVIOUS
  <2>1. k \in Nat /\ k + 1 \in 1..n /\ (k + 1) - 1 = k /\ k <= n
    OBVIOUS
  <2>2. g[k] \in Nat /\ \A j \in 0..k : g[j] \in Nat /\ g[j] <= g[k]
    BY <2>1
  <2>3. g[k + 1] = g[k] + w[k + 1] /\ w[k + 1] \in Nat
    BY <2>1 DEF Adds
  <2>4. g[k + 1] \in Nat /\ g[k] <= g[k + 1]
    BY <2>2, <2>3
  <2>5. \A j \in 0..(k + 1) : j \in 0..k \/ j = k + 1
    BY <2>1
  <2> QED
    BY <2>2, <2>4, <2>5
<1>3. T \in SUBSET Nat
  OBVIOUS
<1>4. T = Nat
  <2> HIDE DEF T
  <2> QED
    BY <1>1, <1>2, <1>3, NatSetInduction
<1> SUFFICES ASSUME NEW k \in 0..n PROVE g[k] \in Nat /\ \A j \in 0..k : g[j] <= g[k]
  OBVIOUS
<1>5. k \in T
  <2> HIDE DEF T
  <2> QED
    BY <1>4
<1> QED
  BY <1>5

\* The type of a sum.
LEMMA SumType ==
  ASSUME NEW w, NEW n \in Nat, NEW t, IsSum(w, n, t), \A k \in 1..n : w[k] \in Nat
  PROVE  t \in Nat
<1>1. PICK g : Adds(w, n, g) /\ g[n] = t
  BY DEF IsSum
<1> QED
  BY <1>1, SumsGrow

Ascends(f, m, n) == f \in [1..m -> 1..n] /\ \A i, k \in 1..m : i < k => f[i] < f[k]

\* Some of the values, or smaller ones in their places, have no larger sum.
LEMMA SumOfPart ==
  ASSUME NEW v, NEW m \in Nat, NEW t, IsSum(v, m, t), \A i \in 1..m : v[i] \in Nat,
         NEW w, NEW n \in Nat, NEW u, IsSum(w, n, u), \A k \in 1..n : w[k] \in Nat,
         NEW f, Ascends(f, m, n), \A i \in 1..m : v[i] <= w[f[i]]
  PROVE  t <= u
<1>1. PICK g : Adds(v, m, g) /\ g[m] = t
  BY DEF IsSum
<1>2. PICK h : Adds(w, n, h) /\ h[n] = u
  BY DEF IsSum
<1>3. \A i \in 0..m : g[i] \in Nat
  BY <1>1, SumsGrow
<1>4. \A k \in 0..n : h[k] \in Nat /\ \A j \in 0..k : h[j] <= h[k]
  BY <1>2, SumsGrow
<1>5. \A i \in 1..m : f[i] \in 1..n
  BY DEF Ascends
<1> DEFINE at(k) == IF k = 0 THEN 0 ELSE f[k]
           T == {k \in Nat : k <= m => g[k] <= h[at(k)]}
<1>6. 0 \in T
  BY <1>1, <1>2 DEF Adds
<1>7. ASSUME NEW k \in T PROVE k + 1 \in T
  <2> SUFFICES ASSUME k + 1 <= m PROVE g[k + 1] <= h[f[k + 1]]
    OBVIOUS
  <2>1. k \in Nat /\ k + 1 \in 1..m /\ (k + 1) - 1 = k /\ k <= m /\ k \in 0..m
    OBVIOUS
  <2>2. PICK p \in 1..n : p = f[k + 1]
    BY <1>5, <2>1
  <2>3. PICK a \in 0..n : a = at(k) /\ a <= p - 1
    <3>1. CASE k = 0
      BY <2>2, <3>1
    <3>2. CASE k # 0
      <4>1. k \in 1..m /\ k < k + 1
        BY <2>1, <3>2
      <4>2. f[k] < f[k + 1] /\ f[k] \in 1..n
        BY <1>5, <2>1, <4>1 DEF Ascends
      <4>3. f[k] \in 0..n /\ f[k] <= p - 1
        BY <2>2, <4>2
      <4> QED
        BY <3>2, <4>3
    <3> QED
      BY <3>1, <3>2
  <2>4. g[k] <= h[a]
    BY <2>1, <2>3
  <2>5. p - 1 \in 0..n /\ a \in 0..(p - 1)
    BY <2>3
  <2>6. h[a] <= h[p - 1] /\ h[a] \in Nat /\ h[p - 1] \in Nat
    BY <1>4, <2>5
  <2>7. h[p] = h[p - 1] + w[p] /\ w[p] \in Nat
    BY <1>2 DEF Adds
  <2>8. g[k + 1] = g[k] + v[k + 1] /\ v[k + 1] \in Nat /\ g[k] \in Nat
    BY <1>1, <1>3, <2>1 DEF Adds
  <2>9. v[k + 1] <= w[p]
    BY <2>1, <2>2
  <2>10. g[k + 1] <= h[p]
    <3> HIDE DEF T, at
    <3> QED
      BY <2>4, <2>6, <2>7, <2>8, <2>9
  <2> QED
    BY <2>2, <2>10
<1>8. T \in SUBSET Nat
  OBVIOUS
<1>9. T = Nat
  <2> HIDE DEF T
  <2> QED
    BY <1>6, <1>7, <1>8, NatSetInduction
<1>10. m \in T
  <2> HIDE DEF T
  <2> QED
    BY <1>9
<1>11. PICK a \in 0..n : a = at(m)
  BY <1>5
<1>12. g[m] <= h[a]
  BY <1>10, <1>11
<1>13. h[a] <= h[n] /\ h[a] \in Nat /\ h[n] \in Nat /\ g[m] \in Nat
  BY <1>3, <1>4
<1> QED
  BY <1>1, <1>2, <1>12, <1>13

\* One more value is added.
LEMMA SumOfMore ==
  ASSUME NEW w, NEW n \in Nat, NEW t, IsSum(w, n, t), \A k \in 1..n : w[k] \in Nat,
         NEW v, NEW u, IsSum(v, n + 1, u), \A k \in 1..(n + 1) : v[k] \in Nat,
         \A k \in 1..n : v[k] = w[k]
  PROVE  u = t + v[n + 1]
<1>1. PICK h : Adds(v, n + 1, h) /\ h[n + 1] = u
  BY DEF IsSum
<1>2. h[n + 1] = h[n] + v[n + 1]
  <2>1. n + 1 \in 1..(n + 1) /\ (n + 1) - 1 = n
    OBVIOUS
  <2> QED
    BY <1>1, <2>1 DEF Adds
<1>3. PICK r : r = h[n]
  OBVIOUS
<1>4. IsSum(v, n, r)
  <2>1. \A k \in 1..n : k \in 1..(n + 1)
    OBVIOUS
  <2>2. Adds(v, n, h)
    BY <1>1, <2>1 DEF Adds
  <2> QED
    BY <1>3, <2>2 DEF IsSum
<1> DEFINE f == [i \in 1..n |-> i]
<1>5. Ascends(f, n, n) /\ (\A i \in 1..n : v[i] <= w[f[i]] /\ w[i] <= v[f[i]])
  <2>1. \A i \in 1..n : v[i] \in Nat /\ w[i] \in Nat /\ v[i] = w[i]
    OBVIOUS
  <2> QED
    BY <2>1 DEF Ascends
<1> HIDE DEF f
<1>6. \A i \in 1..n : v[i] \in Nat
  OBVIOUS
<1>7. r <= t
  BY <1>4, <1>5, <1>6, SumOfPart
<1>8. t <= r
  BY <1>4, <1>5, <1>6, SumOfPart
<1>9. r \in Nat /\ t \in Nat
  BY <1>4, <1>6, SumType
<1> QED
  BY <1>1, <1>2, <1>3, <1>7, <1>8, <1>9

\* Transactions have gas, and blob gas or none.
LEMMA TxTypes ==
  ASSUME NEW tx \in Txs
  PROVE  tx.gas \in Nat /\ tx.blob \in Optional
BY AppendConstants DEF Txs

counted(c) == IF blob_gas_used(c) = None THEN 0 ELSE blob_gas_used(c)

\* What a checkpoint uses: the span counts its blob gas, or none if it is mixed.
LEMMA CheckpointGas ==
  ASSUME NEW c, c.txs \in Seq(Txs)
  PROVE  /\ gas_used(c) \in Nat
         /\ order_blob_gas(c) \in Nat
         /\ counted(c) \in Nat /\ counted(c) <= order_blob_gas(c)
         /\ blob_gas_used(c) # None => counted(c) = order_blob_gas(c)
<1>1. PICK sq \in Seq(Txs) : sq = c.txs
  OBVIOUS
<1>2. PICK n \in Nat : n = Len(sq) /\ DOMAIN sq = 1..n
  OBVIOUS
<1>3. \A i \in 1..n : sq[i].gas \in Nat /\ sq[i].blob \in Optional
  <2>1. \A i \in 1..n : sq[i] \in Txs
    BY <1>1, <1>2
  <2> QED
    BY <2>1, TxTypes
<1>4. gas_used(c) = GasOf(sq)
  BY <1>1 DEF gas_used, GasOf
<1>5. order_blob_gas(c) = PresentBlobsOf(sq)
  BY <1>1 DEF order_blob_gas, PresentBlobsOf
<1>6. blob_gas_used(c) = IF \E i \in DOMAIN sq : sq[i].blob = None THEN None ELSE BlobsOf(sq)
  BY <1>1 DEF blob_gas_used, BlobsOf
<1>7. PICK gas, present, all :
        /\ gas = [i \in 1..n |-> sq[i].gas]
        /\ present = [i \in 1..n |-> IF sq[i].blob = None THEN 0 ELSE sq[i].blob]
        /\ all = [i \in 1..n |-> sq[i].blob]
  OBVIOUS
<1>8. IsSum(gas, n, GasOf(sq)) /\ IsSum(present, n, PresentBlobsOf(sq)) /\ IsSum(all, n, BlobsOf(sq))
  BY <1>2, <1>7, GasSum, PresentBlobSum, BlobSum
<1>9. \A i \in 1..n : gas[i] \in Nat /\ present[i] \in Nat
  BY <1>3, <1>7 DEF Optional, None
<1>10. GasOf(sq) \in Nat /\ PresentBlobsOf(sq) \in Nat
  BY <1>8, <1>9, SumType
<1>11. CASE \E i \in DOMAIN sq : sq[i].blob = None
  <2>1. blob_gas_used(c) = None
    BY <1>6, <1>11
  <2>2. counted(c) = 0
    BY <2>1 DEF counted
  <2> QED
    BY <1>4, <1>5, <1>10, <2>1, <2>2
<1>12. CASE ~\E i \in DOMAIN sq : sq[i].blob = None
  <2>1. all = present
    BY <1>2, <1>7, <1>12
  <2>2. \A i \in 1..n : all[i] \in Nat
    BY <1>9, <2>1
  <2>3. BlobsOf(sq) \in Nat
    BY <1>8, <2>2, SumType
  <2> DEFINE f == [i \in 1..n |-> i]
  <2>4. Ascends(f, n, n) /\ \A i \in 1..n : present[i] <= present[f[i]]
    BY <1>9 DEF Ascends
  <2> HIDE DEF f
  <2>5. IsSum(present, n, BlobsOf(sq)) /\ IsSum(present, n, PresentBlobsOf(sq))
    BY <1>8, <2>1
  <2>6. BlobsOf(sq) <= PresentBlobsOf(sq)
    BY <1>9, <2>4, <2>5, SumOfPart
  <2>7. PresentBlobsOf(sq) <= BlobsOf(sq)
    BY <1>9, <2>4, <2>5, SumOfPart
  <2>8. blob_gas_used(c) = BlobsOf(sq)
    BY <1>6, <1>12
  <2>9. counted(c) = BlobsOf(sq)
    BY <2>3, <2>8 DEF counted, None
  <2>10. BlobsOf(sq) = PresentBlobsOf(sq)
    BY <1>10, <2>3, <2>6, <2>7
  <2> QED
    BY <1>4, <1>5, <1>10, <2>9, <2>10
<1> QED
  BY <1>11, <1>12

\* What is left of an order has no more blob gas than the order.
LEMMA AppliedBlobs ==
  ASSUME NEW o \in Orders, NEW candidate \in Applied(o)
  PROVE  order_blob_gas(candidate) <= order_blob_gas(OrderOf[o])
<1>1. PICK txs : txs = OrderOf[o].txs
  OBVIOUS
<1>2. txs \in Seq(Txs)
  <2>1. txs \in Seq(ToSet(txs)) /\ ToSet(txs) \subseteq Txs
    BY <1>1, AppendConstants DEF Txs
  <2> QED
    BY <2>1
<1>3. PICK f \in Selections(txs) : candidate.txs = [i \in DOMAIN f |-> txs[f[i]]]
  <2>1. PICK f \in Selections(OrderOf[o].txs) :
          candidate = [kind |-> OrderOf[o].kind, order |-> o,
                       txs |-> [i \in DOMAIN f |-> OrderOf[o].txs[f[i]]]]
    BY DEF Applied
  <2>2. PICK left : left = [i \in DOMAIN f |-> OrderOf[o].txs[f[i]]]
    OBVIOUS
  <2>3. candidate.txs = left
    BY <2>1, <2>2
  <2> QED
    BY <1>1, <2>2, <2>3
<1>4. PICK g : g = [i \in DOMAIN f |-> txs[f[i]]]
  OBVIOUS
<1>5. PICK n \in Nat : n = Len(txs) /\ DOMAIN txs = 1..n
  BY <1>2
<1>6. PICK m \in Nat : f \in [1..m -> DOMAIN txs]
  BY <1>2, <1>5 DEF Selections
<1>7. Ascends(f, m, n)
  BY <1>5, <1>6 DEF Ascends, Selections
<1>8. DOMAIN g = 1..m /\ \A i \in 1..m : f[i] \in 1..n /\ g[i] = txs[f[i]]
  BY <1>4, <1>5, <1>6
<1>9. \A i \in 1..n : txs[i].blob \in Optional
  <2>1. \A i \in 1..n : txs[i] \in Txs
    BY <1>2, <1>5
  <2> QED
    BY <2>1, TxTypes
<1>10. PICK v, w : /\ v = [i \in 1..m |-> IF g[i].blob = None THEN 0 ELSE g[i].blob]
                   /\ w = [i \in 1..n |-> IF txs[i].blob = None THEN 0 ELSE txs[i].blob]
  OBVIOUS
<1>11. IsSum(v, m, PresentBlobsOf(g)) /\ IsSum(w, n, PresentBlobsOf(txs))
  BY <1>5, <1>8, <1>10, PresentBlobSum
<1>12. \A i \in 1..n : w[i] \in Nat
  BY <1>9, <1>10 DEF Optional, None
<1>13. \A i \in 1..m : v[i] = w[f[i]]
  BY <1>8, <1>10
<1>14. \A i \in 1..m : v[i] \in Nat /\ v[i] <= w[f[i]]
  BY <1>8, <1>12, <1>13
<1>15. PresentBlobsOf(g) <= PresentBlobsOf(txs)
  BY <1>7, <1>11, <1>12, <1>14, SumOfPart
<1>16. order_blob_gas(candidate) = PresentBlobsOf(g)
  <2>1. candidate.txs = g
    BY <1>3, <1>4
  <2> QED
    BY <2>1 DEF order_blob_gas, PresentBlobsOf
<1>17. order_blob_gas(OrderOf[o]) = PresentBlobsOf(txs)
  BY <1>1 DEF order_blob_gas, PresentBlobsOf
<1> QED
  BY <1>15, <1>16, <1>17

GasValues(payload) == [i \in 1..Len(payload) |-> gas_used(payload[i])]
CountedValues(payload) == [i \in 1..Len(payload) |-> counted(payload[i])]

\* The sums of a payload.
LEMMA PayloadGas ==
  ASSUME NEW payload \in Seq(Checkpoints)
  PROVE  /\ IsSum(GasValues(payload), Len(payload), cumulative_gas_used(payload))
         /\ IsSum(CountedValues(payload), Len(payload), cumulative_blob_gas_used(payload))
         /\ \A i \in 1..Len(payload) : /\ GasValues(payload)[i] \in Nat
                                       /\ CountedValues(payload)[i] \in Nat
         /\ cumulative_gas_used(payload) \in Nat
         /\ cumulative_blob_gas_used(payload) \in Nat
<1>1. PICK n \in Nat : n = Len(payload) /\ DOMAIN payload = 1..n
  OBVIOUS
<1>2. \A i \in 1..n : payload[i].txs \in Seq(Txs)
  <2>1. \A i \in 1..n : payload[i] \in Checkpoints
    BY <1>1
  <2> QED
    BY <2>1 DEF Checkpoints
<1>3. PICK gas, blob : gas = GasValues(payload) /\ blob = CountedValues(payload)
  OBVIOUS
<1>4. IsSum(gas, n, cumulative_gas_used(payload)) /\ IsSum(blob, n, cumulative_blob_gas_used(payload))
  BY <1>1, <1>3, PayloadGasSum, PayloadBlobSum DEF GasValues, CountedValues, counted
<1>5. \A i \in 1..n : gas[i] \in Nat /\ blob[i] \in Nat
  BY <1>1, <1>2, <1>3, CheckpointGas DEF GasValues, CountedValues
<1>6. cumulative_gas_used(payload) \in Nat /\ cumulative_blob_gas_used(payload) \in Nat
  BY <1>4, <1>5, SumType
<1> QED
  BY <1>1, <1>3, <1>4, <1>5, <1>6

\* A part of a payload uses no more than the payload.
LEMMA LosesGas ==
  ASSUME NEW payload \in Seq(Checkpoints), NEW f \in Selections(payload),
         NEW left, left = [i \in DOMAIN f |-> payload[f[i]]]
  PROVE  /\ cumulative_gas_used(left) <= cumulative_gas_used(payload)
         /\ cumulative_blob_gas_used(left) <= cumulative_blob_gas_used(payload)
<1>1. PICK n \in Nat : n = Len(payload) /\ DOMAIN payload = 1..n
  OBVIOUS
<1>2. PICK m \in Nat : f \in [1..m -> DOMAIN payload]
  <2>1. PICK m \in 0..Len(payload) : f \in [1..m -> DOMAIN payload]
    BY DEF Selections
  <2>2. m \in Nat
    BY <1>1
  <2> QED
    BY <2>1, <2>2, Zenon
<1>3. Ascends(f, m, n)
  BY <1>1, <1>2 DEF Ascends, Selections
<1>4. left \in Seq(Checkpoints) /\ Len(left) = m /\ \A i \in 1..m : f[i] \in 1..n /\ left[i] = payload[f[i]]
  <2>1. left = [i \in 1..m |-> payload[f[i]]] /\ \A i \in 1..m : f[i] \in 1..n
    BY <1>1, <1>2
  <2>2. \A i \in 1..m : payload[f[i]] \in Checkpoints
    BY <1>1, <2>1
  <2> QED
    BY <2>1, <2>2
<1>5. PICK v, w, x, y : /\ v = GasValues(left) /\ w = GasValues(payload)
                        /\ x = CountedValues(left) /\ y = CountedValues(payload)
  OBVIOUS
<1>6. /\ IsSum(v, m, cumulative_gas_used(left)) /\ IsSum(x, m, cumulative_blob_gas_used(left))
      /\ \A i \in 1..m : v[i] \in Nat /\ x[i] \in Nat
  BY <1>4, <1>5, PayloadGas
<1>7. /\ IsSum(w, n, cumulative_gas_used(payload)) /\ IsSum(y, n, cumulative_blob_gas_used(payload))
      /\ \A i \in 1..n : w[i] \in Nat /\ y[i] \in Nat
  BY <1>1, <1>5, PayloadGas
<1>8. \A i \in 1..m : v[i] = w[f[i]] /\ x[i] = y[f[i]]
  BY <1>1, <1>4, <1>5 DEF GasValues, CountedValues
<1>9. \A i \in 1..m : v[i] <= w[f[i]] /\ x[i] <= y[f[i]]
  BY <1>6, <1>8
<1>10. cumulative_gas_used(left) <= cumulative_gas_used(payload)
  BY <1>3, <1>6, <1>7, <1>9, SumOfPart
<1>11. cumulative_blob_gas_used(left) <= cumulative_blob_gas_used(payload)
  BY <1>3, <1>6, <1>7, <1>9, SumOfPart
<1> QED
  BY <1>10, <1>11

\* A checkpoint adds the blob gas that the span counts for it.
LEMMA GainsBlobs ==
  ASSUME NEW payload \in Seq(Checkpoints), NEW c \in Checkpoints, NEW longer,
         longer = Append(payload, c)
  PROVE  cumulative_blob_gas_used(longer) = cumulative_blob_gas_used(payload) + counted(c)
<1>1. PICK n \in Nat : n = Len(payload)
  OBVIOUS
<1>2. /\ longer \in Seq(Checkpoints) /\ Len(longer) = n + 1
      /\ (\A i \in 1..n : longer[i] = payload[i]) /\ longer[n + 1] = c
  BY <1>1, AppendProperties
<1>3. PICK w, v : w = CountedValues(payload) /\ v = CountedValues(longer)
  OBVIOUS
<1>4. /\ IsSum(w, n, cumulative_blob_gas_used(payload))
      /\ \A i \in 1..n : w[i] \in Nat
  BY <1>1, <1>3, PayloadGas
<1>5. /\ IsSum(v, n + 1, cumulative_blob_gas_used(longer))
      /\ \A i \in 1..(n + 1) : v[i] \in Nat
  BY <1>2, <1>3, PayloadGas
<1>6. \A i \in 1..n : v[i] = w[i]
  BY <1>1, <1>2, <1>3 DEF CountedValues
<1>7. cumulative_blob_gas_used(longer) = cumulative_blob_gas_used(payload) + v[n + 1]
  BY <1>4, <1>5, <1>6, SumOfMore
<1>8. v[n + 1] = counted(c)
  BY <1>2, <1>3 DEF CountedValues
<1> QED
  BY <1>7, <1>8

\* Without mixed bundles the span counts all blob gas.
LEMMA UnmixedBlobs ==
  ASSUME NEW payload \in Seq(Checkpoints), ~mixed(payload)
  PROVE  blobs(payload) <= cumulative_blob_gas_used(payload) /\ blobs(payload) \in Nat
<1>1. PICK n \in Nat : n = Len(payload) /\ DOMAIN payload = 1..n
  OBVIOUS
<1>2. \A i \in 1..n : payload[i].txs \in Seq(Txs)
  <2>1. \A i \in 1..n : payload[i] \in Checkpoints
    BY <1>1
  <2> QED
    BY <2>1 DEF Checkpoints
<1>3. PICK v, w : v = [i \in 1..n |-> order_blob_gas(payload[i])] /\ w = CountedValues(payload)
  OBVIOUS
<1>4. IsSum(v, n, blobs(payload))
  BY <1>1, <1>3, AllBlobSum
<1>5. IsSum(w, n, cumulative_blob_gas_used(payload)) /\ \A i \in 1..n : w[i] \in Nat
  BY <1>1, <1>3, PayloadGas
<1>6. ASSUME NEW i \in 1..n
      PROVE  v[i] \in Nat /\ v[i] <= w[i]
  <2>1. PICK c : c = payload[i]
    OBVIOUS
  <2>2. c.txs \in Seq(Txs)
    BY <1>2, <2>1
  <2>3. /\ order_blob_gas(c) \in Nat /\ counted(c) \in Nat
        /\ blob_gas_used(c) # None => counted(c) = order_blob_gas(c)
    BY <2>2, CheckpointGas
  <2>4. ~(blob_gas_used(c) = None /\ order_blob_gas(c) > 0)
    BY <1>1, <2>1 DEF mixed, ToSet
  <2>5. v[i] = order_blob_gas(c) /\ w[i] = counted(c)
    BY <1>1, <1>3, <2>1 DEF CountedValues
  <2> QED
    BY <2>3, <2>4, <2>5
<1> DEFINE f == [i \in 1..n |-> i]
<1>7. Ascends(f, n, n) /\ \A i \in 1..n : v[i] <= w[f[i]]
  BY <1>6 DEF Ascends
<1> HIDE DEF f
<1>8. blobs(payload) \in Nat
  BY <1>4, <1>6, SumType
<1>9. blobs(payload) <= cumulative_blob_gas_used(payload)
  BY <1>4, <1>5, <1>6, <1>7, SumOfPart
<1> QED
  BY <1>8, <1>9

\* The gas of the scope holds the payload, and its blob gas what the span counts: other
\* than the blob gas itself, this stays true when a mixed bundle is removed.
Fitting(payload) ==
  /\ cumulative_gas_used(payload) <= config.limits.gas_limit
  /\ within(cumulative_blob_gas_used(payload), config.limits.max_blob_gas)

\* The payload that a job starts with.
LEMMA EmptyFits ==
  ASSUME config \in Configs
  PROVE  Fitting(<<BarrierCheckpoint>>)
<1>1. PICK payload : payload = <<BarrierCheckpoint>>
  OBVIOUS
<1>2. payload \in Seq(Checkpoints) /\ Len(payload) = 1 /\ payload[1] = BarrierCheckpoint
  BY <1>1, Nothing
<1>3. BarrierCheckpoint.txs = << >>
  BY DEF BarrierCheckpoint
<1>4. gas_used(BarrierCheckpoint) = 0 /\ order_blob_gas(BarrierCheckpoint) = 0
  <2>1. PICK none : none = << >>
    OBVIOUS
  <2>2. 0 \in Nat /\ DOMAIN none = 1..0
    BY <2>1
  <2>3. PICK v, w : /\ v = [i \in 1..0 |-> none[i].gas]
                    /\ w = [i \in 1..0 |-> IF none[i].blob = None THEN 0 ELSE none[i].blob]
    OBVIOUS
  <2>4. IsSum(v, 0, GasOf(none)) /\ IsSum(w, 0, PresentBlobsOf(none))
    BY <2>2, <2>3, GasSum, PresentBlobSum
  <2>5. GasOf(none) = 0 /\ PresentBlobsOf(none) = 0
    BY <2>4 DEF IsSum, Adds
  <2> QED
    BY <1>3, <2>1, <2>5 DEF gas_used, GasOf, order_blob_gas, PresentBlobsOf
<1>5. counted(BarrierCheckpoint) = 0
  <2>1. BarrierCheckpoint.txs \in Seq(Txs)
    BY <1>3
  <2>2. /\ counted(BarrierCheckpoint) \in Nat
        /\ counted(BarrierCheckpoint) <= order_blob_gas(BarrierCheckpoint)
    BY <2>1, CheckpointGas
  <2> QED
    BY <1>4, <2>2
<1>6. PICK v, w : v = GasValues(payload) /\ w = CountedValues(payload)
  OBVIOUS
<1>7. v[1] = 0 /\ w[1] = 0
  BY <1>2, <1>4, <1>5, <1>6 DEF GasValues, CountedValues
<1>8. IsSum(v, 1, cumulative_gas_used(payload)) /\ IsSum(w, 1, cumulative_blob_gas_used(payload))
  BY <1>2, <1>6, PayloadGas
<1>9. cumulative_gas_used(payload) = 0 /\ cumulative_blob_gas_used(payload) = 0
  BY <1>7, <1>8 DEF IsSum, Adds
<1>10. config.limits.gas_limit \in Nat /\ config.limits.max_blob_gas \in Optional
  BY AppendConstants
<1> QED
  BY <1>1, <1>9, <1>10 DEF Fitting, within, Optional, None

\* An order that is not skipped and fits.
LEMMA GainsKeepsFitting ==
  ASSUME config \in Configs, NEW job \in JobStates, Fitting(job.payload), NEW o \in Orders,
         ~should_skip(job, OrderOf[o]), NEW candidate \in Applied(o), fits(job, candidate)
  PROVE  Fitting(Append(job.payload, candidate))
<1>1. PICK payload \in Seq(Checkpoints) : payload = job.payload
  BY DEF JobStates
<1>2. candidate \in Checkpoints
  BY AppliedFacts
<1>3. PICK longer : longer = Append(payload, candidate)
  OBVIOUS
<1>4. cumulative_gas_used(longer) <= config.limits.gas_limit
  BY <1>1, <1>3 DEF fits
<1>5. cumulative_blob_gas_used(longer) = cumulative_blob_gas_used(payload) + counted(candidate)
  BY <1>2, <1>3, GainsBlobs
<1>6. /\ order_blob_gas(candidate) \in Nat
      /\ counted(candidate) \in Nat /\ counted(candidate) <= order_blob_gas(candidate)
  BY <1>2, CheckpointGas DEF Checkpoints
<1>7. order_blob_gas(candidate) <= order_blob_gas(OrderOf[o])
  BY AppliedBlobs
<1>8. order_blob_gas(OrderOf[o]) \in Nat
  <2>1. PICK order : order = OrderOf[o]
    OBVIOUS
  <2>2. order.txs \in Seq(ToSet(order.txs)) /\ ToSet(order.txs) \subseteq Txs
    BY <2>1, AppendConstants DEF Txs
  <2>3. order.txs \in Seq(Txs)
    BY <2>2
  <2> QED
    BY <2>1, <2>3, CheckpointGas
<1>9. cumulative_blob_gas_used(payload) \in Nat
  BY PayloadGas
<1>10. PICK limit \in Optional : limit = config.limits.max_blob_gas
  BY AppendConstants
<1>11. limit = None \/ ~(order_blob_gas(OrderOf[o]) + cumulative_blob_gas_used(payload) > limit)
  BY <1>1, <1>10 DEF should_skip
<1>12. within(cumulative_blob_gas_used(longer), limit)
  BY <1>5, <1>6, <1>7, <1>8, <1>9, <1>10, <1>11 DEF within, Optional, None
<1> QED
  BY <1>1, <1>3, <1>4, <1>10, <1>12 DEF Fitting

\* What other steps leave of a payload.
LEMMA LosesKeepsFitting ==
  ASSUME config \in Configs, NEW payload \in Seq(Checkpoints), Fitting(payload),
         NEW f \in Selections(payload), NEW left, left = [i \in DOMAIN f |-> payload[f[i]]]
  PROVE  Fitting(left)
<1>1. left \in Seq(Checkpoints)
  BY SelectionFacts, Zenon
<1>2. /\ cumulative_gas_used(left) <= cumulative_gas_used(payload)
      /\ cumulative_blob_gas_used(left) <= cumulative_blob_gas_used(payload)
  BY LosesGas
<1>3. PICK a \in Nat, b \in Nat, x \in Nat, y \in Nat :
        /\ a = cumulative_gas_used(left) /\ b = cumulative_blob_gas_used(left)
        /\ x = cumulative_gas_used(payload) /\ y = cumulative_blob_gas_used(payload)
  BY <1>1, PayloadGas
<1>4. PICK limit \in Nat, blob \in Optional :
        limit = config.limits.gas_limit /\ blob = config.limits.max_blob_gas
  BY AppendConstants
<1>5. a <= x /\ b <= y
  BY <1>2, <1>3
<1>6. x <= limit /\ (blob = None \/ y <= blob)
  BY <1>3, <1>4 DEF Fitting, within
<1>7. a <= limit /\ (blob = None \/ b <= blob)
  BY <1>5, <1>6 DEF Optional, None
<1> QED
  BY <1>3, <1>4, <1>7 DEF Fitting, within

\* However a job moves.
LEMMA MovesKeep ==
  ASSUME config \in Configs, NEW old \in JobStates, NEW new \in JobStates, Moves(old, new),
         Distinct(old.payload), Knows(old), Ready(old), Bounded(old.run), Fitting(old.payload)
  PROVE  /\ Distinct(new.payload) /\ Knows(new) /\ Ready(new)
         /\ Bounded(new.run) /\ Fitting(new.payload)
  <1>1. old.payload \in Seq(Checkpoints) /\ old.run \in Runs
    BY DEF JobStates
  <1>2. CASE Keeps(old, new)
    <2>1. Ready(new)
      BY <1>2 DEF Keeps, Ready, HasRoom, should_stop
    <2> QED
      BY <1>2, <2>1 DEF Keeps, Knows
  <1>3. CASE Begins(old, new)
    <2>1. /\ new.run.existing_txs = transactions(new.payload)
          /\ new.run.txs = 0 /\ new.run.orders = 0 /\ new.run.bundles = 0
      BY <1>3 DEF Begins, RunNew
    <2>2. Ready(new)
      BY <1>3 DEF Begins, Ready, Trying
    <2> QED
      BY <1>3, <2>1, <2>2, RunBegins DEF Begins, Knows
  <1>4. CASE Ends(old, new)
    <2>1. new.run.txs = 0 /\ new.run.orders = 0 /\ new.run.bundles = 0
      BY <1>4, Nothing DEF Ends
    <2> QED
      BY <1>4, <2>1, RunBegins DEF Ends, Knows, Ready, InRun, Trying
  <1>5. CASE Loses(old, new)
    <2>1. Distinct(new.payload)
      BY <1>1, <1>5, LosesKeepsDistinct DEF Loses
    <2>2. Fitting(new.payload)
      BY <1>1, <1>5, LosesKeepsFitting DEF Loses
    <2> QED
      BY <1>5, <2>1, <2>2 DEF Loses, Knows, Ready, InRun, Trying
  <1>6. CASE Gains(old, new)
    <2>0. PICK o \in Orders : o = old.order /\ HasRoom(old)
      BY <1>6 DEF Gains, Ready
    <2>1. PICK candidate \in Applied(o) :
            /\ Trying(old) /\ ~should_skip(old, OrderOf[o])
            /\ fits(old, candidate)
            /\ new.payload = Append(old.payload, candidate)
            /\ new.run = RunWith(old.run, candidate)
            /\ new.pc = "running"
      BY <1>6, <2>0 DEF Gains
    <2>2. /\ candidate \in Checkpoints
          /\ ToSet(candidate.txs) \subseteq ToSet(OrderOf[o].txs)
          /\ \A p, q \in DOMAIN candidate.txs : candidate.txs[p] = candidate.txs[q] => p = q
      BY <2>1, AppliedFacts
    <2>3. ToSet(OrderOf[o].txs) \cap old.run.existing_txs = {}
      BY <2>1 DEF should_skip
    <2>4. transactions(old.payload) \subseteq old.run.existing_txs
      BY <2>1 DEF Knows, InRun, Trying
    <2>5. ToSet(candidate.txs) \cap transactions(old.payload) = {}
      BY <2>2, <2>3, <2>4
    <2>6. /\ Distinct(new.payload)
          /\ transactions(new.payload) = transactions(old.payload) \cup ToSet(candidate.txs)
      BY <1>1, <2>1, <2>2, <2>5, GainsKeepsDistinct
    <2>7. new.run.existing_txs = old.run.existing_txs \cup ToSet(candidate.txs)
      BY <2>1 DEF RunWith
    <2>8. Bounded(new.run)
      BY <2>0, <2>1, GainsKeepsBounded
    <2>9. Fitting(new.payload)
      BY <2>1, GainsKeepsFitting
    <2> QED
      BY <2>1, <2>4, <2>6, <2>7, <2>8, <2>9 DEF Knows, Ready, Trying
  <1> QED
    BY <1>2, <1>3, <1>4, <1>5, <1>6 DEF Moves

(***************************************************************************)
(* The inductive invariant                                                 *)
(***************************************************************************)

\* The existing transactions are known to the run that looks for them: without it
\* NoTransactionTwice would not be inductive.
RunsKnowTheirPayload == \A j \in Jobs : Knows(jobs[j])

PayloadsFit == \A j \in Jobs : Fitting(jobs[j].payload)

IndInv ==
  /\ TypeOK
  /\ CountersAgree
  /\ LoneInv
  /\ ReadyJobs
  /\ NoTransactionTwice
  /\ RunsKnowTheirPayload
  /\ RunWithinLimits
  /\ PayloadsFit

\* No job has begun.
LEMMA InitInv ==
  ASSUME Init
  PROVE  IndInv
  <1>1. /\ config \in Configs /\ attempted = {}
        /\ per_job = PerJobZero /\ metrics = MetricsZero
        /\ \A j \in Jobs : jobs[j] = Idle
        /\ jobs = [j \in Jobs |-> Idle]
    BY DEF Init
  <1>0. Idle.pc = "waiting" /\ Len(Idle.payload) = 1 /\ Undecided = {}
    BY <1>1 DEF Idle, Undecided
  <1>2. Idle \in JobStates
    <2>1. <<BarrierCheckpoint>> \in Seq(Checkpoints)
      BY Nothing
    <2> QED
      BY <2>1, Nothing DEF Idle, JobStates
  <1>3. IsFiniteSet(attempted) /\ IsFiniteSet(Undecided) /\ Cardinality(Undecided) = 0
    BY <1>0, <1>1, FS_EmptySet
  <1>4. TypeOK
    BY <1>1, <1>2, <1>3 DEF TypeOK, PerJobZero, MetricsZero
  <1>5. CountersAgree
    BY <1>1, <1>3 DEF CountersAgree, MetricsZero
  <1>12. LoneInv /\ ReadyJobs
    BY <1>0, <1>1 DEF LoneInv, Alone, Fresh, Reports, Running, ReadyJobs, Ready, Trying
  <1>6. /\ Idle.payload = <<BarrierCheckpoint>> /\ Idle.pc = "waiting"
        /\ Idle.run.txs = 0 /\ Idle.run.orders = 0 /\ Idle.run.bundles = 0
    BY Nothing DEF Idle
  <1>7. Distinct(Idle.payload)
    BY <1>6 DEF Distinct, BarrierCheckpoint
  <1>8. NoTransactionTwice
    BY <1>1, <1>7 DEF NoTransactionTwice, Distinct
  <1>9. RunsKnowTheirPayload
    BY <1>1, <1>6 DEF RunsKnowTheirPayload, Knows, InRun
  <1>10. RunWithinLimits
    <2>1. Bounded(Idle.run)
      BY <1>1, <1>6, RunBegins
    <2> QED
      BY <1>1, <2>1 DEF RunWithinLimits, Bounded
  <1>11. PayloadsFit
    BY <1>1, <1>6, EmptyFits DEF PayloadsFit
  <1> QED
    BY <1>4, <1>5, <1>8, <1>9, <1>10, <1>11, <1>12 DEF IndInv

\* One part of the invariant after the other.
LEMMA StepInv ==
  ASSUME IndInv, [Next]_vars
  PROVE  IndInv'
  <1>1. TypeOK /\ ReadyJobs
    BY DEF IndInv
  <1>2. /\ config' = config /\ config \in Configs
        /\ jobs \in [Jobs -> JobStates] /\ jobs' \in [Jobs -> JobStates]
        /\ \A j \in Jobs : jobs'[j] = jobs[j] \/ Moves(jobs[j], jobs'[j])
    BY <1>1, OneMoves DEF TypeOK
  <1>3. TypeOK'
    BY <1>1, <1>2, CountersTyped DEF TypeOK
  <1>4. CountersAgree' /\ LoneInv'
    BY <1>1, CountersStep, LoneStep DEF IndInv
  <1>5. ASSUME NEW j \in Jobs
        PROVE  /\ Distinct(jobs'[j].payload) /\ Knows(jobs'[j]) /\ Ready(jobs'[j])
               /\ Bounded(jobs'[j].run) /\ Fitting(jobs'[j].payload)
    <2>1. /\ Distinct(jobs[j].payload) /\ Knows(jobs[j]) /\ Ready(jobs[j])
          /\ Bounded(jobs[j].run) /\ Fitting(jobs[j].payload)
      BY DEF IndInv, NoTransactionTwice, RunsKnowTheirPayload, ReadyJobs, RunWithinLimits, PayloadsFit,
             Distinct, Bounded
    <2>2. jobs[j] \in JobStates /\ jobs'[j] \in JobStates
      BY <1>2
    <2>3. CASE jobs'[j] = jobs[j]
      BY <2>1, <2>3
    <2>4. CASE Moves(jobs[j], jobs'[j])
      BY <1>2, <2>1, <2>2, <2>4, MovesKeep
    <2> QED
      BY <1>2, <2>3, <2>4
  <1>6. NoTransactionTwice'
    BY <1>5 DEF NoTransactionTwice, Distinct
  <1>7. RunsKnowTheirPayload'
    BY <1>5 DEF RunsKnowTheirPayload, Knows, InRun
  <1>10. ReadyJobs'
    BY <1>2, <1>5 DEF ReadyJobs, Ready, HasRoom, Trying, at_limit
  <1>8. RunWithinLimits'
    BY <1>2, <1>5 DEF RunWithinLimits, Bounded, max_transactions
  <1>9. PayloadsFit'
    BY <1>2, <1>5 DEF PayloadsFit, Fitting
  <1> QED
    BY <1>3, <1>4, <1>6, <1>7, <1>8, <1>9, <1>10 DEF IndInv

\* The invariant holds in every reachable state.
THEOREM AppendInvariance == Spec => []IndInv
  <1>1. Init => IndInv
    BY InitInv
  <1>2. IndInv /\ [Next]_vars => IndInv'
    BY StepInv
  <1> QED
    BY <1>1, <1>2, PTL DEF Spec

\* Whatever orders share transactions, whatever the other steps remove and however the
\* pools repeat themselves, try_include never puts a transaction into a payload twice.
THEOREM TransactionsOnce == Spec => []NoTransactionTwice
  <1>1. IndInv => NoTransactionTwice
    BY DEF IndInv
  <1> QED
    BY <1>1, AppendInvariance, PTL

\* A run never adds more than the limits of the step and of its scope allow.
THEOREM LimitsHold == Spec => []RunWithinLimits
  <1>1. IndInv => RunWithinLimits
    BY DEF IndInv
  <1> QED
    BY <1>1, AppendInvariance, PTL

\* A payload stays within the gas of its scope, and within its blob gas if no bundle of
\* it has transactions with and without blobs, whatever the other steps remove.
THEOREM PayloadLimitsHold == Spec => []WithinLimits
  <1>1. IndInv => WithinLimits
    <2> SUFFICES ASSUME IndInv, NEW j \in Jobs, ~mixed(jobs[j].payload)
                 PROVE  within(blobs(jobs[j].payload), config.limits.max_blob_gas)
      BY DEF IndInv, PayloadsFit, Fitting, WithinLimits
    <2>1. PICK payload \in Seq(Checkpoints) : payload = jobs[j].payload
      BY DEF IndInv, TypeOK, JobStates
    <2>2. blobs(payload) <= cumulative_blob_gas_used(payload) /\ blobs(payload) \in Nat
      BY <2>1, UnmixedBlobs
    <2>3. cumulative_blob_gas_used(payload) \in Nat
      BY PayloadGas
    <2>4. PICK limit \in Optional : limit = config.limits.max_blob_gas
      BY AppendConstants DEF IndInv, TypeOK
    <2>5. within(cumulative_blob_gas_used(payload), limit)
      BY <2>1, <2>4 DEF IndInv, PayloadsFit, Fitting
    <2> QED
      BY <2>1, <2>2, <2>3, <2>4, <2>5 DEF within, Optional, None
  <1> QED
    BY <1>1, AppendInvariance, PTL

\* Whatever becomes of an order, it is counted once as considered and once as what became
\* of it, however the jobs that share the counters overlap.
THEOREM CountersHold == Spec => []CountersAgree
  <1>1. IndInv => CountersAgree
    BY DEF IndInv
  <1> QED
    BY <1>1, AppendInvariance, PTL

\* What after_job reports of a job that no other overlaps with is what the job did.
THEOREM LoneJobsCorrect == Spec => []LoneJobsReportThemselves
  <1>1. IndInv => LoneJobsReportThemselves
    BY DEF IndInv, LoneInv, Reports, LoneJobsReportThemselves
  <1> QED
    BY <1>1, AppendInvariance, PTL

=============================================================================
