--------------------------- MODULE HostNodeProofs ---------------------------
(***************************************************************************)
(* The safety of HostNode for any number of nodes, tasks, boxes and        *)
(* blocks, any clock and any block times.                                  *)
(***************************************************************************)
EXTENDS HostNode, SequenceTheorems, TLAPS

(***************************************************************************)
(* The boxes and the pointers to them                                      *)
(***************************************************************************)

Box == [pool : Nodes, live : {TRUE}]

\* A pointer that may be followed.
valid(ptr) == ptr \in 1..Len(heap)

\* Every box is that of a node, and nothing points elsewhere.
Pointers ==
  /\ heap \in Seq(Box)
  /\ handles \in [Owners -> Nat]
  /\ calls = [t \in Tasks |-> calls[t]]
  /\ \A t \in Tasks : calls[t].pc = "called" => valid(calls[t].ptr)
  /\ \A o \in Owners : handles[o] # 0 => valid(handles[o])
  /\ \A n \in Nodes : handles[n] # 0 => heap[handles[n]].pool = n
  /\ handles[Host] # 0 => instances # NoHost /\ heap[handles[Host]].pool = instances

\* The heap only grows: nothing is ever freed.
Grown == heap' = heap \/ \E n \in Nodes : heap' = boxed(heap, n)

\* A pointer that leads to a box goes on leading to it.
LEMMA BoxesStay ==
  ASSUME Pointers, Grown
  PROVE  /\ heap' \in Seq(Box)
         /\ \A ptr : valid(ptr) => valid(ptr)' /\ heap'[ptr] = heap[ptr]
<1>1. CASE heap' = heap
  BY <1>1 DEF Pointers, valid
<1>2. ASSUME NEW n \in Nodes, heap' = boxed(heap, n)
      PROVE  /\ heap' \in Seq(Box)
             /\ \A ptr : valid(ptr) => valid(ptr)' /\ heap'[ptr] = heap[ptr]
  <2> DEFINE box == [pool |-> n, live |-> TRUE]
  <2>1. box \in Box /\ heap \in Seq(Box) /\ heap' = Append(heap, box)
    BY <1>2 DEF Box, Pointers, boxed
  <2> HIDE DEF box
  <2> QED
    BY <2>1, AppendProperties, LenProperties DEF valid
<1> QED
  BY <1>1, <1>2 DEF Grown

\* A new box is at the end of the heap.
LEMMA NewBox ==
  ASSUME Pointers, NEW n \in Nodes
  PROVE  LET new == boxed(heap, n) IN
         /\ Len(new) = Len(heap) + 1 /\ Len(new) \in Nat \ {0}
         /\ Len(new) \in 1..Len(new)
         /\ new[Len(new)].pool = n
<1> DEFINE box == [pool |-> n, live |-> TRUE]
<1>1. box \in Box /\ heap \in Seq(Box) /\ boxed(heap, n) = Append(heap, box) /\ box.pool = n
  BY DEF Box, Pointers, boxed
<1> HIDE DEF box
<1>2. /\ Len(Append(heap, box)) = Len(heap) + 1
      /\ Append(heap, box)[Len(heap) + 1] = box
      /\ Len(heap) \in Nat
  BY <1>1, AppendProperties, LenProperties
<1> QED
  BY <1>1, <1>2

\* attach, for a heap with a new box for the node.
LEMMA Attached ==
  ASSUME Pointers, NEW n \in Nodes, NEW tip, attach(n, boxed(heap, n), tip),
         UNCHANGED calls
  PROVE  Pointers' /\ \A m \in Nodes : handles'[m] = handles[m]
<1>1. Host \in Owners /\ Nodes \subseteq Owners /\ Host \notin Nodes /\ NoHost \notin Nodes
  BY HostConstants DEF Owners
<1>2. heap' = boxed(heap, n)
  BY DEF attach, drop
<1>3. Grown
  BY <1>2 DEF Grown
<1>4. CASE instances = NoHost
  <2>1. /\ instances' = n
        /\ handles' = [handles EXCEPT ![Host] = Len(heap')]
    BY <1>2, <1>4 DEF attach
  <2>2. Len(heap') \in Nat \ {0} /\ Len(heap') \in 1..Len(heap') /\ heap'[Len(heap')].pool = n
    BY <1>2, NewBox
  <2>3. /\ handles' \in [Owners -> Nat]
        /\ handles'[Host] = Len(heap')
        /\ \A o \in Owners : o # Host => handles'[o] = handles[o]
    BY <1>1, <2>1, <2>2 DEF Pointers
  <2>4. \A o \in Owners : handles'[o] # 0 => handles'[o] \in 1..Len(heap')
    BY <1>3, <2>2, <2>3, BoxesStay DEF Pointers, valid
  <2>5. \A m \in Nodes : handles'[m] # 0 => heap'[handles'[m]].pool = m
    BY <1>1, <1>3, <2>3, BoxesStay DEF Pointers
  <2>6. \A t \in Tasks : calls'[t].pc = "called" => valid(calls[t].ptr)'
    BY <1>3, BoxesStay DEF Pointers
  <2>7. calls' = [t \in Tasks |-> calls'[t]] /\ heap' \in Seq(Box)
    BY <1>3, BoxesStay DEF Pointers
  <2> QED
    BY <1>1, <2>1, <2>2, <2>3, <2>4, <2>5, <2>6, <2>7 DEF Pointers, valid
<1>5. CASE instances # NoHost
  <2>1. UNCHANGED <<instances, handles>>
    BY <1>5 DEF attach
  <2> QED
    BY <1>1, <1>3, <2>1, BoxesStay DEF Pointers
<1> QED
  BY <1>4, <1>5

\* Attaching makes a box of its own, and cloning and dropping leave the boxes alone.
LEMMA NextPointers == Pointers /\ [Next]_vars => Pointers'
<1> SUFFICES ASSUME Pointers, [Next]_vars PROVE Pointers'
  OBVIOUS
<1>0. Host \in Owners /\ Nodes \subseteq Owners /\ Host \notin Nodes
  BY HostConstants DEF Owners
<1>1. ASSUME NEW t \in Tasks, NEW o \in Owners, NEW m, NEW tx, BeginCall(t, o, m, tx)
      PROVE  Pointers'
  <2>1. /\ UNCHANGED <<heap, handles, instances>>
        /\ handles[o] # 0
        /\ calls' = [calls EXCEPT ![t] =
             IF m \in TransactionPoolVTable
             THEN [pc |-> "called", owner |-> o, ptr |-> handles[o], kind |-> kind(m), tx |-> tx]
             ELSE [pc |-> "panicked"]]
    BY <1>1 DEF BeginCall, hostVars
  <2>2. valid(handles[o])
    BY <2>1 DEF Pointers
  <2>3. calls'[t].pc = "called" => calls'[t].ptr = handles[o]
    BY <2>1 DEF Pointers
  <2>4. calls' = [s \in Tasks |-> calls'[s]] /\ \A s \in Tasks : s # t => calls'[s] = calls[s]
    BY <2>1 DEF Pointers
  <2> QED
    BY <2>1, <2>2, <2>3, <2>4 DEF Pointers, valid
<1>2. ASSUME NEW t \in Tasks, EndCall(t)
      PROVE  Pointers'
  <2>1. UNCHANGED <<heap, handles, instances>> /\ calls' = [calls EXCEPT ![t] = Idle]
    BY <1>2 DEF EndCall, hostVars
  <2>2. \A s \in Tasks : calls'[s] = calls[s] \/ calls'[s].pc = "idle"
    BY <2>1 DEF Pointers, Idle
  <2>3. calls' = [s \in Tasks |-> calls'[s]]
    BY <2>1 DEF Pointers
  <2> QED
    BY <2>1, <2>2, <2>3 DEF Pointers, valid
<1>3. ASSUME NEW n \in Nodes, NEW blocks, LaunchAttached(n, blocks)
      PROVE  Pointers'
  BY <1>3, Attached DEF LaunchAttached
<1>4. ASSUME NEW n \in Nodes, LaunchLocal(n)
      PROVE  Pointers'
  <2>1. /\ heap' = boxed(heap, n)
        /\ handles' = [handles EXCEPT ![n] = Len(heap) + 1]
        /\ UNCHANGED <<calls, instances>>
    BY <1>4 DEF LaunchLocal, hostVars
  <2>2. Grown
    BY <2>1 DEF Grown
  <2>3. /\ Len(heap') \in Nat \ {0} /\ Len(heap') \in 1..Len(heap') /\ heap'[Len(heap')].pool = n
        /\ Len(heap') = Len(heap) + 1
    BY <2>1, NewBox
  <2>4. /\ handles' \in [Owners -> Nat]
        /\ handles'[n] = Len(heap')
        /\ \A o \in Owners : o # n => handles'[o] = handles[o]
    BY <1>0, <2>1, <2>3 DEF Pointers
  <2>5. \A o \in Owners : handles'[o] # 0 => handles'[o] \in 1..Len(heap')
    BY <2>2, <2>3, <2>4, BoxesStay, SMTT(30) DEF Pointers, valid
  <2>6. \A m \in Nodes : handles'[m] # 0 => heap'[handles'[m]].pool = m
    BY <1>0, <2>2, <2>3, <2>4, BoxesStay DEF Pointers
  <2>7. handles'[Host] # 0 => instances' # NoHost /\ heap'[handles'[Host]].pool = instances'
    BY <1>0, <2>1, <2>2, <2>4, BoxesStay DEF Pointers
  <2>8. \A t \in Tasks : calls'[t].pc = "called" => valid(calls[t].ptr)'
    BY <2>1, <2>2, BoxesStay DEF Pointers
  <2>9. calls' = [t \in Tasks |-> calls'[t]] /\ heap' \in Seq(Box)
    BY <2>1, <2>2, BoxesStay DEF Pointers
  <2> QED
    BY <2>4, <2>5, <2>6, <2>7, <2>8, <2>9 DEF Pointers, valid
<1>5. ASSUME NEW n \in Nodes, AttachToTestNode(n)
      PROVE  Pointers'
  <2>1. heap[handles[n]].pool = n
    BY <1>5 DEF AttachToTestNode, Pointers
  <2>2. attach(n, boxed(heap, n), 0) /\ UNCHANGED calls
    BY <1>5, <2>1 DEF AttachToTestNode, clone, drop
  <2> QED
    BY <2>2, Attached
<1>6. ASSUME NEW n \in Nodes, Stop(n)
      PROVE  Pointers'
  <2>1. UNCHANGED <<heap, calls, instances>> /\ handles' = [handles EXCEPT ![n] = 0]
    BY <1>6 DEF Stop, drop, hostVars
  <2>2. handles' \in [Owners -> Nat] /\ \A o \in Owners : handles'[o] = handles[o] \/ handles'[o] = 0
    BY <2>1 DEF Pointers
  <2> QED
    BY <1>0, <2>1, <2>2 DEF Pointers, valid
<1>7. CASE UNCHANGED <<heap, handles, instances, calls>>
  BY <1>7 DEF Pointers, valid
<1>8. \/ \E t \in Tasks : \/ \E o \in Owners, m \in TransactionPoolVTable \cup Unimplemented, tx \in Txs :
                               BeginCall(t, o, m, tx)
                          \/ EndCall(t)
      \/ \E n \in Nodes :
           \/ \E blocks \in {<< 0 >>, << 0, 1 >>} : LaunchAttached(n, blocks)
           \/ LaunchLocal(n) \/ AttachToTestNode(n) \/ Stop(n)
      \/ UNCHANGED <<heap, handles, instances, calls>>
  BY DEF Next, vars, hostVars, Maintenance, Subscribe, ChainEvent, Shutdown, Follow, SetBlockTime,
       NextBlock, StartBuilding, FinishBuildingFails, FinishBuilding
<1> QED
  BY <1>1, <1>2, <1>3, <1>4, <1>5, <1>6, <1>7, <1>8

(***************************************************************************)
(* Local nodes that build blocks                                           *)
(***************************************************************************)

\* Only nodes that were launched have a handle, and only those that have one are driven.  The
\* chain of such a node grows by the block under way only.
Driving ==
  /\ chain \in [Nodes -> Seq(Nat) \ {<< >>}]
  /\ block_time \in [Nodes -> Nat]
  /\ \A n \in Nodes : block_time[n] >= MIN_BLOCK_TIME
  /\ status = [n \in Nodes |-> status[n]]
  /\ \A n \in Nodes : status[n] = "down" => handles[n] = 0
  /\ build = [n \in Nodes |-> build[n]]
  /\ \A n \in Nodes :
       /\ build[n].pc \in {"idle", "start", "sleeping"}
       /\ build[n].pc # "idle" => handles[n] # 0 /\ build[n].time \in Nat
       /\ build[n].pc = "start" => build[n].time > Last(chain[n])

\* What Max gives for two numbers.
LEMMA MaxOfTwo ==
  ASSUME NEW x \in Int, NEW y \in Int
  PROVE  Max({x, y}) = IF x >= y THEN x ELSE y
<1> DEFINE larger == IF x >= y THEN x ELSE y
<1>1. larger \in {x, y} /\ \A z \in {x, y} : larger >= z
  OBVIOUS
<1>2. \A u \in {x, y} : (\A z \in {x, y} : u >= z) => u = larger
  OBVIOUS
<1> HIDE DEF larger
<1>3. Max({x, y}) = larger
  BY <1>1, <1>2 DEF Max
<1> QED
  BY <1>3 DEF larger

\* The latest block of a chain has a timestamp.
LEMMA LastIsTime ==
  ASSUME NEW s \in Seq(Nat) \ {<< >>}
  PROVE  Last(s) \in Nat
<1>1. Len(s) \in 1..Len(s)
  BY EmptySeq, LenProperties
<1> QED
  BY <1>1, ElementOfSeq DEF Last

\* set_block_time keeps the minimum.
LEMMA BlockTimeAtLeast ==
  ASSUME NEW duration \in Nat
  PROVE  set_block_time(duration) \in Nat /\ set_block_time(duration) >= MIN_BLOCK_TIME
BY MaxOfTwo DEF set_block_time, MIN_BLOCK_TIME

\* next_block_with_params: the time that is asked for is after the latest block, to the
\* second, whatever the clock shows.
LEMMA TargetIsLater ==
  ASSUME Driving, NEW n \in Nodes, NEW now \in Nat
  PROVE  target_timestamp(n, now) \in Nat /\ target_timestamp(n, now) > Last(chain[n])
<1>1. PICK last \in Nat : last = Last(chain[n])
  BY LastIsTime DEF Driving
<1>2. PICK bt \in Nat : bt = block_time[n] /\ bt >= 2
  BY DEF Driving, MIN_BLOCK_TIME
<1>3. PICK elapsed \in Nat : elapsed = Max({0, now - 2 * last})
  BY <1>1, MaxOfTwo
<1>4. target_timestamp(n, now) = (2 * last + bt + elapsed) \div 2
  BY <1>1, <1>2, <1>3 DEF target_timestamp
<1> QED
  BY <1>1, <1>2, <1>3, <1>4

\* A chain grows or is that of a node before its launch.
LEMMA Appended ==
  ASSUME Driving, NEW n \in Nodes, NEW time \in Nat, NEW txs, commit(n, time, txs)
  PROVE  /\ chain' \in [Nodes -> Seq(Nat) \ {<< >>}]
         /\ \A m \in Nodes : m # n => chain'[m] = chain[m]
<1>1. chain' = [chain EXCEPT ![n] = Append(chain[n], time)]
  BY DEF commit
<1>2. chain[n] \in Seq(Nat)
  BY DEF Driving
<1>3. Append(chain[n], time) \in Seq(Nat) \ {<< >>}
  BY <1>2, AppendProperties
<1> QED
  BY <1>1, <1>3 DEF Driving

\* A build begins after the latest block, and no other block comes before it ends.
LEMMA NextDriving == Pointers /\ Driving /\ [Next]_vars => Driving'
<1> SUFFICES ASSUME Pointers, Driving, [Next]_vars PROVE Driving'
  OBVIOUS
<1>0. Nodes \subseteq Owners /\ Host \in Owners /\ Host \notin Nodes
  BY HostConstants DEF Owners
<1>1. ASSUME NEW n \in Nodes, NEW blocks \in {<< 0 >>, << 0, 1 >>}, LaunchAttached(n, blocks)
      PROVE  Driving'
  <2>1. /\ status[n] = "down"
        /\ chain' = [chain EXCEPT ![n] = blocks]
        /\ status' = [status EXCEPT ![n] = IF instances = NoHost THEN "up" ELSE "failed"]
        /\ attach(n, boxed(heap, n), Len(blocks) - 1)
        /\ UNCHANGED <<calls, build, block_time>>
    BY <1>1 DEF LaunchAttached, driverVars
  <2>2. \A m \in Nodes : handles'[m] = handles[m]
    BY <2>1, Attached
  <2>3. blocks \in Seq(Nat) \ {<< >>}
    <3>1. <<0>> \in Seq(Nat) /\ <<0>> # << >>
      OBVIOUS
    <3>2. <<0, 1>> \in Seq(Nat) /\ <<0, 1>> # << >>
      OBVIOUS
    <3> QED
      BY <3>1, <3>2
  <2>4. /\ chain' \in [Nodes -> Seq(Nat) \ {<< >>}]
        /\ \A m \in Nodes : m # n => chain'[m] = chain[m]
    BY <2>1, <2>3 DEF Driving
  <2>5. build[n].pc = "idle"
    BY <2>1 DEF Driving
  <2>6. /\ status' = [m \in Nodes |-> status'[m]]
        /\ \A m \in Nodes : status'[m] = "down" => handles'[m] = 0
    BY <2>1, <2>2 DEF Driving
  <2> QED
    BY <2>1, <2>2, <2>4, <2>5, <2>6, ZenonT(40) DEF Driving
<1>2. ASSUME NEW n \in Nodes, LaunchLocal(n)
      PROVE  Driving'
  <2>1. /\ handles' = [handles EXCEPT ![n] = Len(heap) + 1]
        /\ status' = [status EXCEPT ![n] = "up"]
        /\ UNCHANGED <<chain, build, block_time>>
    BY <1>2 DEF LaunchLocal, driverVars
  <2>2. Len(heap) + 1 # 0
    BY NewBox DEF Pointers
  <2>3. \A m \in Nodes : m # n => handles'[m] = handles[m]
    BY <1>0, <2>1 DEF Pointers
  <2>4. handles'[n] # 0
    BY <1>0, <2>1, <2>2 DEF Pointers
  <2>5. /\ status' = [m \in Nodes |-> status'[m]]
        /\ \A m \in Nodes : status'[m] = "down" => handles'[m] = 0
    BY <2>1, <2>3 DEF Driving
  <2>6. \A m \in Nodes : handles[m] # 0 => handles'[m] # 0
    BY <2>3, <2>4
  <2> QED
    BY <2>1, <2>5, <2>6 DEF Driving
<1>3. ASSUME NEW n \in Nodes, AttachToTestNode(n)
      PROVE  Driving'
  <2>1. heap[handles[n]].pool = n
    BY <1>3 DEF AttachToTestNode, Pointers
  <2>2. /\ attach(n, boxed(heap, n), 0)
        /\ UNCHANGED <<calls, status, chain, build, block_time>>
    BY <1>3, <2>1 DEF AttachToTestNode, clone, drop, nodeVars, driverVars
  <2>3. \A m \in Nodes : handles'[m] = handles[m]
    BY <2>2, Attached
  <2> QED
    BY <2>2, <2>3 DEF Driving
<1>4. ASSUME NEW n \in Nodes, Stop(n)
      PROVE  Driving'
  <2>1. /\ build[n].pc = "idle"
        /\ status' = [status EXCEPT ![n] = "stopped"]
        /\ handles' = [handles EXCEPT ![n] = 0]
        /\ UNCHANGED <<chain, build, block_time>>
    BY <1>4 DEF Stop, driverVars
  <2>2. /\ handles'[n] = 0
        /\ \A m \in Nodes : m # n => handles'[m] = handles[m]
    BY <1>0, <2>1 DEF Pointers
  <2>3. /\ status' = [m \in Nodes |-> status'[m]]
        /\ \A m \in Nodes : status'[m] = "down" => handles'[m] = 0
    BY <2>1, <2>2 DEF Driving
  <2> QED
    BY <2>1, <2>2, <2>3 DEF Driving
<1>5. ASSUME NEW n \in Nodes, NEW txs, Follow(n, txs)
      PROVE  Driving'
  <2>1. /\ handles[n] = 0
        /\ commit(n, Last(chain[n]) + 1, txs)
        /\ UNCHANGED <<status, handles, build, block_time>>
    BY <1>5 DEF Follow, driverVars
  <2>2. Last(chain[n]) + 1 \in Nat
    BY LastIsTime DEF Driving
  <2>3. /\ chain' \in [Nodes -> Seq(Nat) \ {<< >>}]
        /\ \A m \in Nodes : m # n => chain'[m] = chain[m]
    BY <2>1, <2>2, Appended
  <2>4. build[n].pc = "idle"
    BY <2>1 DEF Driving
  <2> QED
    BY <2>1, <2>3, <2>4 DEF Driving
<1>6. ASSUME NEW n \in Nodes, NEW duration \in BlockTimes, SetBlockTime(n, duration)
      PROVE  Driving'
  <2>1. /\ block_time' = [block_time EXCEPT ![n] = set_block_time(duration)]
        /\ UNCHANGED <<status, chain, handles, build>>
    BY <1>6 DEF SetBlockTime, nodeVars
  <2>2. set_block_time(duration) \in Nat /\ set_block_time(duration) >= MIN_BLOCK_TIME
    BY HostConstants, BlockTimeAtLeast
  <2>3. block_time' \in [Nodes -> Nat] /\ \A m \in Nodes : block_time'[m] >= MIN_BLOCK_TIME
    BY <2>1, <2>2 DEF Driving
  <2> QED
    BY <2>1, <2>3 DEF Driving
<1>7. ASSUME NEW n \in Nodes, NEW now \in Clock, NextBlock(n, now)
      PROVE  Driving'
  <2> DEFINE target == target_timestamp(n, now)
  <2>1. /\ handles[n] # 0
        /\ build' = [build EXCEPT ![n] = [pc |-> "start", time |-> target]]
        /\ UNCHANGED <<status, chain, handles, block_time>>
    BY <1>7 DEF NextBlock, nodeVars
  <2>2. target \in Nat /\ target > Last(chain[n])
    BY HostConstants, TargetIsLater
  <2> HIDE DEF target
  <2>3. /\ build' = [m \in Nodes |-> build'[m]]
        /\ \A m \in Nodes : m # n => build'[m] = build[m]
        /\ build'[n].pc = "start" /\ build'[n].time = target
    BY <2>1 DEF Driving
  <2> QED
    BY <2>1, <2>2, <2>3 DEF Driving
<1>8. ASSUME NEW n \in Nodes, StartBuilding(n)
      PROVE  Driving'
  <2>1. /\ build[n].pc = "start" /\ build[n].time > Last(chain[n])
        /\ build' = [build EXCEPT ![n] = IF build[n].time > Last(chain[n])
                                         THEN [pc |-> "sleeping", time |-> build[n].time]
                                         ELSE [pc |-> "refused"]]
        /\ UNCHANGED <<status, chain, handles, block_time>>
    BY <1>8 DEF StartBuilding, nodeVars, Driving
  <2>2. build' = [build EXCEPT ![n] = [pc |-> "sleeping", time |-> build[n].time]]
    BY <2>1
  <2>3. /\ build' = [m \in Nodes |-> build'[m]]
        /\ \A m \in Nodes : m # n => build'[m] = build[m]
        /\ build'[n].pc = "sleeping" /\ build'[n].time = build[n].time
    BY <2>2 DEF Driving
  <2> QED
    BY <2>1, <2>3 DEF Driving
<1>9. ASSUME NEW n \in Nodes, NEW txs, FinishBuilding(n, txs)
      PROVE  Driving'
  <2>1. /\ build[n].pc = "sleeping"
        /\ commit(n, build[n].time, txs)
        /\ build' = [build EXCEPT ![n] = Idle]
        /\ UNCHANGED <<status, handles, block_time>>
    BY <1>9 DEF FinishBuilding
  <2>2. build[n].time \in Nat
    BY <2>1 DEF Driving
  <2>3. /\ chain' \in [Nodes -> Seq(Nat) \ {<< >>}]
        /\ \A m \in Nodes : m # n => chain'[m] = chain[m]
    BY <2>1, <2>2, Appended
  <2>4. /\ build' = [m \in Nodes |-> build'[m]]
        /\ \A m \in Nodes : m # n => build'[m] = build[m]
        /\ build'[n].pc = "idle"
    BY <2>1 DEF Driving, Idle
  <2> QED
    BY <2>1, <2>3, <2>4 DEF Driving
<1>10. ASSUME NEW n \in Nodes, FinishBuildingFails(n)
       PROVE  Driving'
  <2>1. /\ build' = [build EXCEPT ![n] = Idle]
        /\ UNCHANGED <<status, chain, handles, block_time>>
    BY <1>10 DEF FinishBuildingFails, nodeVars
  <2>2. /\ build' = [m \in Nodes |-> build'[m]]
        /\ \A m \in Nodes : m # n => build'[m] = build[m]
        /\ build'[n].pc = "idle"
    BY <2>1 DEF Driving, Idle
  <2> QED
    BY <2>1, <2>2 DEF Driving
<1>11. CASE UNCHANGED <<status, chain, handles, build, block_time>>
  BY <1>11 DEF Driving
<1>12. \/ \E n \in Nodes :
            \/ \E blocks \in {<< 0 >>, << 0, 1 >>} : LaunchAttached(n, blocks)
            \/ LaunchLocal(n) \/ AttachToTestNode(n) \/ Stop(n)
            \/ \E txs \in SUBSET pool[n] : Follow(n, txs)
            \/ \E duration \in BlockTimes : SetBlockTime(n, duration)
            \/ \E now \in Clock : NextBlock(n, now)
            \/ StartBuilding(n) \/ FinishBuildingFails(n)
            \/ \E txs \in SUBSET best_transactions : FinishBuilding(n, txs)
       \/ UNCHANGED <<status, chain, handles, build, block_time>>
  BY DEF Next, vars, nodeVars, driverVars, Maintenance, Subscribe, ChainEvent, Shutdown,
       BeginCall, EndCall
<1> QED
  BY <1>1, <1>2, <1>3, <1>4, <1>5, <1>6, <1>7, <1>8, <1>9, <1>10, <1>11, <1>12

(***************************************************************************)
(* The inductive invariant, and the properties of the run                  *)
(***************************************************************************)

IndInv == Pointers /\ Driving

\* No node is up.
LEMMA InitIndInv == Init => IndInv
<1> SUFFICES ASSUME Init PROVE IndInv
  OBVIOUS
<1>1. Pointers
  <2>1. << >> \in Seq(Box)
    OBVIOUS
  <2>2. Idle.pc = "idle"
    BY DEF Idle
  <2> QED
    BY <2>1, <2>2, HostConstants DEF Init, Pointers, Owners
<1>2. Driving
  <2>1. <<0>> \in Seq(Nat) \ {<< >>} /\ Idle.pc = "idle" /\ MIN_BLOCK_TIME = 2
    BY DEF Idle, MIN_BLOCK_TIME
  <2> QED
    BY <2>1 DEF Init, Driving, Owners
<1> QED
  BY <1>1, <1>2 DEF IndInv

\* The pointers are valid and driven nodes were launched, whoever launches, attaches and stops.
THEOREM HostInvariance == Spec => []IndInv
<1>1. IndInv /\ [Next]_vars => IndInv'
  BY NextPointers, NextDriving DEF IndInv
<1> QED
  BY <1>1, InitIndInv, PTL DEF Spec

\* The unsafe dereferences of native.rs are of boxes that have not been freed, and lead to
\* the pool that the owner of the handle stands for.
THEOREM PointersAreValid == Spec => []NoDanglingPools
<1>1. IndInv => NoDanglingPools
  <2> SUFFICES ASSUME Pointers PROVE NoDanglingPools
    BY DEF IndInv
  <2>1. \A ptr : valid(ptr) => heap[ptr] \in Box
    BY ElementOfSeq DEF Pointers, valid
  <2>2. ASSUME NEW box \in Box
        PROVE  box.live /\ box = [pool |-> box.pool, live |-> TRUE]
    <3>1. box.live = TRUE
      BY DEF Box
    <3>2. box = [pool |-> box.pool, live |-> box.live]
      BY DEF Box
    <3> QED
      BY <3>1, <3>2
  <2>3. Nodes \subseteq Owners /\ Host \in Owners
    BY DEF Owners
  <2> QED
    BY <2>1, <2>2, <2>3 DEF Pointers, NoDanglingPools
<1> QED
  BY <1>1, HostInvariance, PTL

\* LocalNode never asks for a block that is not after the latest one.
THEOREM AttributesAlwaysAccepted == Spec => []AttributesAreAccepted
<1>1. IndInv => AttributesAreAccepted
  BY DEF IndInv, Driving, AttributesAreAccepted
<1> QED
  BY <1>1, HostInvariance, PTL
=============================================================================
