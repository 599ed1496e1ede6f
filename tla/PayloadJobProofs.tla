-------------------------- MODULE PayloadJobProofs --------------------------
(***************************************************************************)
(* The safety of PayloadJob for any number of jobs, requests and steps.    *)
(***************************************************************************)
EXTENDS PayloadJob, TLAPS

Phases == {"absent", "running", "resolved", "dropped"}

Instances == 0..NumSteps

Builders == [done : Instances, inside : Instances, spawned : BOOLEAN, failed : BOOLEAN]

Executors == [phase : Phases, result : {"none", "ok", "err"}, step : Instances]

TypeOK ==
  /\ builder \in Builders
  /\ service \subseteq Jobs
  /\ expired \subseteq Jobs
  /\ cached \in [Jobs -> {"Future", "ok", "err"}]
  /\ executor \in [Jobs -> Executors]
  /\ request \in [Requests -> [job : Jobs \cup {"none"},
                               state : {"not made", "Future", "ok", "err", "dropped"}]]

\* The setup goes from step to step, and the service comes after it.
SetupInOrder ==
  /\ builder.inside # NoInstance => builder.inside = builder.done + 1
  /\ builder.spawned => builder.done = NumSteps
  /\ \A j \in Jobs : executor[j].phase # "absent" => builder.spawned

\* Only a live executor is inside a step, and it has no result.
StepsOfTheLiving ==
  \A j \in Jobs : /\ ~Alive(executor[j]) => executor[j].step = NoInstance
                  /\ Alive(executor[j]) => executor[j].result = "none"
                  /\ executor[j].phase = "absent" => executor[j] = NotStarted

waits(r, j) == request[r] = [job |-> j, state |-> "Future"]

\* The future of a job has one owner at a time, the service or one request, and an owner
\* who may still poll it finds the executor alive.
OneOwner ==
  /\ \A j \in service : /\ executor[j].phase \notin {"absent", "dropped"}
                        /\ cached[j] = "Future" => Alive(executor[j])
  /\ \A r \in Requests : request[r].state = "Future" => request[r].job \in Jobs
  /\ \A r \in Requests, j \in Jobs : waits(r, j) =>
       /\ Alive(executor[j])
       /\ j \notin service
       /\ \A q \in Requests : waits(q, j) => q = r

\* Who is alive is waited for.
NobodyIsForgotten == \A j \in Jobs : Alive(executor[j]) => held(service, request, j)

IndInv == TypeOK /\ SetupInOrder /\ StepsOfTheLiving /\ OneOwner /\ NobodyIsForgotten

(***************************************************************************)
(* A poll                                                                  *)
(***************************************************************************)

\* Instances are numbered, and 0 is none of them.
LEMMA NoneIsInstance == 0 \in Instances /\ Steps \cup {NoInstance} = Instances
BY StepsAreNat DEF Instances, Steps, NoInstance

\* What a poll makes of a live executor: it stays alive without a result, or resolves.
LEMMA AfterPoll ==
  ASSUME NEW e \in Executors, Alive(e), e.result = "none", NEW f \in after_poll(e)
  PROVE  /\ f \in Executors
         /\ Alive(f) \/ f.phase = "resolved"
         /\ Alive(f) => f.result = "none"
         /\ f.phase = "resolved" => f.result \in {"ok", "err"} /\ f.step = NoInstance
<1> USE NoneIsInstance
<1>1. CASE f \in inside_step(e)
  <2>1. PICK s \in Instances : f = [e EXCEPT !.step = s]
    BY <1>1 DEF inside_step, NoInstance
  <2> QED
    BY <2>1 DEF Executors, Alive
<1>2. CASE \E result \in {"ok", "err"} : f = resolved(e, result)
  <2>1. PICK result \in {"ok", "err"} :
          f = [e EXCEPT !.phase = "resolved", !.step = 0, !.result = result]
    BY <1>2 DEF resolved, NoInstance
  <2> QED
    BY <2>1 DEF Executors, Phases, Alive, NoInstance
<1> QED
  BY <1>1, <1>2 DEF after_poll

\* Nobody has to wait for an executor that has resolved, and one that is waited for is not
\* dropped.
LEMMA Kept ==
  ASSUME NEW srv, NEW req, NEW j, NEW e, Alive(e) => held(srv, req, j)
  PROVE  release(srv, req, j, e) = e
BY DEF release

\* An executor that nobody waits for ends, if it has not ended before.
LEMMA Released ==
  ASSUME NEW srv, NEW req, NEW j, NEW e \in Executors, e.phase # "absent"
  PROVE  /\ release(srv, req, j, e) \in Executors
         /\ release(srv, req, j, e).phase # "absent"
         /\ ~held(srv, req, j) => ~Alive(release(srv, req, j, e))
         /\ ~Alive(release(srv, req, j, e)) /\ (~Alive(e) => e.step = NoInstance) =>
              release(srv, req, j, e).step = NoInstance
         /\ Alive(release(srv, req, j, e)) => release(srv, req, j, e) = e
<1>1. CASE held(srv, req, j) \/ ~Alive(e)
  BY <1>1 DEF release
<1>2. CASE ~held(srv, req, j) /\ Alive(e)
  <2>1. release(srv, req, j, e) = [e EXCEPT !.phase = "dropped", !.step = 0]
    BY <1>2 DEF release, NoInstance
  <2> QED
    BY <1>2, <2>1, NoneIsInstance DEF Executors, Phases, Alive, NoInstance
<1> QED
  BY <1>1, <1>2

(***************************************************************************)
(* The invariant                                                           *)
(***************************************************************************)

\* No step is set up and no job exists.
LEMMA InitIndInv == Init => IndInv
<1> SUFFICES ASSUME Init PROVE IndInv
  OBVIOUS
<1>1. NotStarted \in Executors
  BY NoneIsInstance DEF NotStarted, Executors, Phases, NoInstance
<1>2. TypeOK
  BY <1>1, NoneIsInstance DEF Init, TypeOK, Builders, NotMade, NoInstance
<1> QED
  BY <1>2 DEF Init, IndInv, SetupInOrder, StepsOfTheLiving, OneOwner, NobodyIsForgotten,
       NotStarted, NotMade, Alive, waits

\* While the service is being started there are no jobs.
LEMMA SetupStep ==
  ASSUME IndInv, BeginSetup \/ EndSetup \/ SpawnService
  PROVE  IndInv'
<1> USE DEF IndInv
<1>1. UNCHANGED <<service, expired, cached, executor, request>>
  BY DEF BeginSetup, EndSetup, SpawnService
<1>2. StepsOfTheLiving' /\ OneOwner' /\ NobodyIsForgotten'
  BY <1>1 DEF StepsOfTheLiving, OneOwner, NobodyIsForgotten, waits, held
<1> DEFINE next == builder.done + 1
<1>3. /\ builder.done \in Instances /\ builder.inside \in Instances
      /\ builder.inside # 0 => builder.inside = next
      /\ builder.spawned => builder.done = NumSteps
  BY DEF TypeOK, Builders, SetupInOrder, NoInstance
<1>4. /\ builder.done < NumSteps => next \in Instances
      /\ builder.inside # 0 => next \in Instances
  BY <1>3, StepsAreNat DEF Instances
<1>5. builder.spawned => builder.done = NumSteps /\ ~(builder.done < NumSteps) /\ builder.inside = 0
  BY <1>3, <1>4, StepsAreNat DEF Instances
<1> HIDE DEF next
<1>6. /\ builder' \in Builders
      /\ builder'.inside # 0 => builder'.inside = builder'.done + 1
      /\ builder'.spawned => builder'.done = NumSteps
      /\ builder.spawned => builder'.spawned
  <2>1. CASE BeginSetup
    <3>1. builder' = [builder EXCEPT !.inside = next]
      BY <2>1 DEF BeginSetup, next
    <3>2. builder.done < NumSteps
      BY <2>1 DEF BeginSetup
    <3>3. next \in Instances
      BY <1>4, <3>2
    <3>4. /\ builder' \in Builders
          /\ builder'.inside = next
          /\ builder'.done = builder.done
          /\ builder'.spawned = builder.spawned
      BY <3>1, <3>3, NoneIsInstance DEF TypeOK, Builders
    <3> QED
      BY <1>5, <3>2, <3>4 DEF next
  <2>2. CASE EndSetup
    <3>1. \/ builder' = [builder EXCEPT !.inside = 0, !.done = next]
          \/ builder' = [builder EXCEPT !.inside = 0, !.failed = TRUE]
      BY <2>2 DEF EndSetup, next, NoInstance
    <3>2. builder.inside # 0
      BY <2>2 DEF EndSetup, NoInstance
    <3>3. next \in Instances
      BY <1>4, <3>2
    <3>4. /\ builder' \in Builders
          /\ builder'.inside = 0
          /\ builder'.spawned = builder.spawned
      BY <3>1, <3>3, NoneIsInstance DEF TypeOK, Builders
    <3> QED
      BY <1>5, <3>2, <3>4
  <2>3. CASE SpawnService
    <3>1. builder' = [builder EXCEPT !.spawned = TRUE] /\ builder.done = NumSteps
      BY <2>3 DEF SpawnService
    <3>2. /\ builder' \in Builders
          /\ builder'.inside = builder.inside
          /\ builder'.done = builder.done
          /\ builder'.spawned
      BY <3>1 DEF TypeOK, Builders
    <3> QED
      BY <3>1, <3>2 DEF SetupInOrder, NoInstance
  <2> QED
    BY <2>1, <2>2, <2>3
<1> QED
  BY <1>1, <1>2, <1>6 DEF TypeOK, SetupInOrder, NoInstance

\* A new job belongs to the service.
LEMMA NewPayloadJobStep ==
  ASSUME IndInv, NEW j \in Jobs, NewPayloadJob(j)
  PROVE  IndInv'
<1>1. /\ builder.spawned /\ executor[j].phase = "absent"
      /\ service' = service \cup {j} /\ executor' = [executor EXCEPT ![j] = Started]
      /\ UNCHANGED <<builder, expired, cached, request>>
  BY DEF NewPayloadJob
<1>2. /\ Started \in Executors /\ Alive(Started) /\ Started.phase = "running"
      /\ Started.result = "none" /\ Started.step = NoInstance
  BY NoneIsInstance DEF Started, NotStarted, Executors, Phases, Alive, NoInstance
<1>3. \A r \in Requests : ~waits(r, j)
  BY <1>1 DEF IndInv, OneOwner, Alive
<1>4. TypeOK'
  BY <1>1, <1>2 DEF IndInv, TypeOK
<1>5. SetupInOrder'
  BY <1>1 DEF IndInv, SetupInOrder, TypeOK
<1>6. StepsOfTheLiving'
  BY <1>1, <1>2 DEF IndInv, StepsOfTheLiving, TypeOK
<1>7. OneOwner'
  BY <1>1, <1>2, <1>3 DEF IndInv, OneOwner, TypeOK, waits
<1>8. NobodyIsForgotten'
  BY <1>1, <1>2 DEF IndInv, NobodyIsForgotten, TypeOK, held
<1> QED
  BY <1>4, <1>5, <1>6, <1>7, <1>8 DEF IndInv

\* A deadline that passes changes nothing until the job is polled.
LEMMA ExpireStep ==
  ASSUME IndInv, NEW j \in Jobs, Expire(j)
  PROVE  IndInv'
BY DEF Expire, IndInv, TypeOK, SetupInOrder, StepsOfTheLiving, OneOwner, NobodyIsForgotten,
     waits, held

\* The deadline: no request has a copy, so the executor ends with the job.
LEMMA PollExpiredStep ==
  ASSUME IndInv, NEW j \in Jobs, PollExpired(j)
  PROVE  IndInv'
<1> DEFINE e == release(service', request, j, executor[j])
<1>1. /\ j \in service /\ service' = service \ {j}
      /\ executor' = [executor EXCEPT ![j] = e]
      /\ UNCHANGED <<builder, expired, cached, request>>
  BY DEF PollExpired
<1>2. executor[j] \in Executors /\ executor[j].phase # "absent"
  BY <1>1 DEF IndInv, TypeOK, OneOwner
<1>3. \A r \in Requests : ~waits(r, j)
  BY <1>1 DEF IndInv, OneOwner
<1>4. ~held(service', request, j)
  BY <1>1, <1>3 DEF held, waits
<1>5. /\ e \in Executors /\ e.phase # "absent" /\ ~Alive(e)
      /\ e.step = NoInstance
  BY <1>2, <1>4, Released DEF IndInv, StepsOfTheLiving
<1> HIDE DEF e
<1>6. TypeOK'
  BY <1>1, <1>5 DEF IndInv, TypeOK
<1>7. SetupInOrder'
  BY <1>1, <1>2 DEF IndInv, SetupInOrder, TypeOK
<1>8. StepsOfTheLiving'
  BY <1>1, <1>5 DEF IndInv, StepsOfTheLiving, TypeOK
<1>9. OneOwner'
  BY <1>1, <1>3 DEF IndInv, OneOwner, TypeOK, waits
<1>10. NobodyIsForgotten'
  BY <1>1, <1>5 DEF IndInv, NobodyIsForgotten, TypeOK, held
<1> QED
  BY <1>6, <1>7, <1>8, <1>9, <1>10 DEF IndInv

\* The service polls: the job stays with it until it fails.
LEMMA PollJobStep ==
  ASSUME IndInv, NEW j \in Jobs, PollJob(j)
  PROVE  IndInv'
<1>1. PICK e \in after_poll(executor[j]) :
        /\ cached' = [cached EXCEPT ![j] = IF e.phase = "resolved" THEN e.result ELSE cached[j]]
        /\ service' = IF e.result = "err" THEN service \ {j} ELSE service
        /\ executor' = [executor EXCEPT ![j] = release(service', request, j, e)]
  BY DEF PollJob
<1>2. /\ j \in service /\ cached[j] = "Future" /\ UNCHANGED <<builder, expired, request>>
      /\ executor[j] \in Executors /\ Alive(executor[j]) /\ executor[j].result = "none"
      /\ executor[j].phase # "absent"
  BY DEF PollJob, IndInv, TypeOK, OneOwner, StepsOfTheLiving
<1>3. /\ e \in Executors /\ e.phase # "absent" /\ e.phase # "dropped"
      /\ Alive(e) => e.result = "none"
      /\ e.phase = "resolved" => e.result \in {"ok", "err"}
      /\ ~Alive(e) => e.phase = "resolved" /\ e.step = NoInstance
  BY <1>2, AfterPoll DEF Alive
<1>4. Alive(e) => j \in service'
  BY <1>1, <1>2, <1>3
<1>5. executor' = [executor EXCEPT ![j] = e]
  BY <1>1, <1>4, Kept DEF held
<1>6. \A r \in Requests : ~waits(r, j)
  BY <1>2 DEF IndInv, OneOwner
<1>7. service' \subseteq service
  BY <1>1
<1>8. TypeOK'
  <2>1. cached' \in [Jobs -> {"Future", "ok", "err"}]
    BY <1>1, <1>3 DEF IndInv, TypeOK
  <2> QED
    BY <2>1, <1>2, <1>3, <1>5, <1>7 DEF IndInv, TypeOK
<1>9. SetupInOrder'
  BY <1>2, <1>5 DEF IndInv, SetupInOrder, TypeOK
<1>10. StepsOfTheLiving'
  BY <1>2, <1>3, <1>5 DEF IndInv, StepsOfTheLiving, TypeOK
<1>11. OneOwner'
  <2>1. \A i \in service' : /\ executor'[i].phase \notin {"absent", "dropped"}
                            /\ cached'[i] = "Future" => Alive(executor'[i])
    BY <1>1, <1>3, <1>5, <1>7 DEF IndInv, OneOwner, TypeOK
  <2> QED
    BY <2>1, <1>2, <1>5, <1>6, <1>7 DEF IndInv, OneOwner, TypeOK, waits
<1>12. NobodyIsForgotten'
  BY <1>1, <1>2, <1>4, <1>5 DEF IndInv, NobodyIsForgotten, TypeOK, held
<1> QED
  BY <1>8, <1>9, <1>10, <1>11, <1>12 DEF IndInv

\* A request takes over the future of the job, or its result.
LEMMA ResolveKindStep ==
  ASSUME IndInv, NEW r \in Requests, NEW j \in Jobs, ResolveKind(r, j)
  PROVE  IndInv'
<1> DEFINE e == release(service', request', j, executor[j])
<1>1. /\ request[r].state = "not made" /\ j \in service /\ service' = service \ {j}
      /\ request' = [request EXCEPT ![r] = [job |-> j, state |-> cached[j]]]
      /\ executor' = [executor EXCEPT ![j] = e]
      /\ UNCHANGED <<builder, expired, cached>>
  BY DEF ResolveKind
<1>2. /\ executor[j] \in Executors /\ executor[j].phase # "absent"
      /\ cached[j] \in {"Future", "ok", "err"}
      /\ cached[j] = "Future" => Alive(executor[j])
      /\ ~Alive(executor[j]) => executor[j].step = NoInstance
      /\ Alive(executor[j]) => executor[j].result = "none"
  BY <1>1 DEF IndInv, TypeOK, OneOwner, StepsOfTheLiving
<1>3. \A q \in Requests : ~waits(q, j)
  BY <1>1 DEF IndInv, OneOwner
<1>4. request'[r] = [job |-> j, state |-> cached[j]] /\ \A q \in Requests \ {r} : request'[q] = request[q]
  BY <1>1 DEF IndInv, TypeOK
<1>5. held(service', request', j) <=> cached[j] = "Future"
  <2>1. cached[j] = "Future" => held(service', request', j)
    BY <1>4 DEF held
  <2>2. ASSUME NEW q \in Requests, request'[q] = [job |-> j, state |-> "Future"]
        PROVE  cached[j] = "Future"
    <3>1. q = r
      BY <2>2, <1>3, <1>4 DEF waits
    <3>2. request'[q].state = "Future"
      BY <2>2
    <3> QED
      BY <3>1, <3>2, <1>4
  <2> QED
    BY <2>1, <2>2, <1>1 DEF held
<1>6. /\ e \in Executors /\ e.phase # "absent"
      /\ ~Alive(e) => e.step = NoInstance
      /\ Alive(e) => e.result = "none" /\ cached[j] = "Future"
  BY <1>2, <1>5, Released
<1>7. cached[j] = "Future" => Alive(e)
  BY <1>2, <1>5, Kept
<1> HIDE DEF e
<1>8. TypeOK'
  <2>1. request' \in [Requests -> [job : Jobs \cup {"none"},
                                   state : {"not made", "Future", "ok", "err", "dropped"}]]
    BY <1>1, <1>2 DEF IndInv, TypeOK
  <2> QED
    BY <2>1, <1>1, <1>6 DEF IndInv, TypeOK
<1>9. SetupInOrder'
  BY <1>1, <1>2 DEF IndInv, SetupInOrder, TypeOK
<1>10. StepsOfTheLiving'
  BY <1>1, <1>6 DEF IndInv, StepsOfTheLiving, TypeOK
<1>11. \A q \in Requests, i \in Jobs :
         waits(q, i)' <=> \/ q # r /\ i # j /\ waits(q, i)
                          \/ q = r /\ i = j /\ cached[j] = "Future"
  BY <1>3, <1>4 DEF waits
<1>12. OneOwner'
  <2>1. \A i \in service' : /\ executor'[i].phase \notin {"absent", "dropped"}
                            /\ cached'[i] = "Future" => Alive(executor'[i])
    BY <1>1 DEF IndInv, OneOwner, TypeOK
  <2>2. \A q \in Requests : request'[q].state = "Future" => request'[q].job \in Jobs
    BY <1>4 DEF IndInv, OneOwner
  <2>3. ASSUME NEW q \in Requests, NEW i \in Jobs, waits(q, i)'
        PROVE  /\ Alive(executor'[i])
               /\ i \notin service'
               /\ \A p \in Requests : waits(p, i)' => p = q
    <3>1. CASE q # r /\ i # j /\ waits(q, i)
      <4>1. Alive(executor[i]) /\ i \notin service /\ \A p \in Requests : waits(p, i) => p = q
        BY <3>1 DEF IndInv, OneOwner
      <4>2. executor'[i] = executor[i]
        BY <3>1, <1>1 DEF IndInv, TypeOK
      <4> QED
        BY <4>1, <4>2, <3>1, <1>1, <1>11
    <3>2. CASE q = r /\ i = j /\ cached[j] = "Future"
      <4>1. executor'[i] = e
        BY <3>2, <1>1 DEF IndInv, TypeOK
      <4> QED
        BY <4>1, <3>2, <1>1, <1>7, <1>11
    <3> QED
      BY <2>3, <3>1, <3>2, <1>11
  <2> QED
    BY <2>1, <2>2, <2>3 DEF OneOwner
<1>13. NobodyIsForgotten'
  <2> SUFFICES ASSUME NEW i \in Jobs, Alive(executor'[i])
               PROVE  held(service', request', i)
    BY DEF NobodyIsForgotten
  <2>1. CASE i = j
    BY <2>1, <1>1, <1>5, <1>6 DEF IndInv, TypeOK
  <2>2. CASE i # j
    <3>1. i \in service \/ \E q \in Requests : waits(q, i)
      BY <2>2, <1>1 DEF IndInv, TypeOK, NobodyIsForgotten, held, waits
    <3>2. ASSUME NEW q \in Requests, waits(q, i)
          PROVE  waits(q, i)'
      <4>1. request[q].state = "Future"
        BY <3>2 DEF waits
      <4>2. q # r
        BY <4>1, <1>1
      <4> QED
        BY <4>2, <3>2, <2>2, <1>11
    <3> QED
      BY <3>1, <3>2, <2>2, <1>1 DEF held, waits
  <2> QED
    BY <2>1, <2>2
<1> QED
  BY <1>8, <1>9, <1>10, <1>12, <1>13 DEF IndInv

\* A step of the request that owns the future of job j: it still waits, or the executor
\* is at its end and nobody waits.
LEMMA OwnerStep ==
  ASSUME IndInv, NEW r \in Requests, NEW j \in Jobs, waits(r, j), NEW e \in Executors,
         e.phase # "absent", ~Alive(e) => e.step = NoInstance, Alive(e) => e.result = "none",
         NEW state \in {"Future", "ok", "err", "dropped"}, Alive(e) <=> state = "Future",
         request' = [request EXCEPT ![r].state = state],
         executor' = [executor EXCEPT ![j] = e],
         UNCHANGED <<builder, service, expired, cached>>
  PROVE  IndInv'
<1>1. /\ request[r].job = j /\ request'[r] = [job |-> j, state |-> state]
      /\ \A q \in Requests \ {r} : request'[q] = request[q]
  <2>1. request[r] = [job |-> j, state |-> "Future"]
    BY DEF waits
  <2>2. request'[r] = [request[r] EXCEPT !.state = state]
    BY DEF IndInv, TypeOK
  <2>3. request'[r] = [job |-> j, state |-> state] /\ request[r].job = j
    BY <2>1, <2>2
  <2> QED
    BY <2>3 DEF IndInv, TypeOK
<1>2. Alive(executor[j]) /\ j \notin service /\ \A q \in Requests : waits(q, j) => q = r
  BY DEF IndInv, OneOwner
<1>3. \A q \in Requests, i \in Jobs :
        waits(q, i)' <=> waits(q, i) /\ (q = r => state = "Future")
  <2> TAKE q \in Requests, i \in Jobs
  <2>1. CASE q # r
    BY <2>1, <1>1 DEF waits
  <2>2. CASE q = r
    <3>1. waits(q, i)' <=> i = j /\ state = "Future"
      BY <2>2, <1>1 DEF waits
    <3>2. waits(q, i) <=> i = j
      BY <2>2, <1>1 DEF waits
    <3> QED
      BY <2>2, <3>1, <3>2
  <2> QED
    BY <2>1, <2>2
<1>4. TypeOK'
  <2>1. request' \in [Requests -> [job : Jobs \cup {"none"},
                                   state : {"not made", "Future", "ok", "err", "dropped"}]]
    BY DEF IndInv, TypeOK
  <2> QED
    BY <2>1 DEF IndInv, TypeOK
<1>5. SetupInOrder'
  BY <1>2 DEF IndInv, SetupInOrder, TypeOK, Alive
<1>6. StepsOfTheLiving'
  BY DEF IndInv, StepsOfTheLiving, TypeOK
<1>7. executor'[j] = e /\ \A i \in Jobs : i # j => executor'[i] = executor[i]
  BY DEF IndInv, TypeOK
<1>8. OneOwner'
  <2>1. \A i \in service' : /\ executor'[i].phase \notin {"absent", "dropped"}
                            /\ cached'[i] = "Future" => Alive(executor'[i])
    BY <1>2, <1>7 DEF IndInv, OneOwner, TypeOK
  <2>2. \A q \in Requests : request'[q].state = "Future" => request'[q].job \in Jobs
    BY <1>1 DEF IndInv, OneOwner
  <2>3. ASSUME NEW q \in Requests, NEW i \in Jobs, waits(q, i)'
        PROVE  /\ Alive(executor'[i])
               /\ i \notin service'
               /\ \A p \in Requests : waits(p, i)' => p = q
    <3>1. waits(q, i) /\ (q = r => state = "Future")
      BY <2>3, <1>3
    <3>2. /\ Alive(executor[i]) /\ i \notin service
          /\ \A p \in Requests : waits(p, i) => p = q
      BY <3>1 DEF IndInv, OneOwner
    <3>3. Alive(executor'[i])
      <4>1. CASE i = j
        BY <4>1, <3>1, <3>2, <1>2, <1>7
      <4>2. CASE i # j
        BY <4>2, <3>2, <1>7
      <4> QED
        BY <4>1, <4>2
    <3> QED
      BY <3>2, <3>3, <1>3
  <2> QED
    BY <2>1, <2>2, <2>3 DEF OneOwner
<1>9. NobodyIsForgotten'
  <2> SUFFICES ASSUME NEW i \in Jobs, Alive(executor'[i])
               PROVE  i \in service' \/ \E q \in Requests : waits(q, i)'
    BY DEF NobodyIsForgotten, held, waits
  <2>1. CASE i = j
    BY <2>1, <1>3, <1>7
  <2>2. CASE i # j
    <3>1. i \in service \/ \E q \in Requests : waits(q, i)
      BY <2>2, <1>7 DEF IndInv, NobodyIsForgotten, held, waits
    <3>2. ~waits(r, i)
      BY <2>2, <1>1 DEF waits
    <3> QED
      BY <3>1, <3>2, <1>3
  <2> QED
    BY <2>1, <2>2
<1> QED
  BY <1>4, <1>5, <1>6, <1>8, <1>9 DEF IndInv

\* A request polls the executor it waits for.
LEMMA PollRequestStep ==
  ASSUME IndInv, NEW r \in Requests, PollRequest(r)
  PROVE  IndInv'
<1> DEFINE j == request[r].job
<1>1. request[r].state = "Future" /\ UNCHANGED <<builder, service, expired, cached>>
  BY DEF PollRequest
<1>2. PICK e \in after_poll(executor[j]) :
        /\ request' = [request EXCEPT ![r].state =
                         IF e.phase = "resolved" THEN e.result ELSE request[r].state]
        /\ executor' = [executor EXCEPT ![j] = release(service, request', j, e)]
  BY DEF PollRequest
<1>3. j \in Jobs /\ waits(r, j)
  BY <1>1 DEF IndInv, TypeOK, OneOwner, waits
<1>4. executor[j] \in Executors /\ Alive(executor[j]) /\ executor[j].result = "none"
  BY <1>3 DEF IndInv, TypeOK, OneOwner, StepsOfTheLiving
<1>5. /\ e \in Executors /\ e.phase # "absent"
      /\ Alive(e) => e.result = "none"
      /\ e.phase = "resolved" => e.result \in {"ok", "err"}
      /\ ~Alive(e) <=> e.phase = "resolved"
      /\ ~Alive(e) => e.step = NoInstance
  BY <1>4, AfterPoll DEF Alive
<1> DEFINE state == IF e.phase = "resolved" THEN e.result ELSE "Future"
<1>6. /\ state \in {"Future", "ok", "err", "dropped"}
      /\ Alive(e) <=> state = "Future"
      /\ request' = [request EXCEPT ![r].state = state]
  BY <1>1, <1>2, <1>5
<1> HIDE DEF state
<1>7. request'[r] = [job |-> j, state |-> state]
  BY <1>3, <1>6 DEF IndInv, TypeOK, waits
<1> HIDE DEF j
<1>8. executor' = [executor EXCEPT ![j] = e]
  <2>1. Alive(e) => held(service, request', j)
    BY <1>6, <1>7 DEF held
  <2>2. release(service, request', j, e) = e
    BY <2>1, Kept
  <2> QED
    BY <2>2, <1>2
<1> QED
  BY <1>1, <1>3, <1>5, <1>6, <1>8, OwnerStep

\* A request that is given up takes its executor with it.
LEMMA DropRequestStep ==
  ASSUME IndInv, NEW r \in Requests, DropRequest(r)
  PROVE  IndInv'
<1> DEFINE j == request[r].job
           e == release(service, request', j, executor[j])
<1>1. /\ request[r].state = "Future" /\ UNCHANGED <<builder, service, expired, cached>>
      /\ request' = [request EXCEPT ![r].state = "dropped"]
      /\ executor' = [executor EXCEPT ![j] = e]
  BY DEF DropRequest
<1>2. j \in Jobs /\ waits(r, j)
  BY <1>1 DEF IndInv, TypeOK, OneOwner, waits
<1>3. /\ executor[j] \in Executors /\ Alive(executor[j]) /\ executor[j].phase # "absent"
      /\ j \notin service /\ \A q \in Requests : waits(q, j) => q = r
  BY <1>2 DEF IndInv, TypeOK, OneOwner, Alive
<1>4. request'[r].state = "dropped" /\ \A q \in Requests \ {r} : request'[q] = request[q]
  BY <1>1 DEF IndInv, TypeOK
<1> HIDE DEF j
<1>5. ~held(service, request', j)
  <2>1. ASSUME NEW q \in Requests, request'[q] = [job |-> j, state |-> "Future"]
        PROVE  FALSE
    <3>1. request'[q].state = "Future"
      BY <2>1
    <3>2. q # r
      BY <3>1, <1>4
    <3>3. waits(q, j)
      BY <2>1, <3>2, <1>4 DEF waits
    <3> QED
      BY <3>2, <3>3, <1>3
  <2> QED
    BY <2>1, <1>3 DEF held
<1>6. e \in Executors /\ e.phase # "absent" /\ ~Alive(e) /\ e.step = NoInstance
  BY <1>3, <1>5, Released
<1> HIDE DEF e
<1> QED
  BY <1>1, <1>2, <1>6, OwnerStep

\* The end of the service is the end of the jobs it holds, and of no other.
LEMMA UnimplementedStep ==
  ASSUME IndInv, Unimplemented
  PROVE  IndInv'
<1>1. /\ builder' = [builder EXCEPT !.failed = TRUE] /\ service' = {}
      /\ executor' = [j \in Jobs |-> release({}, request, j, executor[j])]
      /\ UNCHANGED <<expired, cached, request>>
  BY DEF Unimplemented
<1>2. /\ builder' \in Builders /\ builder'.done = builder.done /\ builder'.inside = builder.inside
      /\ builder'.spawned = builder.spawned
  BY <1>1 DEF IndInv, TypeOK, Builders
<1>3. ASSUME NEW j \in Jobs
      PROVE  /\ executor'[j] \in Executors
             /\ executor'[j].phase # "absent" => executor[j].phase # "absent"
             /\ Alive(executor'[j]) => /\ \E r \in Requests : waits(r, j)
                                       /\ executor'[j] = executor[j]
             /\ ~Alive(executor'[j]) => executor'[j].step = NoInstance
             /\ executor'[j].phase = "absent" => executor'[j] = NotStarted
             /\ \A r \in Requests : waits(r, j) => executor'[j] = executor[j]
  <2> DEFINE e == executor[j]
  <2>1. executor'[j] = release({}, request, j, e) /\ e \in Executors
    BY <1>1 DEF IndInv, TypeOK
  <2>2. held({}, request, j) <=> \E r \in Requests : waits(r, j)
    BY DEF held, waits
  <2>3. (~Alive(e) => e.step = NoInstance) /\ (e.phase = "absent" => e = NotStarted)
    BY DEF IndInv, StepsOfTheLiving
  <2>4. CASE e.phase = "absent"
    BY <2>1, <2>3, <2>4 DEF release, Alive
  <2>5. CASE e.phase # "absent"
    <3>1. /\ executor'[j] \in Executors /\ executor'[j].phase # "absent"
          /\ ~held({}, request, j) => ~Alive(executor'[j])
          /\ ~Alive(executor'[j]) => executor'[j].step = NoInstance
          /\ Alive(executor'[j]) => executor'[j] = e
      BY <2>1, <2>3, <2>5, Released
    <3>2. \A r \in Requests : waits(r, j) => executor'[j] = e
      BY <2>1, <2>2 DEF release
    <3> QED
      BY <2>2, <2>5, <3>1, <3>2
  <2> QED
    BY <2>4, <2>5
<1>4. TypeOK'
  BY <1>1, <1>2, <1>3 DEF IndInv, TypeOK
<1>5. SetupInOrder'
  BY <1>2, <1>3 DEF IndInv, SetupInOrder
<1>6. StepsOfTheLiving'
  BY <1>3 DEF IndInv, StepsOfTheLiving
<1>7. OneOwner'
  <2>1. \A r \in Requests, j \in Jobs : waits(r, j)' <=> waits(r, j)
    BY <1>1 DEF waits
  <2>2. ASSUME NEW r \in Requests, NEW j \in Jobs, waits(r, j)
        PROVE  Alive(executor'[j]) /\ \A q \in Requests : waits(q, j) => q = r
    BY <1>3, <2>2 DEF IndInv, OneOwner
  <2> QED
    BY <1>1, <2>1, <2>2 DEF IndInv, OneOwner
<1>8. NobodyIsForgotten'
  BY <1>1, <1>3 DEF NobodyIsForgotten, held, waits
<1> QED
  BY <1>4, <1>5, <1>6, <1>7, <1>8 DEF IndInv

\* Every step of the service, its jobs and its requests keeps the invariant.
LEMMA NextIndInv == IndInv /\ [Next]_vars => IndInv'
<1> SUFFICES ASSUME IndInv, [Next]_vars PROVE IndInv'
  OBVIOUS
<1>1. CASE UNCHANGED vars
  BY <1>1 DEF vars, IndInv, TypeOK, SetupInOrder, StepsOfTheLiving, OneOwner, NobodyIsForgotten,
       waits, held
<1>2. CASE BeginSetup \/ EndSetup \/ SpawnService
  BY <1>2, SetupStep
<1>3. CASE \E j \in Jobs : NewPayloadJob(j) \/ Expire(j) \/ PollExpired(j) \/ PollJob(j)
  BY <1>3, NewPayloadJobStep, ExpireStep, PollExpiredStep, PollJobStep
<1>4. CASE \E r \in Requests : \/ \E j \in Jobs : ResolveKind(r, j)
                               \/ PollRequest(r)
                               \/ DropRequest(r)
  BY <1>4, ResolveKindStep, PollRequestStep, DropRequestStep
<1>5. CASE Unimplemented
  BY <1>5, UnimplementedStep
<1> QED
  BY <1>1, <1>2, <1>3, <1>4, <1>5 DEF Next

\* The inductive invariant holds whatever the service, the engine and the deadlines do.
THEOREM JobInvariance == Spec => []IndInv
BY InitIndInv, NextIndInv, PTL DEF Spec

(***************************************************************************)
(* What follows                                                            *)
(***************************************************************************)

\* The deadline of a job never takes the executor away from a request, and no executor
\* works on when nobody waits for it, for any number of jobs and requests.
THEOREM ExecutorLifetime == Spec => []ExecutorLivesWhileHeld
<1>1. IndInv => ExecutorLivesWhileHeld
  <2> SUFFICES ASSUME IndInv, NEW j \in Jobs
               PROVE  /\ Alive(executor[j]) => held(service, request, j)
                      /\ executor[j].phase = "dropped" => ~held(service, request, j)
    BY DEF ExecutorLivesWhileHeld
  <2>1. Alive(executor[j]) => held(service, request, j)
    BY DEF IndInv, NobodyIsForgotten
  <2>2. executor[j].phase = "dropped" => ~held(service, request, j)
    BY DEF IndInv, OneOwner, held, waits, Alive
  <2> QED
    BY <2>1, <2>2
<1> QED
  BY <1>1, JobInvariance, PTL

\* No job is inside a step, with a hook or its step function, before the setup of the step
\* is over, for a pipeline of any length.
THEOREM SetupComesFirst == Spec => []StepsAreSetUpFirst
<1>1. IndInv => StepsAreSetUpFirst
  <2> SUFFICES ASSUME IndInv, NEW j \in Jobs
               PROVE  executor[j].step <= builder.done
    BY DEF StepsAreSetUpFirst
  <2>1. executor[j].step \in Instances /\ builder.done \in Instances
    BY DEF IndInv, TypeOK, Executors, Builders
  <2>2. CASE executor[j].phase = "absent"
    <3>1. executor[j].step = 0
      BY <2>2 DEF IndInv, StepsOfTheLiving, Alive, NoInstance
    <3> QED
      BY <2>1, <3>1 DEF Instances
  <2>3. CASE executor[j].phase # "absent"
    <3>1. builder.done = NumSteps
      BY <2>3 DEF IndInv, SetupInOrder
    <3> QED
      BY <2>1, <3>1 DEF Instances
  <2> QED
    BY <2>2, <2>3
<1> QED
  BY <1>1, JobInvariance, PTL
=============================================================================
