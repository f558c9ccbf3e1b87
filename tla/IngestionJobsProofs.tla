------------------------ MODULE IngestionJobsProofs ------------------------
(***************************************************************************)
(* Proofs about the ingestion queue for any number of jobs, kinds, workers *)
(* and requests and any number of faults: the shapes of the variables, the *)
(* exclusiveness of claims, the order in which jobs of a kind are claimed, *)
(* how many jobs faults can strand, that the table implements JobQueue,    *)
(* and that no job is taken where the route of claimNext is shadowed.      *)
(***************************************************************************)
EXTENDS IngestionJobs, FiniteSetTheorems, TLAPS

\* A handler that works on a job has one, knows its worker and its verdict.
SlotsFilled ==
    \A s \in Slots :
        /\ slots[s].op \in {"audit", "claim", "gotJob", "check", "update"} => slots[s].job \in Jobs
        /\ slots[s].op \in {"select", "claim", "gotJob", "check", "update"} => slots[s].worker \in Workers
        /\ slots[s].op = "select" => slots[s].kind \in Kinds
        /\ slots[s].op \in {"check", "update"} => slots[s].verdict \in {"completed", "failed"}

WorkersFilled == \A w \in Workers : workers[w].pc = "working" => workers[w].job \in Jobs

\* The row lock: a claim in its transaction has its pending job to itself.
LocksHeld ==
    \A s, t \in Slots :
        slots[s].op = "claim" =>
            /\ jobs[slots[s].job].status = "pending"
            /\ (slots[t].op = "claim" /\ slots[t].job = slots[s].job) => s = t

\* Nobody owns a job that was not claimed.
OwnedOnceClaimed ==
    \A j \in Jobs : jobs[j].status \in {"absent", "pending"} => jobs[j].claimedBy = NULL

\* The inductive invariant.
Inv == TypeOK /\ SlotsFilled /\ WorkersFilled /\ LocksHeld /\ OwnedOnceClaimed /\ ExclusiveClaim

-----------------------------------------------------------------------------
\* The empty table and workers that poll for their first kind of job satisfy the invariant.
LEMMA InitInv == Init => Inv
  <1> SUFFICES ASSUME Init PROVE Inv
    OBVIOUS
  <1>1. Len(HandlerKinds) \in Nat /\ 1 \in 1..Len(HandlerKinds)
    BY ConstantsAssumption
  <1>2. TypeOK
    BY <1>1, ConstantsAssumption DEF Init, TypeOK, NoJob, Job, Free, Slot, Ops, Polling, Worker
  <1> QED
    BY <1>2 DEF Init, Inv, SlotsFilled, WorkersFilled, LocksHeld, OwnedOnceClaimed,
                ExclusiveClaim, CarriedBySlot, CarriedByWorker, NoJob, Free, Polling

\* A slot becomes free and nothing else of importance changes.
LEMMA SlotEnds ==
  ASSUME Inv, NEW s \in Slots, NEW k \in Slot,
         k.op \in {"idle", "error", "gotNothing", "done"},
         slots' = [slots EXCEPT ![s] = k],
         UNCHANGED <<jobs, workers>>
  PROVE  /\ slots' \in [Slots -> Slot]
         /\ SlotsFilled' /\ WorkersFilled' /\ LocksHeld' /\ OwnedOnceClaimed' /\ ExclusiveClaim'
  <1>1. slots \in [Slots -> Slot]
    BY DEF Inv, TypeOK
  <1>2. slots' \in [Slots -> Slot]
    BY <1>1
  <1>3. slots'[s] = k /\ \A t \in Slots \ {s} : slots'[t] = slots[t]
    BY <1>1
  <1>4. SlotsFilled'
    BY <1>3 DEF Inv, SlotsFilled
  <1>5. LocksHeld'
    BY <1>3 DEF Inv, LocksHeld
  <1>6. ExclusiveClaim'
    BY <1>3 DEF Inv, ExclusiveClaim, CarriedBySlot, CarriedByWorker
  <1> QED
    BY <1>2, <1>4, <1>5, <1>6 DEF Inv, WorkersFilled, OwnedOnceClaimed

\* A slot that is freed lets go of a job that is only put, never of a claim.
LEMMA AuditEnqueueStep ==
  ASSUME Inv, NEW s \in Slots, AuditEnqueue(s) \/ EnqueueFails(s)
  PROVE  Inv'
  <1>1. Free \in Slot /\ Free.op = "idle"
    BY DEF Free, Slot, Ops
  <1>2. slots' = [slots EXCEPT ![s] = Free] /\ UNCHANGED <<jobs, workers, now, deaths>>
    BY DEF AuditEnqueue, EnqueueFails
  <1>3. audited' \subseteq Jobs /\ fails' \in 0..MaxFails
    BY ConstantsAssumption DEF AuditEnqueue, EnqueueFails, Inv, TypeOK, SlotsFilled
  <1> QED
    BY <1>1, <1>2, <1>3, SlotEnds DEF Inv, TypeOK

\* A handler that throws forgets its job; a lock it held goes with its transaction.
LEMMA RequestFailsStep ==
  ASSUME Inv, NEW s \in Slots, RequestFails(s)
  PROVE  Inv'
  <1> DEFINE k == [slots[s] EXCEPT !.op = "error", !.job = NULL]
  <1>1. slots \in [Slots -> Slot]
    BY DEF Inv, TypeOK
  <1>2. k \in Slot /\ k.op = "error"
    BY <1>1 DEF Slot, Ops
  <1>3. slots' = [slots EXCEPT ![s] = k] /\ UNCHANGED <<jobs, workers, now, audited, deaths>>
    BY DEF RequestFails
  <1>4. fails' \in 0..MaxFails
    BY ConstantsAssumption DEF RequestFails, Inv, TypeOK
  <1> HIDE DEF k
  <1> QED
    BY <1>2, <1>3, <1>4, SlotEnds DEF Inv, TypeOK

\* A new row is nobody's, and no claim holds a row that was not there.
LEMMA CreateJobStep ==
  ASSUME Inv, NEW s \in Slots, NEW j \in Jobs, NEW k \in Kinds, CreateJob(s, j, k)
  PROVE  Inv'
  <1>1. PICK t \in {now, now + 1} :
          /\ now' = t
          /\ jobs' = [jobs EXCEPT ![j] = [kind |-> k, createdAt |-> t, status |-> "pending",
                                          claimedBy |-> NULL, attempts |-> 0]]
    BY DEF CreateJob
  <1>2. /\ slots' = [slots EXCEPT ![s] = [Free EXCEPT !.op = "audit", !.job = j]]
        /\ UNCHANGED <<audited, workers, fails, deaths>>
        /\ jobs[j].status = "absent"
    BY DEF CreateJob
  <1>3. jobs \in [Jobs -> Job] /\ slots \in [Slots -> Slot] /\ now \in Nat
    BY DEF Inv, TypeOK
  <1>4. /\ jobs'[j].status = "pending" /\ jobs'[j].claimedBy = NULL
        /\ \A i \in Jobs \ {j} : jobs'[i] = jobs[i]
    BY <1>1, <1>3
  <1>5. /\ slots'[s].op = "audit" /\ slots'[s].job = j
        /\ \A u \in Slots \ {s} : slots'[u] = slots[u]
    BY <1>2, <1>3 DEF Free
  <1>6. TypeOK'
    <2>1. jobs' \in [Jobs -> Job]
      <3>1. t \in Nat
        BY <1>1, <1>3
      <3>2. [kind |-> k, createdAt |-> t, status |-> "pending",
             claimedBy |-> NULL, attempts |-> 0] \in Job
        BY <3>1 DEF Job
      <3> QED
        BY <1>1, <1>3, <3>2
    <2>2. slots' \in [Slots -> Slot]
      <3>1. [Free EXCEPT !.op = "audit", !.job = j] \in Slot
        BY DEF Free, Slot, Ops
      <3> QED
        BY <1>2, <1>3, <3>1
    <2>3. now' \in Nat
      BY <1>1, <1>3
    <2> QED
      BY <1>2, <2>1, <2>2, <2>3 DEF Inv, TypeOK
  <1>7. SlotsFilled' /\ WorkersFilled'
    BY <1>2, <1>5 DEF Inv, SlotsFilled, WorkersFilled
  <1>8. LocksHeld'
    BY <1>2, <1>4, <1>5 DEF Inv, LocksHeld, SlotsFilled
  <1>9. OwnedOnceClaimed'
    BY <1>4 DEF Inv, OwnedOnceClaimed
  <1>10. ExclusiveClaim'
    BY <1>2, <1>4, <1>5 DEF Inv, ExclusiveClaim, CarriedBySlot, CarriedByWorker
  <1> QED
    BY <1>6, <1>7, <1>8, <1>9, <1>10 DEF Inv

\* The worker's side changes to a state that carries no job.
LEMMA WorkerIdles ==
  ASSUME Inv, NEW w \in Workers, NEW k \in Worker, k.pc # "working",
         workers' = [workers EXCEPT ![w] = k],
         UNCHANGED <<jobs, slots>>
  PROVE  /\ workers' \in [Workers -> Worker]
         /\ SlotsFilled' /\ WorkersFilled' /\ LocksHeld' /\ OwnedOnceClaimed' /\ ExclusiveClaim'
  <1>1. workers \in [Workers -> Worker]
    BY DEF Inv, TypeOK
  <1>2. workers'[w] = k /\ \A v \in Workers \ {w} : workers'[v] = workers[v]
    BY <1>1
  <1>3. ExclusiveClaim'
    BY <1>2 DEF Inv, ExclusiveClaim, CarriedBySlot, CarriedByWorker
  <1> QED
    BY <1>1, <1>2, <1>3 DEF Inv, SlotsFilled, WorkersFilled, LocksHeld, OwnedOnceClaimed

\* A dead worker and one that polls have the shape of a worker.
LEMMA WorkerStates == Down \in Worker /\ (\A i \in 1..Len(HandlerKinds) : Polling(i) \in Worker)
  BY ConstantsAssumption DEF Down, Polling, Worker

\* A worker that dies or starts again is not in mid-operation on any job.
LEMMA DiesOrRestarts ==
  ASSUME Inv, NEW w \in Workers, WorkerDies(w) \/ Restart(w)
  PROVE  Inv'
  <1>1. PICK k \in {Down, Polling(1)} : workers' = [workers EXCEPT ![w] = k]
    BY DEF WorkerDies, Restart
  <1>2. k \in Worker /\ k.pc # "working"
    BY <1>1, WorkerStates, ConstantsAssumption DEF Down, Polling
  <1>3. UNCHANGED <<jobs, slots, now, audited, fails>> /\ deaths' \in 0..MaxDeaths
    BY ConstantsAssumption DEF WorkerDies, Restart, Inv, TypeOK
  <1> QED
    BY <1>1, <1>2, <1>3, WorkerIdles DEF Inv, TypeOK

\* A poll occupies a free slot on behalf of a worker that carries no job.
LEMMA PollStep ==
  ASSUME Inv, NEW w \in Workers, NEW s \in Slots, Poll(w, s)
  PROVE  Inv'
  <1>1. slots \in [Slots -> Slot] /\ workers \in [Workers -> Worker]
    BY DEF Inv, TypeOK
  <1>2. /\ slots'[s].op \in {"select", "error"} /\ slots'[s].worker = w
        /\ slots'[s].kind \in Kinds /\ slots'[s] \in Slot
        /\ \A t \in Slots \ {s} : slots'[t] = slots[t]
    <2>1. HandlerKinds[workers[w].i] \in Kinds
      BY <1>1, ConstantsAssumption DEF Worker
    <2> QED
      BY <1>1, <2>1 DEF Poll, Slot, Ops
  <1>3. /\ workers'[w].pc = "waiting" /\ workers'[w] \in Worker
        /\ \A v \in Workers \ {w} : workers'[v] = workers[v]
    BY <1>1 DEF Poll, Worker
  <1>4. UNCHANGED <<jobs, now, audited, fails, deaths>>
    BY DEF Poll
  <1>5. TypeOK'
    <2>1. slots' \in [Slots -> Slot]
      BY <1>1, <1>2 DEF Poll
    <2>2. workers' \in [Workers -> Worker]
      BY <1>1, <1>3 DEF Poll
    <2> QED
      BY <1>4, <2>1, <2>2 DEF Inv, TypeOK
  <1>6. SlotsFilled' /\ WorkersFilled'
    BY <1>2, <1>3 DEF Inv, SlotsFilled, WorkersFilled
  <1>7. LocksHeld'
    BY <1>2, <1>4 DEF Inv, LocksHeld
  <1>8. ExclusiveClaim'
    BY <1>2, <1>3, <1>4 DEF Inv, ExclusiveClaim, CarriedBySlot, CarriedByWorker
  <1> QED
    BY <1>4, <1>5, <1>6, <1>7, <1>8 DEF Inv, OwnedOnceClaimed

\* The SELECT hands out a pending row that no other claim holds.
LEMMA SelectStep ==
  ASSUME Inv, NEW s \in Slots, SelectForUpdate(s)
  PROVE  Inv'
  <1>1. slots \in [Slots -> Slot] /\ slots[s].op = "select" /\ slots[s].worker \in Workers
    BY DEF Inv, TypeOK, SelectForUpdate, SlotsFilled
  <1>2. UNCHANGED <<jobs, now, audited, workers, fails, deaths>>
    BY DEF SelectForUpdate
  <1>3. CASE slots' = [slots EXCEPT ![s] = [@ EXCEPT !.op = "gotNothing"]]
    <2> DEFINE k == [slots[s] EXCEPT !.op = "gotNothing"]
    <2>1. k \in Slot /\ k.op = "gotNothing"
      BY <1>1 DEF Slot, Ops
    <2>2. slots' = [slots EXCEPT ![s] = k]
      BY <1>3
    <2> HIDE DEF k
    <2> QED
      BY <1>2, <2>1, <2>2, SlotEnds DEF Inv, TypeOK
  <1>4. ASSUME NEW j \in NextPending(slots[s].kind),
               slots' = [slots EXCEPT ![s] = [@ EXCEPT !.op = "claim", !.job = j]]
        PROVE  Inv'
    <2>1. j \in Jobs /\ jobs[j].status = "pending" /\ ~Locked(j)
      BY <1>4 DEF NextPending, Claimable
    <2>2. /\ slots'[s].op = "claim" /\ slots'[s].job = j
          /\ slots'[s].worker = slots[s].worker /\ slots'[s] \in Slot
          /\ \A t \in Slots \ {s} : slots'[t] = slots[t]
      BY <1>1, <1>4, <2>1 DEF Slot, Ops
    <2>3. TypeOK'
      <3>1. slots' \in [Slots -> Slot]
        BY <1>1, <1>4, <2>1 DEF Slot, Ops
      <3> QED
        BY <1>2, <3>1 DEF Inv, TypeOK
    <2>4. SlotsFilled' /\ WorkersFilled'
      BY <1>1, <1>2, <2>1, <2>2 DEF Inv, SlotsFilled, WorkersFilled
    <2>5. LocksHeld'
      BY <1>2, <2>1, <2>2 DEF Inv, LocksHeld, Locked
    <2>6. ExclusiveClaim'
      BY <1>2, <2>2 DEF Inv, ExclusiveClaim, CarriedBySlot, CarriedByWorker
    <2> QED
      BY <1>2, <2>3, <2>4, <2>5, <2>6 DEF Inv, OwnedOnceClaimed
  <1> QED
    BY <1>3, <1>4 DEF SelectForUpdate

\* The commit: the job leaves "pending", so nobody carried it before, and no
\* other claim holds it.
LEMMA ClaimNextStep ==
  ASSUME Inv, NEW s \in Slots, ClaimNext(s)
  PROVE  Inv'
  <1> DEFINE j == slots[s].job
             w == slots[s].worker
  <1>1. slots \in [Slots -> Slot] /\ jobs \in [Jobs -> Job]
    BY DEF Inv, TypeOK
  <1>2. slots[s].op = "claim" /\ j \in Jobs /\ w \in Workers /\ jobs[j].status = "pending"
    BY DEF ClaimNext, Inv, SlotsFilled, LocksHeld
  <1>3. /\ jobs'[j].status = "processing" /\ jobs'[j].claimedBy = w /\ jobs'[j] \in Job
        /\ \A i \in Jobs \ {j} : jobs'[i] = jobs[i]
    <2>1. jobs[j] \in Job
      BY <1>1, <1>2
    <2>2. /\ Claimed(jobs[j], w).status = "processing" /\ Claimed(jobs[j], w).claimedBy = w
          /\ Claimed(jobs[j], w) \in Job
      BY <1>2, <2>1 DEF Claimed, Job
    <2>3. jobs' = [jobs EXCEPT ![j] = Claimed(jobs[j], w)]
      BY DEF ClaimNext
    <2> QED
      BY <1>1, <1>2, <2>2, <2>3
  <1>4. /\ slots'[s].op = "gotJob" /\ slots'[s].job = j /\ slots'[s].worker = w
        /\ slots'[s] \in Slot
        /\ \A t \in Slots \ {s} : slots'[t] = slots[t]
    BY <1>1 DEF ClaimNext, Slot, Ops
  <1>5. UNCHANGED <<now, audited, workers, fails, deaths>>
    BY DEF ClaimNext
  <1>6. TypeOK'
    <2>1. jobs' \in [Jobs -> Job]
      BY <1>1, <1>2, <1>3 DEF ClaimNext
    <2>2. slots' \in [Slots -> Slot]
      BY <1>1, <1>4 DEF ClaimNext
    <2> QED
      BY <1>5, <2>1, <2>2 DEF Inv, TypeOK
  <1> HIDE DEF j, w
  <1>7. SlotsFilled' /\ WorkersFilled'
    BY <1>2, <1>4, <1>5 DEF Inv, SlotsFilled, WorkersFilled
  <1>8. LocksHeld'
    <2>1. \A t \in Slots \ {s} : slots[t].op = "claim" => slots[t].job # j /\ slots[t].job \in Jobs
      BY <1>2 DEF Inv, LocksHeld, SlotsFilled, j
    <2> QED
      BY <1>3, <1>4, <2>1 DEF Inv, LocksHeld
  <1>9. OwnedOnceClaimed'
    BY <1>3 DEF Inv, OwnedOnceClaimed
  <1>10. ExclusiveClaim'
    <2>1. \A t \in Slots : ~CarriedBySlot(t, j)
      BY <1>2 DEF Inv, ExclusiveClaim
    <2>2. \A v \in Workers : ~CarriedByWorker(v, j)
      BY <1>2 DEF Inv, ExclusiveClaim
    <2> QED
      BY <1>2, <1>3, <1>4, <1>5, <2>1, <2>2
      DEF Inv, ExclusiveClaim, CarriedBySlot, CarriedByWorker
  <1> QED
    BY <1>6, <1>7, <1>8, <1>9, <1>10 DEF Inv

\* The worker hands the job over to its report.
LEMMA WorkStep ==
  ASSUME Inv, NEW w \in Workers, NEW s \in Slots, Work(w, s)
  PROVE  Inv'
  <1> DEFINE j == workers[w].job
  <1>1. slots \in [Slots -> Slot] /\ workers \in [Workers -> Worker]
    BY DEF Inv, TypeOK
  <1>2. workers[w].pc = "working" /\ slots[s].op = "idle" /\ j \in Jobs
    BY DEF Work, Inv, WorkersFilled
  <1>3. PICK v \in {"completed", "failed"} :
          slots' = [slots EXCEPT ![s] = [op |-> "check", worker |-> w, kind |-> NULL,
                                         job |-> j, verdict |-> v]]
    BY DEF Work, Verdicts
  <1>4. /\ slots'[s].op = "check" /\ slots'[s].job = j /\ slots'[s].worker = w
        /\ slots'[s].verdict = v /\ slots'[s] \in Slot
        /\ \A t \in Slots \ {s} : slots'[t] = slots[t]
    BY <1>1, <1>2, <1>3 DEF Slot, Ops
  <1>5. /\ workers'[w].pc = "waiting" /\ workers'[w] \in Worker
        /\ \A u \in Workers \ {w} : workers'[u] = workers[u]
    BY <1>1 DEF Work, Worker
  <1>6. UNCHANGED <<jobs, now, audited, fails, deaths>>
    BY DEF Work
  <1>7. TypeOK'
    <2>1. slots' \in [Slots -> Slot]
      BY <1>1, <1>3, <1>4
    <2>2. workers' \in [Workers -> Worker]
      BY <1>1, <1>5 DEF Work
    <2> QED
      BY <1>6, <2>1, <2>2 DEF Inv, TypeOK
  <1> HIDE DEF j
  <1>8. SlotsFilled' /\ WorkersFilled'
    BY <1>2, <1>3, <1>4, <1>5 DEF Inv, SlotsFilled, WorkersFilled
  <1>9. LocksHeld'
    BY <1>4, <1>6 DEF Inv, LocksHeld
  <1>10. ExclusiveClaim'
    <2>1. CarriedByWorker(w, j)
      BY <1>2 DEF CarriedByWorker, j
    <2>2. /\ \A t \in Slots : ~CarriedBySlot(t, j)
          /\ \A u \in Workers \ {w} : ~CarriedByWorker(u, j)
          /\ jobs[j].status = "processing" /\ jobs[j].claimedBy = w
      BY <1>2, <2>1 DEF Inv, ExclusiveClaim
    <2> QED
      BY <1>2, <1>4, <1>5, <1>6, <2>2
      DEF Inv, ExclusiveClaim, CarriedBySlot, CarriedByWorker
  <1> QED
    BY <1>6, <1>7, <1>8, <1>9, <1>10 DEF Inv, OwnedOnceClaimed

\* complete and fail read the row, then go on to their update or throw; no claim changes.
LEMMA CheckStep ==
  ASSUME Inv, NEW s \in Slots, CheckProcessing(s)
  PROVE  Inv'
  <1>1. slots \in [Slots -> Slot] /\ slots[s].op = "check"
    BY DEF Inv, TypeOK, CheckProcessing
  <1>2. UNCHANGED <<jobs, now, audited, workers, fails, deaths>>
    BY DEF CheckProcessing
  <1>3. PICK o \in {"update", "error"} : slots' = [slots EXCEPT ![s] = [@ EXCEPT !.op = o]]
    BY DEF CheckProcessing
  <1>4. /\ slots'[s].op = o /\ slots'[s].job = slots[s].job
        /\ slots'[s].worker = slots[s].worker /\ slots'[s].verdict = slots[s].verdict
        /\ slots'[s] \in Slot
        /\ \A t \in Slots \ {s} : slots'[t] = slots[t]
    BY <1>1, <1>3 DEF Slot, Ops
  <1>5. TypeOK'
    <2>1. slots' \in [Slots -> Slot]
      BY <1>1, <1>3, <1>4
    <2> QED
      BY <1>2, <2>1 DEF Inv, TypeOK
  <1>6. SlotsFilled' /\ WorkersFilled'
    BY <1>1, <1>2, <1>3, <1>4 DEF Inv, SlotsFilled, WorkersFilled
  <1>7. LocksHeld'
    BY <1>2, <1>3, <1>4 DEF Inv, LocksHeld
  <1>8. ExclusiveClaim'
    BY <1>1, <1>2, <1>3, <1>4 DEF Inv, ExclusiveClaim, CarriedBySlot, CarriedByWorker
  <1> QED
    BY <1>2, <1>5, <1>6, <1>7, <1>8 DEF Inv, OwnedOnceClaimed

\* The unguarded write finds the job processing, because its report is the
\* only one there can be.
LEMMA WriteStep ==
  ASSUME Inv, NEW s \in Slots, WriteVerdict(s)
  PROVE  Inv'
  <1> DEFINE j == slots[s].job
  <1>1. slots \in [Slots -> Slot] /\ jobs \in [Jobs -> Job]
    BY DEF Inv, TypeOK
  <1>2. slots[s].op = "update" /\ j \in Jobs /\ slots[s].verdict \in {"completed", "failed"}
    BY DEF WriteVerdict, Inv, SlotsFilled
  <1>3. CarriedBySlot(s, j)
    BY <1>2 DEF CarriedBySlot
  <1>4. /\ \A t \in Slots \ {s} : ~CarriedBySlot(t, j)
        /\ \A v \in Workers : ~CarriedByWorker(v, j)
        /\ jobs[j].status = "processing"
    BY <1>2, <1>3 DEF Inv, ExclusiveClaim
  <1>5. /\ jobs'[j].status = slots[s].verdict /\ jobs'[j].claimedBy = jobs[j].claimedBy
        /\ jobs'[j] \in Job
        /\ \A i \in Jobs \ {j} : jobs'[i] = jobs[i]
    BY <1>1, <1>2 DEF WriteVerdict, Job
  <1>6. /\ slots'[s].op = "done" /\ slots'[s] \in Slot
        /\ \A t \in Slots \ {s} : slots'[t] = slots[t]
    BY <1>1 DEF WriteVerdict, Slot, Ops
  <1>7. UNCHANGED <<now, audited, workers, fails, deaths>>
    BY DEF WriteVerdict
  <1>8. TypeOK'
    <2>1. jobs' \in [Jobs -> Job]
      BY <1>1, <1>2, <1>5 DEF WriteVerdict
    <2>2. slots' \in [Slots -> Slot]
      BY <1>1, <1>6 DEF WriteVerdict
    <2> QED
      BY <1>7, <2>1, <2>2 DEF Inv, TypeOK
  <1> HIDE DEF j
  <1>9. SlotsFilled' /\ WorkersFilled'
    BY <1>6, <1>7 DEF Inv, SlotsFilled, WorkersFilled
  <1>10. LocksHeld'
    <2>1. \A t \in Slots : slots[t].op = "claim" => slots[t].job # j /\ slots[t].job \in Jobs
      BY <1>4 DEF Inv, LocksHeld, SlotsFilled
    <2> QED
      BY <1>5, <1>6, <2>1 DEF Inv, LocksHeld
  <1>11. OwnedOnceClaimed'
    BY <1>2, <1>5 DEF Inv, OwnedOnceClaimed
  <1>12. ExclusiveClaim'
    BY <1>2, <1>4, <1>5, <1>6, <1>7 DEF Inv, ExclusiveClaim, CarriedBySlot, CarriedByWorker
  <1> QED
    BY <1>8, <1>9, <1>10, <1>11, <1>12 DEF Inv

\* The answer with a job passes it from the request to the worker that waits.
LEMMA AnswerStep ==
  ASSUME Inv, NEW s \in Slots, Answer(s)
  PROVE  Inv'
  <1> DEFINE w == slots[s].worker
             j == slots[s].job
  <1>1. slots \in [Slots -> Slot] /\ workers \in [Workers -> Worker] /\ jobs \in [Jobs -> Job]
    BY DEF Inv, TypeOK
  <1>2. slots' = [slots EXCEPT ![s] = Free] /\ UNCHANGED <<jobs, now, audited, fails, deaths>>
    BY DEF Answer
  <1>3. Free \in Slot /\ Free.op = "idle"
    BY DEF Free, Slot, Ops
  <1>4. slots'[s].op = "idle" /\ \A t \in Slots \ {s} : slots'[t] = slots[t]
    BY <1>1, <1>2, <1>3
  <1>5. slots' \in [Slots -> Slot]
    BY <1>1, <1>2, <1>3
  <1>6. SlotsFilled' /\ LocksHeld' /\ OwnedOnceClaimed'
    BY <1>2, <1>4 DEF Inv, SlotsFilled, LocksHeld, OwnedOnceClaimed
  <1>7. CASE ~Waiting(s)
    <2>1. workers' = workers
      BY <1>7 DEF Answer
    <2>2. ExclusiveClaim'
      BY <1>2, <1>4, <2>1 DEF Inv, ExclusiveClaim, CarriedBySlot, CarriedByWorker
    <2> QED
      BY <1>2, <1>5, <1>6, <2>1, <2>2 DEF Inv, TypeOK, WorkersFilled
  <1>8. CASE Waiting(s)
    <2>1. w \in Workers
      BY <1>1, <1>8 DEF Waiting, Slot
    <2>2. workers' = [workers EXCEPT ![w] = OnAnswer(w, s)]
      BY <1>8 DEF Answer
    <2>3. /\ OnAnswer(w, s) \in Worker
          /\ OnAnswer(w, s).pc = "working" => slots[s].op = "gotJob" /\ OnAnswer(w, s).job = j
      <3>1. CASE slots[s].op = "gotJob"
        <4>1. workers[w] \in Worker /\ j \in Jobs
          BY <1>1, <2>1, <3>1 DEF Inv, SlotsFilled
        <4> QED
          BY <3>1, <4>1 DEF OnAnswer, Worker
      <3>2. CASE slots[s].op # "gotJob"
        <4>1. PICK i \in 1..Len(HandlerKinds) : OnAnswer(w, s) = Polling(i)
          <5>1. workers[w].i \in 1..Len(HandlerKinds) /\ Len(HandlerKinds) \in Nat
                /\ 1 \in 1..Len(HandlerKinds)
            BY <1>1, <2>1, ConstantsAssumption DEF Worker
          <5>2. NextKind(workers[w].i) \in 1..Len(HandlerKinds)
            BY <5>1 DEF NextKind
          <5> QED
            BY <3>2, <5>1, <5>2 DEF OnAnswer
        <4> QED
          BY <4>1, WorkerStates DEF Polling
      <3> QED
        BY <3>1, <3>2
    <2>4. workers'[w] = OnAnswer(w, s) /\ \A v \in Workers \ {w} : workers'[v] = workers[v]
      BY <1>1, <2>1, <2>2
    <2>5. workers' \in [Workers -> Worker]
      BY <1>1, <2>2, <2>3
    <2>6. slots[s].op = "gotJob" =>
            /\ j \in Jobs
            /\ jobs[j].status = "processing" /\ jobs[j].claimedBy = w
            /\ \A t \in Slots \ {s} : ~CarriedBySlot(t, j)
            /\ \A v \in Workers : ~CarriedByWorker(v, j)
      <3> SUFFICES ASSUME slots[s].op = "gotJob"
                   PROVE  /\ j \in Jobs
                          /\ jobs[j].status = "processing" /\ jobs[j].claimedBy = w
                          /\ \A t \in Slots \ {s} : ~CarriedBySlot(t, j)
                          /\ \A v \in Workers : ~CarriedByWorker(v, j)
        OBVIOUS
      <3>1. j \in Jobs /\ CarriedBySlot(s, j)
        BY DEF Inv, SlotsFilled, CarriedBySlot
      <3> QED
        BY <3>1 DEF Inv, ExclusiveClaim
    <2> HIDE DEF w, j
    <2>7. WorkersFilled'
      BY <2>1, <2>3, <2>4, <2>6 DEF Inv, WorkersFilled
    <2>8. ExclusiveClaim'
      BY <1>2, <1>4, <2>1, <2>3, <2>4, <2>6
      DEF Inv, ExclusiveClaim, CarriedBySlot, CarriedByWorker
    <2> QED
      BY <1>2, <1>5, <1>6, <2>5, <2>7, <2>8 DEF Inv, TypeOK
  <1> QED
    BY <1>7, <1>8

-----------------------------------------------------------------------------
\* Every step of the handlers and of the worker loops preserves the invariant.
LEMMA NextInv == Inv /\ [Next]_vars => Inv'
  <1> SUFFICES ASSUME Inv, [Next]_vars PROVE Inv'
    OBVIOUS
  <1>1. CASE UNCHANGED vars
    BY <1>1 DEF vars, Inv, TypeOK, SlotsFilled, WorkersFilled, LocksHeld, OwnedOnceClaimed,
                ExclusiveClaim, CarriedBySlot, CarriedByWorker
  <1>2. ASSUME NEW s \in Slots, Handle(s) \/ RequestFails(s) \/ EnqueueFails(s)
        PROVE  Inv'
    BY <1>2, AuditEnqueueStep, SelectStep, ClaimNextStep, CheckStep, WriteStep, AnswerStep,
       RequestFailsStep DEF Handle
  <1>3. ASSUME NEW s \in Slots, NEW j \in Jobs, NEW k \in Kinds, CreateJob(s, j, k)
        PROVE  Inv'
    BY <1>3, CreateJobStep
  <1>4. ASSUME NEW w \in Workers, Loop(w) \/ WorkerDies(w)
        PROVE  Inv'
    BY <1>4, DiesOrRestarts, PollStep, WorkStep DEF Loop
  <1> QED
    BY <1>1, <1>2, <1>3, <1>4 DEF Next

\* The inductive invariant holds in every reachable state.
THEOREM Invariance == Spec => []Inv
  <1> QED
    BY InitInv, NextInv, PTL DEF Spec

\* Whatever the claims, late handlers, deaths and restarts, the variables
\* keep their shapes.
THEOREM TypeCorrect == Spec => []TypeOK
  <1>1. Inv => TypeOK
    BY DEF Inv
  <1> QED
    BY <1>1, Invariance, PTL

\* claimNext: two workers never hold the same job, and a verdict is written
\* only for a job that is still processing.
THEOREM ClaimsAreExclusive == Spec => []ExclusiveClaim
  <1>1. Inv => ExclusiveClaim
    BY DEF Inv
  <1> QED
    BY <1>1, Invariance, PTL

-----------------------------------------------------------------------------
(* Refinement: every step of the handlers is a step of the abstract queue   *)
(* or leaves what it shows unchanged.                                       *)

LEMMA QueueInit == Init => Queue!QInit
  BY DEF Init, Queue!QInit, NoJob

\* A step that writes a row is the put, take or finish of the abstract queue; any other stutters.
LEMMA QueueStep == Inv /\ [Next]_vars => [Queue!QNext]_(Queue!qvars)
  <1> SUFFICES ASSUME Inv, [Next]_vars PROVE [Queue!QNext]_(Queue!qvars)
    OBVIOUS
  <1>0. jobs \in [Jobs -> Job]
    BY DEF Inv, TypeOK
  <1>1. CASE jobs' = jobs
    BY <1>1 DEF Queue!qvars
  <1>2. ASSUME NEW s \in Slots, NEW j \in Jobs, NEW k \in Kinds, CreateJob(s, j, k)
        PROVE  Queue!Put(j)
    <2>1. PICK t \in {now, now + 1} :
            jobs' = [jobs EXCEPT ![j] = [kind |-> k, createdAt |-> t, status |-> "pending",
                                         claimedBy |-> NULL, attempts |-> 0]]
      BY <1>2 DEF CreateJob
    <2>2. jobs[j].status = "absent" /\ jobs[j].claimedBy = NULL
      BY <1>2 DEF CreateJob, Inv, OwnedOnceClaimed
    <2> QED
      BY <1>0, <2>1, <2>2 DEF Queue!Put
  <1>3. ASSUME NEW s \in Slots, ClaimNext(s)
        PROVE  \E j \in Jobs, w \in Workers : Queue!Take(j, w)
    <2>1. slots[s].job \in Jobs /\ slots[s].worker \in Workers /\ jobs[slots[s].job].status = "pending"
      BY <1>3 DEF ClaimNext, Inv, SlotsFilled, LocksHeld
    <2>2. PICK j \in Jobs, w \in Workers : j = slots[s].job /\ w = slots[s].worker
      BY <2>1
    <2>3. jobs' = [jobs EXCEPT ![j] = Claimed(jobs[j], w)]
      BY <1>3, <2>2 DEF ClaimNext
    <2>4. Queue!Take(j, w)
      BY <1>0, <2>1, <2>2, <2>3 DEF Claimed, Queue!Take
    <2> QED
      BY <2>4
  <1>4. ASSUME NEW s \in Slots, WriteVerdict(s)
        PROVE  \E j \in Jobs, v \in {"completed", "failed"} : Queue!Finish(j, v)
    <2>1. /\ slots[s].job \in Jobs /\ slots[s].verdict \in {"completed", "failed"}
          /\ jobs[slots[s].job].status = "processing"
      BY <1>4 DEF WriteVerdict, Inv, SlotsFilled, ExclusiveClaim, CarriedBySlot
    <2>2. PICK j \in Jobs, v \in {"completed", "failed"} : j = slots[s].job /\ v = slots[s].verdict
      BY <2>1
    <2>3. jobs[j] \in Job /\ jobs' = [jobs EXCEPT ![j] = [jobs[j] EXCEPT !.status = v]]
      BY <1>0, <1>4, <2>2 DEF WriteVerdict
    <2>4. Queue!Finish(j, v)
      BY <1>0, <2>1, <2>2, <2>3 DEF Job, Queue!Finish
    <2> QED
      BY <2>4
  <1>5. \/ jobs' = jobs
        \/ \E s \in Slots : ClaimNext(s) \/ WriteVerdict(s)
        \/ \E s \in Slots, j \in Jobs, k \in Kinds : CreateJob(s, j, k)
    BY DEF Next, vars, Handle, Loop, AuditEnqueue, SelectForUpdate, CheckProcessing, Answer,
           RequestFails, EnqueueFails, Poll, Work, WorkerDies, Restart
  <1>6. CASE \E s \in Slots, j \in Jobs, k \in Kinds : CreateJob(s, j, k)
    BY <1>2, <1>6, Zenon DEF Queue!QNext
  <1>7. ASSUME NEW s \in Slots, ClaimNext(s) PROVE Queue!QNext
    BY <1>3, <1>7 DEF Queue!QNext
  <1>8. ASSUME NEW s \in Slots, WriteVerdict(s) PROVE Queue!QNext
    BY <1>4, <1>8 DEF Queue!QNext
  <1> QED
    BY <1>1, <1>5, <1>6, <1>7, <1>8

\* The IngestionJob table implements the abstract queue: a job is put once,
\* given to one worker and finished once.
THEOREM Refinement == Spec => ImplementsQueue
  <1> QED
    BY QueueInit, QueueStep, Invariance, PTL DEF Spec, ImplementsQueue, Queue!QSpec

-----------------------------------------------------------------------------
(* The order of claims.                                                     *)

\* The clock has passed every row that exists.
ClockAhead == \A j \in Jobs : jobs[j].status # "absent" => jobs[j].createdAt <= now

\* j was taken from the queue: its claim is committed, or in its transaction.
Begun(j) == jobs[j].status \in {"processing", "completed", "failed"} \/ Locked(j)

\* i waits in front of j.
Before(i, j) ==
    /\ jobs[i].status = "pending"
    /\ jobs[i].kind = jobs[j].kind
    /\ jobs[i].createdAt < jobs[j].createdAt

\* NoOvertaking, made inductive: already the SELECT takes a job only when
\* the older ones of its kind are locked.
OldestFirst == fails = 0 => \A i, j \in Jobs : Before(i, j) /\ Begun(j) => Locked(i)

OrderInv == ClockAhead /\ OldestFirst


\* A step that leaves the table, the clock and the claims in their
\* transactions as they are keeps the order.
LEMMA LocksStay ==
  ASSUME OrderInv, UNCHANGED <<jobs, now>>, fails' = 0 => fails = 0,
         \A s \in Slots : slots[s].op = "claim" \/ slots'[s].op = "claim" => slots'[s] = slots[s]
  PROVE  OrderInv'
  <1>1. \A j \in Jobs : Locked(j)' <=> Locked(j)
    BY DEF Locked
  <1>2. \A i, j \in Jobs : (Before(i, j)' <=> Before(i, j)) /\ (Begun(j)' <=> Begun(j))
    BY <1>1 DEF Before, Begun
  <1> QED
    BY <1>1, <1>2 DEF OrderInv, ClockAhead, OldestFirst

\* The new row is at least as young as every other one, and not begun.
LEMMA CreateKeepsOrder ==
  ASSUME Inv, OrderInv, NEW s \in Slots, NEW j \in Jobs, NEW k \in Kinds, CreateJob(s, j, k)
  PROVE  OrderInv'
  <1>1. PICK t \in {now, now + 1} :
          /\ now' = t
          /\ jobs' = [jobs EXCEPT ![j] = [kind |-> k, createdAt |-> t, status |-> "pending",
                                          claimedBy |-> NULL, attempts |-> 0]]
    BY DEF CreateJob
  <1>2. jobs \in [Jobs -> Job] /\ now \in Nat /\ slots \in [Slots -> Slot]
    BY DEF Inv, TypeOK
  <1>3. /\ jobs'[j].status = "pending" /\ jobs'[j].createdAt = t
        /\ \A i \in Jobs \ {j} : jobs'[i] = jobs[i]
        /\ t \in Nat /\ now <= t
    BY <1>1, <1>2
  <1>4. \A i \in Jobs : jobs[i].createdAt \in Nat
    BY <1>2 DEF Job
  <1>5. ClockAhead'
    BY <1>1, <1>2, <1>3, <1>4 DEF OrderInv, ClockAhead
  <1>6. \A i \in Jobs : Locked(i)' <=> Locked(i)
    <2>1. slots[s].op = "idle" /\ slots'[s].op = "audit"
      BY <1>2 DEF CreateJob, Free
    <2>2. \A u \in Slots \ {s} : slots'[u] = slots[u]
      BY <1>2 DEF CreateJob
    <2> QED
      BY <2>1, <2>2 DEF Locked
  <1>7. ~Begun(j)'
    <2>1. ~Locked(j)
      BY DEF Inv, LocksHeld, Locked, CreateJob
    <2> QED
      BY <1>3, <1>6, <2>1 DEF Begun
  <1>8. ASSUME fails' = 0, NEW i \in Jobs, NEW l \in Jobs, Before(i, l)', Begun(l)'
        PROVE  Locked(i)'
    <2>1. l # j /\ Begun(l) /\ jobs'[l] = jobs[l]
      BY <1>3, <1>6, <1>7, <1>8 DEF Begun
    <2>2. jobs[l].status # "absent" /\ jobs[l].createdAt <= now
      BY <2>1 DEF Begun, Inv, LocksHeld, Locked, OrderInv, ClockAhead
    <2>3. i # j
      BY <1>2, <1>3, <1>4, <1>8, <2>1, <2>2 DEF Before
    <2>4. Before(i, l)
      BY <1>3, <1>8, <2>1, <2>3 DEF Before
    <2> QED
      BY <1>6, <1>8, <2>1, <2>4 DEF OrderInv, OldestFirst, CreateJob
  <1> QED
    BY <1>5, <1>8 DEF OrderInv, OldestFirst

\* ORDER BY "createdAt" ... FOR UPDATE SKIP LOCKED: a row that was passed
\* over is locked by another claim.
LEMMA SelectKeepsOrder ==
  ASSUME Inv, OrderInv, NEW s \in Slots, SelectForUpdate(s)
  PROVE  OrderInv'
  <1>1. /\ slots \in [Slots -> Slot] /\ slots[s].op = "select"
        /\ UNCHANGED <<jobs, now, fails>>
    BY DEF Inv, TypeOK, SelectForUpdate
  <1>2. CASE slots' = [slots EXCEPT ![s] = [@ EXCEPT !.op = "gotNothing"]]
    <2>1. \A u \in Slots : slots[u].op = "claim" \/ slots'[u].op = "claim" => slots'[u] = slots[u]
      BY <1>1, <1>2 DEF Slot
    <2> QED
      BY <1>1, <2>1, LocksStay
  <1>3. ASSUME NEW j \in NextPending(slots[s].kind),
               slots' = [slots EXCEPT ![s] = [@ EXCEPT !.op = "claim", !.job = j]]
        PROVE  OrderInv'
    <2>1. /\ j \in Jobs /\ jobs[j].kind = slots[s].kind
          /\ \A i \in Jobs : Claimable(i, slots[s].kind) => jobs[j].createdAt <= jobs[i].createdAt
      BY <1>3 DEF NextPending, Claimable
    <2>2. /\ slots'[s].op = "claim" /\ slots'[s].job = j
          /\ \A u \in Slots \ {s} : slots'[u] = slots[u]
      BY <1>1, <1>3 DEF Slot
    <2>3. \A i \in Jobs : Locked(i)' <=> (Locked(i) \/ i = j)
      BY <1>1, <2>2 DEF Locked
    <2>4. \A i \in Jobs : jobs[i].createdAt \in Nat
      BY DEF Inv, TypeOK, Job
    <2>5. \A i \in Jobs : Before(i, j) => Locked(i)
      BY <2>1, <2>4 DEF Before, Claimable
    <2>6. \A i, l \in Jobs : (Before(i, l)' <=> Before(i, l)) /\ (Begun(l)' => Begun(l) \/ l = j)
      BY <1>1, <2>3 DEF Before, Begun
    <2> QED
      BY <1>1, <2>3, <2>5, <2>6 DEF OrderInv, ClockAhead, OldestFirst
  <1> QED
    BY <1>2, <1>3 DEF SelectForUpdate

\* The commit takes the job out of those that wait, and the lock with it.
LEMMA CommitKeepsOrder ==
  ASSUME Inv, OrderInv, NEW s \in Slots, ClaimNext(s)
  PROVE  OrderInv'
  <1>1. slots \in [Slots -> Slot] /\ jobs \in [Jobs -> Job]
    BY DEF Inv, TypeOK
  <1>2. PICK j \in Jobs : j = slots[s].job
    BY DEF ClaimNext, Inv, SlotsFilled
  <1>3. slots[s].op = "claim" /\ jobs[j].status = "pending" /\ UNCHANGED <<now, fails>>
    BY <1>2 DEF ClaimNext, Inv, LocksHeld
  <1>4. /\ jobs'[j].status = "processing"
        /\ jobs'[j].kind = jobs[j].kind /\ jobs'[j].createdAt = jobs[j].createdAt
        /\ \A i \in Jobs \ {j} : jobs'[i] = jobs[i]
    BY <1>1, <1>2 DEF ClaimNext, Claimed
  <1>5. slots'[s].op = "gotJob" /\ \A t \in Slots \ {s} : slots'[t] = slots[t]
    BY <1>1 DEF ClaimNext, Slot
  <1>6. Locked(j) /\ \A i \in Jobs \ {j} : Locked(i)' <=> Locked(i)
    BY <1>2, <1>3, <1>5 DEF Locked
  <1>7. \A l \in Jobs : Begun(l)' => Begun(l)
    BY <1>4, <1>6 DEF Begun
  <1>8. \A i, l \in Jobs : Before(i, l)' => Before(i, l) /\ i # j
    BY <1>4 DEF Before
  <1>9. ClockAhead'
    BY <1>3, <1>4 DEF OrderInv, ClockAhead
  <1> QED
    BY <1>3, <1>6, <1>7, <1>8, <1>9 DEF OrderInv, OldestFirst

\* The verdict changes neither who waits nor who holds a lock.
LEMMA WriteKeepsOrder ==
  ASSUME Inv, OrderInv, NEW s \in Slots, WriteVerdict(s)
  PROVE  OrderInv'
  <1>1. slots \in [Slots -> Slot] /\ jobs \in [Jobs -> Job]
    BY DEF Inv, TypeOK
  <1>2. PICK j \in Jobs : j = slots[s].job
    BY DEF WriteVerdict, Inv, SlotsFilled
  <1>3. /\ slots[s].op = "update" /\ jobs[j].status = "processing"
        /\ slots[s].verdict \in {"completed", "failed"} /\ UNCHANGED <<now, fails>>
    BY <1>2 DEF WriteVerdict, Inv, SlotsFilled, ExclusiveClaim, CarriedBySlot
  <1>4. /\ jobs'[j].status \in {"completed", "failed"}
        /\ jobs'[j].kind = jobs[j].kind /\ jobs'[j].createdAt = jobs[j].createdAt
        /\ \A i \in Jobs \ {j} : jobs'[i] = jobs[i]
    BY <1>1, <1>2, <1>3 DEF WriteVerdict, Job
  <1>5. slots'[s].op = "done" /\ \A t \in Slots \ {s} : slots'[t] = slots[t]
    BY <1>1 DEF WriteVerdict, Slot
  <1>6. \A i \in Jobs : Locked(i)' <=> Locked(i)
    BY <1>3, <1>5 DEF Locked
  <1>7. \A i, l \in Jobs : (Before(i, l)' => Before(i, l)) /\ (Begun(l)' => Begun(l))
    BY <1>3, <1>4, <1>6 DEF Before, Begun
  <1>8. ClockAhead'
    BY <1>3, <1>4 DEF OrderInv, ClockAhead
  <1> QED
    BY <1>3, <1>6, <1>7, <1>8 DEF OrderInv, OldestFirst

\* Every step keeps the order; a claim rolled back ends it.
LEMMA OrderStep == Inv /\ OrderInv /\ [Next]_vars => OrderInv'
  <1> SUFFICES ASSUME Inv, OrderInv, [Next]_vars PROVE OrderInv'
    OBVIOUS
  <1>0. /\ slots \in [Slots -> Slot] /\ fails \in Nat
        /\ Free \in Slot /\ Free.op = "idle"
    BY ConstantsAssumption DEF Inv, TypeOK, Free, Slot, Ops
  <1>1. ASSUME NEW s \in Slots, AuditEnqueue(s) \/ CheckProcessing(s) \/ Answer(s) \/ EnqueueFails(s)
        PROVE  OrderInv'
    <2>1. /\ slots[s].op \notin {"claim", "idle"} /\ UNCHANGED <<jobs, now>>
          /\ fails' \in {fails, fails + 1}
      BY <1>1 DEF AuditEnqueue, CheckProcessing, Answer, EnqueueFails, Answers
    <2>2. slots'[s].op # "claim" /\ \A u \in Slots \ {s} : slots'[u] = slots[u]
      BY <1>0, <1>1 DEF AuditEnqueue, CheckProcessing, Answer, EnqueueFails, Free, Slot
    <2> QED
      BY <1>0, <2>1, <2>2, LocksStay
  <1>2. ASSUME NEW s \in Slots, NEW w \in Workers, Poll(w, s) \/ Work(w, s)
        PROVE  OrderInv'
    <2>1. slots[s].op = "idle" /\ UNCHANGED <<jobs, now, fails>>
      BY <1>2 DEF Poll, Work
    <2>2. slots'[s].op # "claim" /\ \A u \in Slots \ {s} : slots'[u] = slots[u]
      BY <1>0, <1>2 DEF Poll, Work
    <2> QED
      BY <2>1, <2>2, LocksStay
  <1>3. ASSUME NEW w \in Workers, Restart(w) \/ WorkerDies(w)
        PROVE  OrderInv'
    BY <1>3, LocksStay DEF Restart, WorkerDies
  <1>4. ASSUME NEW s \in Slots, RequestFails(s) PROVE OrderInv'
    BY <1>0, <1>4 DEF RequestFails, OrderInv, ClockAhead, OldestFirst
  <1>5. CASE UNCHANGED vars
    BY <1>5, LocksStay DEF vars
  <1> QED
    BY <1>1, <1>2, <1>3, <1>4, <1>5, CreateKeepsOrder, SelectKeepsOrder, CommitKeepsOrder,
       WriteKeepsOrder DEF Next, Handle, Loop

\* claimNext hands out the oldest pending job of a kind: while no claim was
\* rolled back, a younger one overtakes only a job whose own claim is being
\* committed.
THEOREM OldestJobsFirst == Spec => []NoOvertaking
  <1>1. Init => OrderInv
    BY DEF Init, OrderInv, ClockAhead, OldestFirst, Before, NoJob
  <1>2. OrderInv => NoOvertaking
    BY DEF OrderInv, OldestFirst, Before, Begun, NoOvertaking
  <1> QED
    BY <1>1, <1>2, OrderStep, Invariance, PTL DEF Spec

-----------------------------------------------------------------------------
(* What faults can strand.                                                  *)

\* The jobs nobody will finish.
Lost == {j \in Jobs : jobs[j].status = "processing" /\ ~Carried(j)}

\* The claims whose worker is gone: the job they return will be lost.
Orphans == {s \in Slots : slots[s].op \in {"select", "claim", "gotJob"} /\ ~Waiting(s)}

\* A worker waits for a request that it sent itself and that is running.
WaitsForOwn ==
    \A w \in Workers :
        workers[w].slot # NULL =>
            /\ workers[w].pc = "waiting"
            /\ slots[workers[w].slot].worker = w
            /\ slots[workers[w].slot].op \notin {"idle", "audit"}

\* OneJobPerFault, made inductive: a fault pays for a job that is lost or
\* for a claim that will lose one.
FaultsPay ==
    /\ IsFiniteSet(Lost) /\ IsFiniteSet(Orphans)
    /\ Cardinality(Lost) + Cardinality(Orphans) <= fails + deaths

LossInv == WaitsForOwn /\ FaultsPay

\* Subsets of a finite set, of one with an element more or less.
LEMMA CountSubset ==
  ASSUME NEW A, NEW B, IsFiniteSet(B), A \subseteq B
  PROVE  IsFiniteSet(A) /\ Cardinality(A) \in Nat /\ Cardinality(A) <= Cardinality(B)
  BY FS_Subset, FS_CardinalityType

\* A set that gains at most one element grows by at most one.
LEMMA CountAdded ==
  ASSUME NEW A, NEW B, NEW x, IsFiniteSet(B), A \subseteq B \cup {x}
  PROVE  IsFiniteSet(A) /\ Cardinality(A) \in Nat /\ Cardinality(A) <= Cardinality(B) + 1
  <1>1. /\ IsFiniteSet(B \cup {x})
        /\ Cardinality(B \cup {x}) = Cardinality(B) \/ Cardinality(B \cup {x}) = Cardinality(B) + 1
    BY FS_AddElement
  <1>2. /\ IsFiniteSet(A) /\ Cardinality(A) <= Cardinality(B \cup {x})
        /\ Cardinality(A) \in Nat /\ Cardinality(B) \in Nat
    BY <1>1, CountSubset, FS_CardinalityType
  <1> QED
    BY <1>1, <1>2

\* A set that loses an element has at least one less.
LEMMA CountRemoved ==
  ASSUME NEW A, NEW B, NEW x \in B, IsFiniteSet(B), A \subseteq B \ {x}
  PROVE  IsFiniteSet(A) /\ Cardinality(A) \in Nat /\ Cardinality(A) + 1 <= Cardinality(B)
  <1>1. IsFiniteSet(B \ {x}) /\ Cardinality(B \ {x}) = Cardinality(B) - 1 /\ Cardinality(B) \in Nat
    BY FS_RemoveElement, FS_CardinalityType
  <1>2. IsFiniteSet(A) /\ Cardinality(A) \in Nat /\ Cardinality(A) <= Cardinality(B \ {x})
    BY <1>1, CountSubset
  <1> QED
    BY <1>1, <1>2

\* One more fault pays for one more lost job or orphan.
LEMMA Balance ==
  ASSUME NEW l \in Nat, NEW o \in Nat, NEW f \in Nat, NEW d \in Nat,
         NEW m \in Nat, NEW p \in Nat, NEW g \in Nat, NEW e \in Nat,
         l + o <= f + d, g + e = f + d + 1,
         (m <= l + 1 /\ p <= o) \/ (m <= l /\ p <= o + 1)
  PROVE  m + p <= g + e
  OBVIOUS

\* What is counted are numbers.
LEMMA Counts ==
  ASSUME Inv, Inv', FaultsPay
  PROVE  /\ fails \in Nat /\ deaths \in Nat /\ fails' \in Nat /\ deaths' \in Nat
         /\ Cardinality(Lost) \in Nat /\ Cardinality(Orphans) \in Nat
         /\ Cardinality(Lost) + Cardinality(Orphans) <= fails + deaths
  BY ConstantsAssumption, FS_CardinalityType DEF Inv, TypeOK, FaultsPay

\* The four ways in which a step may move the account.  Nothing new is owed:
LEMMA NothingOwed ==
  ASSUME Inv, Inv', FaultsPay,
         Lost' \subseteq Lost, Orphans' \subseteq Orphans, UNCHANGED <<fails, deaths>>
  PROVE  FaultsPay'
  <1>1. /\ IsFiniteSet(Lost') /\ Cardinality(Lost') \in Nat /\ Cardinality(Lost') <= Cardinality(Lost)
        /\ IsFiniteSet(Orphans') /\ Cardinality(Orphans') \in Nat
        /\ Cardinality(Orphans') <= Cardinality(Orphans)
    BY CountSubset DEF FaultsPay
  <1> QED
    BY <1>1, Counts DEF FaultsPay

\* a fault loses a job;
LEMMA FaultLoses ==
  ASSUME Inv, Inv', FaultsPay, NEW j, Lost' \subseteq Lost \cup {j}, Orphans' \subseteq Orphans,
         fails' + deaths' = fails + deaths + 1
  PROVE  FaultsPay'
  <1>1. IsFiniteSet(Lost') /\ Cardinality(Lost') \in Nat /\ Cardinality(Lost') <= Cardinality(Lost) + 1
    BY CountAdded DEF FaultsPay
  <1>2. /\ IsFiniteSet(Orphans') /\ Cardinality(Orphans') \in Nat
        /\ Cardinality(Orphans') <= Cardinality(Orphans)
    BY CountSubset DEF FaultsPay
  <1>3. Cardinality(Lost') + Cardinality(Orphans') <= fails' + deaths'
    BY <1>1, <1>2, Counts, Balance
  <1> QED
    BY <1>1, <1>2, <1>3 DEF FaultsPay

\* a fault orphans a claim;
LEMMA FaultOrphans ==
  ASSUME Inv, Inv', FaultsPay, NEW s, Lost' \subseteq Lost, Orphans' \subseteq Orphans \cup {s},
         fails' + deaths' = fails + deaths + 1
  PROVE  FaultsPay'
  <1>1. IsFiniteSet(Lost') /\ Cardinality(Lost') \in Nat /\ Cardinality(Lost') <= Cardinality(Lost)
    BY CountSubset DEF FaultsPay
  <1>2. /\ IsFiniteSet(Orphans') /\ Cardinality(Orphans') \in Nat
        /\ Cardinality(Orphans') <= Cardinality(Orphans) + 1
    BY CountAdded DEF FaultsPay
  <1>3. Cardinality(Lost') + Cardinality(Orphans') <= fails' + deaths'
    BY <1>1, <1>2, Counts, Balance
  <1> QED
    BY <1>1, <1>2, <1>3 DEF FaultsPay

\* an orphan loses its job.
LEMMA OrphanLoses ==
  ASSUME Inv, Inv', FaultsPay, NEW j, NEW s \in Orphans,
         Lost' \subseteq Lost \cup {j}, Orphans' \subseteq Orphans \ {s},
         UNCHANGED <<fails, deaths>>
  PROVE  FaultsPay'
  <1>1. IsFiniteSet(Lost') /\ Cardinality(Lost') \in Nat /\ Cardinality(Lost') <= Cardinality(Lost) + 1
    BY CountAdded DEF FaultsPay
  <1>2. /\ IsFiniteSet(Orphans') /\ Cardinality(Orphans') \in Nat
        /\ Cardinality(Orphans') + 1 <= Cardinality(Orphans)
    BY CountRemoved DEF FaultsPay
  <1> QED
    BY <1>1, <1>2, Counts DEF FaultsPay

\* One handler moves and the workers do not: as long as it keeps its worker
\* and drops a job only once that is not processing, nothing is owed.
LEMMA HandlerMoves ==
  ASSUME Inv, LossInv, NEW s \in Slots, UNCHANGED workers,
         \A t \in Slots \ {s} : slots'[t] = slots[t],
         slots[s].op \notin {"idle", "audit"} =>
             slots'[s].op \notin {"idle", "audit"} /\ slots'[s].worker = slots[s].worker,
         slots'[s].op \in {"select", "claim", "gotJob"} =>
             slots[s].op \in {"select", "claim", "gotJob"},
         \A j \in Jobs : jobs'[j].status = "processing" =>
             \/ slots'[s].op = "gotJob" /\ slots'[s].job = j
             \/ jobs[j].status = "processing" /\ (CarriedBySlot(s, j) => CarriedBySlot(s, j)')
  PROVE  WaitsForOwn' /\ Lost' \subseteq Lost /\ Orphans' \subseteq Orphans
  <1>1. WaitsForOwn'
    <2>1. \A w \in Workers : workers[w].slot \in Slots \cup {NULL}
      BY DEF Inv, TypeOK, Worker
    <2> QED
      BY <2>1 DEF LossInv, WaitsForOwn
  <1>2. ASSUME NEW j \in Jobs, jobs'[j].status = "processing", ~Carried(j)'
        PROVE  jobs[j].status = "processing" /\ ~Carried(j)
    <2>1. ~CarriedBySlot(s, j)' /\ jobs[j].status = "processing" /\ ~CarriedBySlot(s, j)
      BY <1>2 DEF Carried, CarriedBySlot
    <2>2. \A t \in Slots \ {s} : ~CarriedBySlot(t, j)
      BY <1>2 DEF Carried, CarriedBySlot
    <2>3. \A w \in Workers : ~CarriedByWorker(w, j)
      BY <1>2 DEF Carried, CarriedByWorker
    <2> QED
      BY <2>1, <2>2, <2>3 DEF Carried
  <1>3. Lost' \subseteq Lost
    BY <1>2 DEF Lost
  <1>4. Orphans' \subseteq Orphans
    BY DEF Orphans, Waiting
  <1> QED
    BY <1>1, <1>3, <1>4

\* A handler that ends with its answer ready, a new row, a SELECT, a commit
\* and a verdict owe nothing.
LEMMA HandlersOweNothing ==
  ASSUME Inv, Inv', LossInv, NEW s \in Slots,
         \/ AuditEnqueue(s) \/ SelectForUpdate(s) \/ ClaimNext(s) \/ CheckProcessing(s)
         \/ WriteVerdict(s) \/ \E j \in Jobs, k \in Kinds : CreateJob(s, j, k)
  PROVE  LossInv'
  <1>0. slots \in [Slots -> Slot] /\ jobs \in [Jobs -> Job]
    BY DEF Inv, TypeOK
  <1>1. UNCHANGED <<workers, fails, deaths>>
    BY DEF AuditEnqueue, SelectForUpdate, ClaimNext, CheckProcessing, WriteVerdict, CreateJob
  <1>2. ASSUME WaitsForOwn', Lost' \subseteq Lost, Orphans' \subseteq Orphans
        PROVE  LossInv'
    BY <1>1, <1>2, NothingOwed DEF LossInv
  <1>3. CASE AuditEnqueue(s)
    <2>1. slots[s].op = "audit" /\ slots'[s].op = "idle"
      BY <1>0, <1>3 DEF AuditEnqueue, Free
    <2>2. UNCHANGED jobs /\ \A t \in Slots \ {s} : slots'[t] = slots[t]
      BY <1>0, <1>3 DEF AuditEnqueue
    <2> QED
      BY <1>1, <1>2, <2>1, <2>2, HandlerMoves DEF CarriedBySlot
  <1>4. CASE SelectForUpdate(s)
    <2>1. /\ slots[s].op = "select" /\ slots'[s].op \in {"claim", "gotNothing"}
          /\ slots'[s].worker = slots[s].worker
          /\ \A t \in Slots \ {s} : slots'[t] = slots[t]
      <3>1. slots[s] \in Slot
        BY <1>0
      <3>2. CASE slots' = [slots EXCEPT ![s] = [@ EXCEPT !.op = "gotNothing"]]
        BY <1>0, <1>4, <3>1, <3>2 DEF SelectForUpdate, Slot
      <3>3. ASSUME NEW j \in NextPending(slots[s].kind),
                   slots' = [slots EXCEPT ![s] = [@ EXCEPT !.op = "claim", !.job = j]]
            PROVE  /\ slots'[s].op = "claim" /\ slots'[s].worker = slots[s].worker
                   /\ \A t \in Slots \ {s} : slots'[t] = slots[t]
        BY <1>0, <3>1, <3>3 DEF Slot
      <3> QED
        BY <1>4, <3>2, <3>3 DEF SelectForUpdate
    <2>2. UNCHANGED jobs
      BY <1>4 DEF SelectForUpdate
    <2> QED
      BY <1>1, <1>2, <2>1, <2>2, HandlerMoves DEF CarriedBySlot
  <1>5. CASE ClaimNext(s)
    <2>1. /\ slots[s].op = "claim" /\ slots'[s].op = "gotJob"
          /\ slots'[s].worker = slots[s].worker /\ slots'[s].job = slots[s].job
          /\ \A t \in Slots \ {s} : slots'[t] = slots[t]
      BY <1>0, <1>5 DEF ClaimNext, Slot
    <2>2. \A j \in Jobs : j # slots[s].job => jobs'[j] = jobs[j]
      BY <1>0, <1>5 DEF ClaimNext
    <2> QED
      BY <1>1, <1>2, <2>1, <2>2, HandlerMoves DEF CarriedBySlot
  <1>6. CASE CheckProcessing(s)
    <2>1. slots[s].op = "check" /\ Accepts(jobs[slots[s].job].status)
      BY <1>6 DEF CheckProcessing, Accepts, Inv, SlotsFilled, ExclusiveClaim, CarriedBySlot
    <2>2. slots' = [slots EXCEPT ![s] = [@ EXCEPT !.op = "update"]]
      BY <1>6, <2>1 DEF CheckProcessing
    <2>3. /\ slots'[s].op = "update" /\ slots'[s].worker = slots[s].worker
          /\ slots'[s].job = slots[s].job
          /\ \A t \in Slots \ {s} : slots'[t] = slots[t]
      BY <1>0, <2>2 DEF Slot
    <2>4. UNCHANGED jobs
      BY <1>6 DEF CheckProcessing
    <2> QED
      BY <1>1, <1>2, <2>1, <2>3, <2>4, HandlerMoves DEF CarriedBySlot
  <1>7. CASE WriteVerdict(s)
    <2>1. /\ slots[s].op = "update" /\ slots'[s].op = "done" /\ slots'[s].worker = slots[s].worker
          /\ \A t \in Slots \ {s} : slots'[t] = slots[t]
      BY <1>0, <1>7 DEF WriteVerdict, Slot
    <2>2. slots[s].job \in Jobs /\ slots[s].verdict \in {"completed", "failed"}
      BY <2>1 DEF Inv, SlotsFilled
    <2>3. /\ jobs'[slots[s].job].status \in {"completed", "failed"}
          /\ \A j \in Jobs : j # slots[s].job => jobs'[j] = jobs[j]
      BY <1>0, <1>7, <2>2 DEF WriteVerdict, Job
    <2> QED
      BY <1>1, <1>2, <2>1, <2>3, HandlerMoves DEF CarriedBySlot
  <1>8. ASSUME NEW j \in Jobs, NEW k \in Kinds, CreateJob(s, j, k)
        PROVE  LossInv'
    <2>1. slots[s].op = "idle" /\ slots'[s].op = "audit"
      BY <1>0, <1>8 DEF CreateJob, Free
    <2>2. \A t \in Slots \ {s} : slots'[t] = slots[t]
      BY <1>0, <1>8 DEF CreateJob
    <2>3. jobs'[j].status = "pending" /\ \A i \in Jobs \ {j} : jobs'[i] = jobs[i]
      <3>1. PICK t \in {now, now + 1} :
              jobs' = [jobs EXCEPT ![j] = [kind |-> k, createdAt |-> t, status |-> "pending",
                                           claimedBy |-> NULL, attempts |-> 0]]
        BY <1>8 DEF CreateJob
      <3> QED
        BY <1>0, <3>1
    <2> QED
      BY <1>1, <1>2, <2>1, <2>2, <2>3, HandlerMoves DEF CarriedBySlot
  <1> QED
    BY <1>3, <1>4, <1>5, <1>6, <1>7, <1>8

\* An error in place of an answer, or an enqueue cut short: one fault, and
\* the one job the request had is lost.
LEMMA FailuresPay ==
  ASSUME Inv, Inv', LossInv, NEW s \in Slots, RequestFails(s) \/ EnqueueFails(s)
  PROVE  LossInv'
  <1>0. slots \in [Slots -> Slot] /\ fails \in Nat /\ deaths \in Nat
    BY ConstantsAssumption DEF Inv, TypeOK
  <1>1. UNCHANGED <<jobs, workers>> /\ fails' + deaths' = fails + deaths + 1
    BY <1>0 DEF RequestFails, EnqueueFails
  <1>2. \A t \in Slots \ {s} : slots'[t] = slots[t]
    BY <1>0 DEF RequestFails, EnqueueFails
  <1>3. \/ /\ slots[s].op \notin {"idle", "audit"} /\ slots'[s].op = "error"
           /\ slots'[s].worker = slots[s].worker
        \/ slots[s].op = "audit" /\ slots'[s].op = "idle"
    <2>1. CASE RequestFails(s)
      BY <1>0, <2>1 DEF RequestFails, Slot
    <2>2. CASE EnqueueFails(s)
      BY <1>0, <2>2 DEF EnqueueFails, Free
    <2> QED
      BY <2>1, <2>2
  <1>4. WaitsForOwn'
    <2>1. \A w \in Workers : workers[w].slot \in Slots \cup {NULL}
      BY DEF Inv, TypeOK, Worker
    <2> QED
      BY <1>1, <1>2, <1>3, <2>1 DEF LossInv, WaitsForOwn
  <1>5. Lost' \subseteq Lost \cup {slots[s].job}
    <2>1. \A j \in Jobs : Carried(j) => Carried(j)' \/ j = slots[s].job
      BY <1>1, <1>2 DEF Carried, CarriedBySlot, CarriedByWorker
    <2> QED
      BY <1>1, <2>1 DEF Lost
  <1>6. Orphans' \subseteq Orphans
    BY <1>1, <1>2, <1>3 DEF Orphans, Waiting
  <1> QED
    BY <1>1, <1>4, <1>5, <1>6, FaultLoses DEF LossInv

\* A worker ends with a job in hand, or while it waits for one request.
LEMMA DeathsPay ==
  ASSUME Inv, Inv', LossInv, NEW w \in Workers, WorkerDies(w) \/ Restart(w)
  PROVE  LossInv'
  <1>0. workers \in [Workers -> Worker] /\ fails \in Nat /\ deaths \in Nat
    BY ConstantsAssumption DEF Inv, TypeOK
  <1>1. /\ workers'[w].slot = NULL /\ workers'[w].pc # "working"
        /\ \A v \in Workers \ {w} : workers'[v] = workers[v]
        /\ UNCHANGED <<jobs, slots, fails>>
    BY <1>0 DEF WorkerDies, Restart, Down, Polling
  <1>2. WaitsForOwn'
    BY <1>1 DEF LossInv, WaitsForOwn
  <1>3. Lost' \subseteq Lost \cup {workers[w].job} /\ (workers[w].pc # "working" => Lost' \subseteq Lost)
    <2>1. \A j \in Jobs : Carried(j) => Carried(j)' \/ (workers[w].pc = "working" /\ j = workers[w].job)
      BY <1>1 DEF Carried, CarriedBySlot, CarriedByWorker
    <2> QED
      BY <1>1, <2>1 DEF Lost
  <1>4. Orphans' \subseteq Orphans \cup {workers[w].slot}
        /\ (workers[w].slot = NULL => Orphans' \subseteq Orphans)
    <2>1. \A t \in Orphans' : slots[t].worker \in Workers /\ t \in Slots
      BY <1>1 DEF Orphans, Inv, SlotsFilled
    <2>2. \A t \in Orphans' : t \in Orphans \/ (workers[w].slot = t /\ t # NULL)
      BY <1>1, <2>1, ConstantsAssumption DEF Orphans, Waiting
    <2> QED
      BY <2>2
  <1>5. workers[w].pc # "waiting" => workers[w].slot = NULL
    BY DEF LossInv, WaitsForOwn
  <1>6. CASE Restart(w)
    BY <1>1, <1>2, <1>3, <1>4, <1>5, <1>6, NothingOwed DEF Restart, LossInv
  <1>7. CASE WorkerDies(w)
    <2>1. fails' + deaths' = fails + deaths + 1
      BY <1>0, <1>1, <1>7 DEF WorkerDies
    <2>2. CASE workers[w].pc = "working"
      BY <1>2, <1>3, <1>4, <1>5, <2>1, <2>2, FaultLoses DEF LossInv
    <2>3. CASE workers[w].pc # "working"
      BY <1>2, <1>3, <1>4, <2>1, <2>3, FaultOrphans DEF LossInv
    <2> QED
      BY <2>2, <2>3
  <1> QED
    BY <1>6, <1>7

\* A worker sends a request and waits for it: a poll carries nothing, a
\* report carries the job the worker had.
LEMMA SendsOweNothing ==
  ASSUME Inv, Inv', LossInv, NEW w \in Workers, NEW s \in Slots, Poll(w, s) \/ Work(w, s)
  PROVE  LossInv'
  <1>0. slots \in [Slots -> Slot] /\ workers \in [Workers -> Worker]
    BY DEF Inv, TypeOK
  <1>1. /\ workers'[w].slot = s /\ workers'[w].pc = "waiting"
        /\ \A v \in Workers \ {w} : workers'[v] = workers[v]
    BY <1>0 DEF Poll, Work
  <1>2. /\ slots[s].op = "idle" /\ slots'[s].worker = w
        /\ slots'[s].op \in {"select", "error", "check"}
        /\ \A t \in Slots \ {s} : slots'[t] = slots[t]
    BY <1>0 DEF Poll, Work
  <1>3. UNCHANGED <<jobs, fails, deaths>>
    BY DEF Poll, Work
  <1>4. workers[w].slot = NULL
    BY DEF Poll, Work, LossInv, WaitsForOwn
  <1>5. WaitsForOwn'
    <2>1. \A v \in Workers : workers[v].slot \in Slots \cup {NULL}
      BY <1>0 DEF Worker
    <2> QED
      BY <1>1, <1>2, <2>1, ConstantsAssumption DEF LossInv, WaitsForOwn
  <1>6. \A j \in Jobs : Carried(j) => Carried(j)'
    <2>1. CASE Poll(w, s)
      BY <1>1, <1>2, <2>1 DEF Poll, Carried, CarriedBySlot, CarriedByWorker
    <2>2. CASE Work(w, s)
      <3>1. slots'[s].op = "check" /\ slots'[s].job = workers[w].job
        BY <1>0, <2>2 DEF Work
      <3> QED
        BY <1>1, <1>2, <3>1 DEF Carried, CarriedBySlot, CarriedByWorker
    <2> QED
      BY <2>1, <2>2
  <1>7. Lost' \subseteq Lost
    BY <1>3, <1>6 DEF Lost
  <1>8. Orphans' \subseteq Orphans
    <2>1. \A t \in Orphans' : t \in Slots \ {s} /\ slots[t].worker \in Workers
      BY <1>1, <1>2, ConstantsAssumption DEF Orphans, Waiting, Inv, SlotsFilled
    <2> QED
      BY <1>1, <1>2, <1>4, <2>1, ConstantsAssumption DEF Orphans, Waiting
  <1> QED
    BY <1>3, <1>5, <1>7, <1>8, NothingOwed DEF LossInv

\* The answer reaches the worker that waits; a job in an answer nobody waits
\* for is lost, and its claim was an orphan.
LEMMA AnswersPay ==
  ASSUME Inv, Inv', LossInv, NEW s \in Slots, Answer(s)
  PROVE  LossInv'
  <1>0. slots \in [Slots -> Slot] /\ workers \in [Workers -> Worker]
    BY DEF Inv, TypeOK
  <1>1. /\ slots'[s].op = "idle" /\ slots[s].op \in Answers
        /\ \A t \in Slots \ {s} : slots'[t] = slots[t]
        /\ UNCHANGED <<jobs, fails, deaths>>
    BY <1>0 DEF Answer, Free
  <1>2. \A v \in Workers : workers[v].slot \in Slots \cup {NULL}
    BY <1>0 DEF Worker
  <1>3. CASE ~Waiting(s)
    <2>1. UNCHANGED workers
      BY <1>3 DEF Answer
    <2>2. WaitsForOwn'
      BY <1>1, <1>2, <1>3, <2>1, ConstantsAssumption DEF LossInv, WaitsForOwn, Waiting
    <2>3. Orphans' \subseteq Orphans \ {s}
      BY <1>1, <2>1 DEF Orphans, Waiting
    <2>4. \A j \in Jobs : Carried(j) =>
            Carried(j)' \/ (slots[s].op = "gotJob" /\ j = slots[s].job)
      BY <1>1, <2>1 DEF Carried, CarriedBySlot, CarriedByWorker, Answers
    <2>5. CASE slots[s].op = "gotJob"
      <3>1. s \in Orphans /\ Lost' \subseteq Lost \cup {slots[s].job}
        BY <1>1, <1>3, <2>4, <2>5 DEF Orphans, Lost
      <3> QED
        BY <1>1, <2>2, <2>3, <3>1, OrphanLoses DEF LossInv
    <2>6. CASE slots[s].op # "gotJob"
      <3>1. Lost' \subseteq Lost
        BY <1>1, <2>4, <2>6 DEF Lost
      <3> QED
        BY <1>1, <2>2, <2>3, <3>1, NothingOwed DEF LossInv
    <2> QED
      BY <2>5, <2>6
  <1>4. CASE Waiting(s)
    <2>1. PICK w \in Workers : w = slots[s].worker
      BY <1>0, <1>4 DEF Waiting, Slot
    <2>2. workers[w].slot = s /\ workers[w].pc = "waiting"
      BY <1>4, <2>1, ConstantsAssumption DEF Waiting, LossInv, WaitsForOwn
    <2>3. workers' = [workers EXCEPT ![w] = OnAnswer(w, s)]
      BY <1>4, <2>1 DEF Answer
    <2>4. /\ OnAnswer(w, s).slot = NULL
          /\ slots[s].op = "gotJob" =>
                OnAnswer(w, s).pc = "working" /\ OnAnswer(w, s).job = slots[s].job
      BY <1>0 DEF OnAnswer, Polling, Worker
    <2>5. workers'[w] = OnAnswer(w, s) /\ \A v \in Workers \ {w} : workers'[v] = workers[v]
      BY <1>0, <2>3
    <2>6. WaitsForOwn'
      BY <1>1, <1>2, <2>1, <2>4, <2>5, ConstantsAssumption DEF LossInv, WaitsForOwn
    <2>7. \A j \in Jobs : Carried(j) => Carried(j)'
      <3>1. ASSUME NEW j \in Jobs, NEW t \in Slots, CarriedBySlot(t, j) PROVE Carried(j)'
        BY <1>1, <2>4, <2>5, <3>1 DEF Carried, CarriedBySlot, CarriedByWorker, Answers
      <3>2. ASSUME NEW j \in Jobs, NEW v \in Workers, CarriedByWorker(v, j) PROVE Carried(j)'
        BY <2>2, <2>5, <3>2 DEF Carried, CarriedByWorker
      <3> QED
        BY <3>1, <3>2 DEF Carried
    <2>8. Lost' \subseteq Lost
      BY <1>1, <2>7 DEF Lost
    <2>9. Orphans' \subseteq Orphans
      <3>1. \A t \in Orphans' : t \in Slots \ {s} /\ slots[t].worker \in Workers
        BY <1>1 DEF Orphans, Inv, SlotsFilled
      <3> QED
        BY <1>1, <2>2, <2>4, <2>5, <3>1, ConstantsAssumption DEF Orphans, Waiting
    <2> QED
      BY <1>1, <2>6, <2>8, <2>9, NothingOwed DEF LossInv
  <1> QED
    BY <1>3, <1>4

\* Every step keeps the account.
LEMMA LossStep == Inv /\ Inv' /\ LossInv /\ [Next]_vars => LossInv'
  <1> SUFFICES ASSUME Inv, Inv', LossInv, [Next]_vars PROVE LossInv'
    OBVIOUS
  <1>1. CASE UNCHANGED vars
    BY <1>1 DEF vars, LossInv, WaitsForOwn, FaultsPay, Lost, Orphans, Carried, CarriedBySlot,
                CarriedByWorker, Waiting
  <1>2. ASSUME NEW s \in Slots, Handle(s) \/ RequestFails(s) \/ EnqueueFails(s)
        PROVE  LossInv'
    BY <1>2, HandlersOweNothing, AnswersPay, FailuresPay DEF Handle
  <1>3. ASSUME NEW s \in Slots, NEW j \in Jobs, NEW k \in Kinds, CreateJob(s, j, k)
        PROVE  LossInv'
    BY <1>3, HandlersOweNothing
  <1>4. ASSUME NEW w \in Workers, Loop(w) \/ WorkerDies(w)
        PROVE  LossInv'
    BY <1>4, DeathsPay, SendsOweNothing DEF Loop
  <1> QED
    BY <1>1, <1>2, <1>3, <1>4 DEF Next

\* A job that stays processing with nobody to finish it (claimNext has no
\* lease and no reaper) is paid for by a failed request or a worker's end of
\* its own: no fault strands two jobs, however late its handler answers.
THEOREM OneFaultOneJob == Spec => []OneJobPerFault
  <1>1. Init => LossInv
    <2> SUFFICES ASSUME Init PROVE LossInv
      OBVIOUS
    <2>1. Lost = {} /\ Orphans = {}
      BY DEF Init, Lost, Orphans, NoJob, Free
    <2>2. WaitsForOwn
      BY DEF Init, WaitsForOwn, Polling
    <2> QED
      BY <2>1, <2>2, FS_EmptySet DEF Init, LossInv, FaultsPay
  <1>2. Inv /\ LossInv => OneJobPerFault
    <2> SUFFICES ASSUME Inv, LossInv PROVE OneJobPerFault
      OBVIOUS
    <2>1. /\ Cardinality(Lost) \in Nat /\ Cardinality(Orphans) \in Nat
          /\ fails \in Nat /\ deaths \in Nat
      BY ConstantsAssumption, FS_CardinalityType DEF Inv, TypeOK, LossInv, FaultsPay
    <2>2. Cardinality(Lost) <= fails + deaths
      BY <2>1 DEF LossInv, FaultsPay
    <2> QED
      BY <2>2 DEF OneJobPerFault, Lost
  <1> QED
    BY <1>1, <1>2, LossStep, Invariance, PTL DEF Spec

-----------------------------------------------------------------------------
(* With the route of claimNext shadowed. *)

\* No worker ever has a job and no job leaves pending.
NothingTaken ==
    /\ \A j \in Jobs : jobs[j].status \in {"absent", "pending"}
    /\ \A w \in Workers : workers[w].pc # "working"

\* Nor does a handler ever come to claim or to report one.
OnlyRefusals == NothingTaken /\ \A s \in Slots : slots[s].op \in {"idle", "audit", "error"}

\* Every step keeps the queue as it is but for what is enqueued.
LEMMA RefusalsStep ==
  ASSUME ~ClaimRouted, Inv, OnlyRefusals, [Next]_vars
  PROVE  OnlyRefusals'
  <1>0. /\ jobs \in [Jobs -> Job] /\ slots \in [Slots -> Slot] /\ workers \in [Workers -> Worker]
        /\ \A j \in Jobs : jobs[j].status \in {"absent", "pending"}
        /\ \A w \in Workers : workers[w].pc # "working"
        /\ \A s \in Slots : slots[s].op \in {"idle", "audit", "error"}
    BY DEF Inv, TypeOK, OnlyRefusals, NothingTaken
  <1>1. CASE UNCHANGED vars
    BY <1>1 DEF vars, OnlyRefusals, NothingTaken
  <1>2. ASSUME NEW s \in Slots, NEW k, k.op \in {"idle", "audit", "error"},
               slots' = [slots EXCEPT ![s] = k]
        PROVE  \A t \in Slots : slots'[t].op \in {"idle", "audit", "error"}
    BY <1>0, <1>2
  <1>3. ASSUME NEW w \in Workers, NEW k, k.pc # "working", workers' = [workers EXCEPT ![w] = k]
        PROVE  \A v \in Workers : workers'[v].pc # "working"
    BY <1>0, <1>3
  <1>4. Free.op = "idle" /\ Down.pc # "working" /\ (\A i : Polling(i).pc # "working")
    BY DEF Free, Down, Polling
  <1>5. ASSUME NEW s \in Slots, Handle(s) \/ RequestFails(s) \/ EnqueueFails(s)
        PROVE  OnlyRefusals'
    <2>1. slots[s].op \in {"idle", "audit", "error"}
      BY <1>0
    <2>2. AuditEnqueue(s) \/ EnqueueFails(s) \/ Answer(s)
      BY <1>5, <2>1 DEF Handle, SelectForUpdate, ClaimNext, CheckProcessing, WriteVerdict,
                        RequestFails
    <2>3. jobs' = jobs /\ slots' = [slots EXCEPT ![s] = Free]
      BY <2>2 DEF AuditEnqueue, EnqueueFails, Answer
    <2>4. \A w \in Workers : workers'[w].pc # "working"
      <3>1. CASE workers' = workers
        BY <1>0, <3>1
      <3>2. CASE workers' # workers
        <4>1. slots[s].op \in Answers /\ slots[s].worker # NULL
              /\ workers' = [workers EXCEPT ![slots[s].worker] = OnAnswer(slots[s].worker, s)]
          BY <2>2, <3>2 DEF AuditEnqueue, EnqueueFails, Answer, Waiting
        <4>2. slots[s].op = "error" /\ slots[s].worker \in Workers
          BY <1>0, <2>1, <4>1 DEF Answers, Slot
        <4>3. OnAnswer(slots[s].worker, s) = Polling(1)
          BY <4>2 DEF OnAnswer
        <4> QED
          BY <1>3, <1>4, <4>1, <4>2, <4>3
      <3> QED
        BY <3>1, <3>2
    <2> QED
      BY <1>0, <1>2, <1>4, <2>3, <2>4 DEF OnlyRefusals, NothingTaken
  <1>6. ASSUME NEW s \in Slots, NEW j \in Jobs, NEW k \in Kinds, CreateJob(s, j, k)
        PROVE  OnlyRefusals'
    <2> DEFINE new == [Free EXCEPT !.op = "audit", !.job = j]
    <2>1. new.op = "audit" /\ slots' = [slots EXCEPT ![s] = new] /\ workers' = workers
      BY <1>6 DEF CreateJob, Free
    <2>2. \E row : row.status = "pending" /\ jobs' = [jobs EXCEPT ![j] = row]
      BY <1>6 DEF CreateJob
    <2>3. \A i \in Jobs : jobs'[i].status \in {"absent", "pending"}
      BY <1>0, <2>2
    <2> HIDE DEF new
    <2> QED
      BY <1>0, <1>2, <2>1, <2>3 DEF OnlyRefusals, NothingTaken
  <1>7. ASSUME NEW w \in Workers, Loop(w) \/ WorkerDies(w)
        PROVE  OnlyRefusals'
    <2>1. CASE Restart(w) \/ WorkerDies(w)
      <3>1. \E k : /\ k \in {Polling(1), Down} /\ workers' = [workers EXCEPT ![w] = k]
                   /\ jobs' = jobs /\ slots' = slots
        BY <2>1 DEF Restart, WorkerDies
      <3>2. \A v \in Workers : workers'[v].pc # "working"
        BY <1>3, <1>4, <3>1
      <3> QED
        BY <1>0, <3>1, <3>2 DEF OnlyRefusals, NothingTaken
    <2>2. ASSUME NEW s \in Slots, Poll(w, s) PROVE OnlyRefusals'
      <3>1. PICK k, v : /\ k.op = "error" /\ slots' = [slots EXCEPT ![s] = k]
                        /\ v.pc = "waiting" /\ workers' = [workers EXCEPT ![w] = v]
                        /\ jobs' = jobs
        BY <2>2 DEF Poll
      <3>2. \A x \in Workers : workers'[x].pc # "working"
        BY <1>3, <3>1
      <3>3. \A t \in Slots : slots'[t].op \in {"idle", "audit", "error"}
        BY <1>0, <3>1
      <3> QED
        BY <1>0, <3>1, <3>2, <3>3 DEF OnlyRefusals, NothingTaken
    <2>3. \A s \in Slots : ~Work(w, s)
      BY <1>0 DEF Work
    <2> QED
      BY <1>7, <2>1, <2>2, <2>3 DEF Loop
  <1> QED
    BY <1>1, <1>5, <1>6, <1>7 DEF Next

\* While GET /ingestions/:id is declared before GET /ingestions/next-job
\* (IngestionController), the workers poll in vain: whatever is enqueued and
\* however they restart, no job is ever claimed, completed or failed.
THEOREM ShadowedQueueStarves == ~ClaimRouted => (Spec => []NothingTaken)
  <1> SUFFICES ASSUME ~ClaimRouted PROVE Spec => []NothingTaken
    OBVIOUS
  <1>1. Init => OnlyRefusals
    BY DEF Init, OnlyRefusals, NothingTaken, NoJob, Free, Polling
  <1>2. Inv /\ OnlyRefusals /\ [Next]_vars => OnlyRefusals'
    BY RefusalsStep
  <1>3. OnlyRefusals => NothingTaken
    BY DEF OnlyRefusals
  <1> QED
    BY <1>1, <1>2, <1>3, Invariance, PTL DEF Spec
=============================================================================
