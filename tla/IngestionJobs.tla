--------------------------- MODULE IngestionJobs ---------------------------
(***************************************************************************)
(* The ingestion job queue: rows of IngestionJob inserted by the API       *)
(* (apps/api/src/ingestion), claimed over HTTP by the Python workers       *)
(* (workers/docpipeline) and written back by them.  The API side of an     *)
(* HTTP request is a slot that steps from await to await; the worker side  *)
(* is a loop that waits for the answer of one request at a time.  A        *)
(* request outlives the worker that sent it: when the worker gives up on   *)
(* the socket or dies, the handler still runs to its end.                  *)
(***************************************************************************)
EXTENDS Naturals, Sequences, FiniteSets

CONSTANTS
    Jobs,          \* ids of IngestionJob rows
    Kinds,         \* kinds of job the API accepts
    HandlerKinds,  \* the kinds the consumers poll, in their order
    Handlers,      \* the kinds the consumers have a handler for
    Workers,       \* worker ids
    Slots,         \* concurrently running HTTP handlers
    ClaimRouted,   \* does GET /ingestions/next-job reach its handler?
    MaxFails,      \* bound on requests answered by an error
    MaxDeaths,     \* bound on worker processes that end
    NULL

ASSUME ConstantsAssumption ==
    /\ HandlerKinds \in Seq(Kinds) /\ HandlerKinds # <<>>
    /\ Handlers \subseteq Kinds
    /\ ClaimRouted \in BOOLEAN
    /\ MaxFails \in Nat /\ MaxDeaths \in Nat
    /\ NULL \notin Jobs /\ NULL \notin Kinds /\ NULL \notin Workers /\ NULL \notin Slots

VARIABLES
    jobs,      \* the IngestionJob table
    now,       \* the database clock, which stamps createdAt
    audited,   \* jobs with an ingestion.enqueue event
    slots,     \* the HTTP handler running in each slot
    workers,   \* the consumer loop of each worker
    fails,     \* requests answered by an error so far
    deaths     \* worker processes ended so far

vars == <<jobs, now, audited, slots, workers, fails, deaths>>

Job == [kind : Kinds \cup {NULL}, createdAt : Nat,
        status : {"absent", "pending", "processing", "completed", "failed"},
        claimedBy : Workers \cup {NULL}, attempts : Nat]
NoJob == [kind |-> NULL, createdAt |-> 0, status |-> "absent",
          claimedBy |-> NULL, attempts |-> 0]

\* What a handler does next, or the answer it has ready for its worker.
Ops == {"idle", "audit", "select", "claim", "check", "update",
        "gotJob", "gotNothing", "done", "error"}
Slot == [op : Ops, worker : Workers \cup {NULL}, kind : Kinds \cup {NULL},
         job : Jobs \cup {NULL}, verdict : {"completed", "failed", "none"}]
Free == [op |-> "idle", worker |-> NULL, kind |-> NULL, job |-> NULL, verdict |-> "none"]

\* i is the position in HandlerKinds, slot the request waited for.
Worker == [pc : {"poll", "waiting", "working", "down"}, i : 1..Len(HandlerKinds),
           job : Jobs \cup {NULL}, slot : Slots \cup {NULL}]
Polling(i) == [pc |-> "poll", i |-> i, job |-> NULL, slot |-> NULL]
Down == [pc |-> "down", i |-> 1, job |-> NULL, slot |-> NULL]

Init ==
    /\ jobs = [j \in Jobs |-> NoJob]
    /\ now = 1
    /\ audited = {}
    /\ slots = [s \in Slots |-> Free]
    /\ workers = [w \in Workers |-> Polling(1)]
    /\ fails = 0
    /\ deaths = 0

-----------------------------------------------------------------------------
(* Enqueueing: POST /ingestions by a user and POST /webhooks/inbound/email. *)

\* repo.create: a pending row; two rows may carry the same createdAt.
CreateJob(s, j, k) ==
    /\ slots[s].op = "idle"
    /\ jobs[j].status = "absent"
    /\ \E t \in {now, now + 1} :
        /\ now' = t
        /\ jobs' = [jobs EXCEPT ![j] = [kind |-> k, createdAt |-> t, status |-> "pending",
                                        claimedBy |-> NULL, attempts |-> 0]]
    /\ slots' = [slots EXCEPT ![s] = [Free EXCEPT !.op = "audit", !.job = j]]
    /\ UNCHANGED <<audited, workers, fails, deaths>>

AuditEnqueue(s) ==
    /\ slots[s].op = "audit"
    /\ audited' = audited \cup {slots[s].job}
    /\ slots' = [slots EXCEPT ![s] = Free]
    /\ UNCHANGED <<jobs, now, workers, fails, deaths>>

-----------------------------------------------------------------------------
(* Claiming.  A row is locked from the SELECT ... FOR UPDATE of a claim to *)
(* the end of its transaction.                                             *)

Locked(j) == \E s \in Slots : slots[s].op = "claim" /\ slots[s].job = j

\* Mutant: a SELECT without FOR UPDATE SKIP LOCKED.
ClaimableLocked(j, k) == jobs[j].status = "pending" /\ jobs[j].kind = k

Claimable(j, k) == jobs[j].status = "pending" /\ jobs[j].kind = k /\ ~Locked(j)

\* Mutant: no ORDER BY "createdAt".
NextPendingAny(k) == {j \in Jobs : Claimable(j, k)}

\* Mutant: a condition meant for retries, on every claim.
NextPendingRetried(k) == {j \in Jobs : Claimable(j, k) /\ jobs[j].attempts > 0}

\* The rows the query may return: the oldest of those it can lock.
NextPending(k) ==
    {j \in Jobs : /\ Claimable(j, k)
                  /\ \A i \in Jobs : Claimable(i, k) => jobs[j].createdAt <= jobs[i].createdAt}

\* The worker asks for a job of the kind it is at.  Where the route is
\* shadowed, the request is refused by the guard of the route before it.
Poll(w, s) ==
    /\ workers[w].pc = "poll"
    /\ slots[s].op = "idle"
    /\ slots' = [slots EXCEPT ![s] =
                    [op |-> IF ClaimRouted THEN "select" ELSE "error", worker |-> w,
                     kind |-> HandlerKinds[workers[w].i], job |-> NULL, verdict |-> "none"]]
    /\ workers' = [workers EXCEPT ![w] =
                    [pc |-> "waiting", i |-> workers[w].i, job |-> NULL, slot |-> s]]
    /\ UNCHANGED <<jobs, now, audited, fails, deaths>>

SelectForUpdate(s) ==
    /\ slots[s].op = "select"
    /\ \/ \E j \in NextPending(slots[s].kind) :
            slots' = [slots EXCEPT ![s] = [@ EXCEPT !.op = "claim", !.job = j]]
       \/ /\ NextPending(slots[s].kind) = {}
          /\ slots' = [slots EXCEPT ![s] = [@ EXCEPT !.op = "gotNothing"]]
    /\ UNCHANGED <<jobs, now, audited, workers, fails, deaths>>

\* Mutant: the increment left out of the update, and the status misspelt.
ClaimedInProgress(job, w) == [job EXCEPT !.status = "in_progress", !.claimedBy = w]

Claimed(job, w) ==
    [kind |-> job.kind, createdAt |-> job.createdAt, status |-> "processing",
     claimedBy |-> w, attempts |-> job.attempts + 1]

\* tx.ingestionJob.update and the commit.
ClaimNext(s) ==
    /\ slots[s].op = "claim"
    /\ jobs' = [jobs EXCEPT ![slots[s].job] = Claimed(@, slots[s].worker)]
    /\ slots' = [slots EXCEPT ![s] = [@ EXCEPT !.op = "gotJob"]]
    /\ UNCHANGED <<now, audited, workers, fails, deaths>>

-----------------------------------------------------------------------------
(* Working and reporting: process_one after the claim.                      *)

\* A handler may raise; a kind without a handler is always reported failed.
Verdicts(k) == IF k \in Handlers THEN {"completed", "failed"} ELSE {"failed"}

Work(w, s) ==
    /\ workers[w].pc = "working"
    /\ slots[s].op = "idle"
    /\ \E v \in Verdicts(jobs[workers[w].job].kind) :
        slots' = [slots EXCEPT ![s] = [op |-> "check", worker |-> w, kind |-> NULL,
                                       job |-> workers[w].job, verdict |-> v]]
    /\ workers' = [workers EXCEPT ![w] =
                    [pc |-> "waiting", i |-> workers[w].i, job |-> NULL, slot |-> s]]
    /\ UNCHANGED <<jobs, now, audited, fails, deaths>>

\* Mutant: the check looks for the state before the claim.
AcceptsPending(status) == status = "pending"

\* complete and fail read the job and refuse it when it is not processing.
Accepts(status) == status = "processing"

CheckProcessing(s) ==
    /\ slots[s].op = "check"
    /\ slots' = [slots EXCEPT ![s] = [@ EXCEPT !.op =
                    IF Accepts(jobs[slots[s].job].status) THEN "update" ELSE "error"]]
    /\ UNCHANGED <<jobs, now, audited, workers, fails, deaths>>

\* Mutant: a failed job is put back to be tried again.
WriteVerdictRequeue(s) ==
    /\ slots[s].op = "update"
    /\ jobs' = [jobs EXCEPT ![slots[s].job] = [@ EXCEPT !.status =
                    IF slots[s].verdict = "failed" THEN "pending" ELSE "completed"]]
    /\ slots' = [slots EXCEPT ![s] = [@ EXCEPT !.op = "done"]]
    /\ UNCHANGED <<now, audited, workers, fails, deaths>>

\* The update does not look at the status again.
WriteVerdict(s) ==
    /\ slots[s].op = "update"
    /\ jobs' = [jobs EXCEPT ![slots[s].job] = [@ EXCEPT !.status = slots[s].verdict]]
    /\ slots' = [slots EXCEPT ![s] = [@ EXCEPT !.op = "done"]]
    /\ UNCHANGED <<now, audited, workers, fails, deaths>>

-----------------------------------------------------------------------------
(* Answers and the consumer loop: run_forever.                              *)

Answers == {"gotJob", "gotNothing", "done", "error"}
Waiting(s) == slots[s].worker # NULL /\ workers[slots[s].worker].slot = s

\* The next kind of the loop, or a new turn of it.
NextKind(i) == IF i = Len(HandlerKinds) THEN 1 ELSE i + 1

\* An ApiError ends the turn of the loop; the next one starts over.
OnAnswer(w, s) ==
    IF slots[s].op = "gotJob" THEN [workers[w] EXCEPT !.pc = "working", !.job = slots[s].job,
                                                      !.slot = NULL]
    ELSE IF slots[s].op = "error" THEN Polling(1)
    ELSE Polling(NextKind(workers[w].i))

\* The answer of a request nobody waits for any more is dropped.
Answer(s) ==
    /\ slots[s].op \in Answers
    /\ workers' = IF Waiting(s)
                  THEN [workers EXCEPT ![slots[s].worker] = OnAnswer(slots[s].worker, s)]
                  ELSE workers
    /\ slots' = [slots EXCEPT ![s] = Free]
    /\ UNCHANGED <<jobs, now, audited, fails, deaths>>

-----------------------------------------------------------------------------
(* Faults.                                                                  *)

\* A handler ends with a 5xx, or is refused before it starts (a body over
\* the limit), or its answer is replaced by a gateway error.  A claim's
\* transaction is rolled back if it was not committed.
RequestFails(s) ==
    /\ fails < MaxFails
    /\ slots[s].op \notin {"idle", "error", "audit"}
    /\ fails' = fails + 1
    /\ slots' = [slots EXCEPT ![s] = [@ EXCEPT !.op = "error", !.job = NULL]]
    /\ UNCHANGED <<jobs, now, audited, workers, deaths>>

\* The handler of an enqueue dies before its audit event: the job stays.
EnqueueFails(s) ==
    /\ fails < MaxFails
    /\ slots[s].op = "audit"
    /\ fails' = fails + 1
    /\ slots' = [slots EXCEPT ![s] = Free]
    /\ UNCHANGED <<jobs, now, audited, workers, deaths>>

\* Only HTTPError becomes ApiError: a timeout or a refused connection ends
\* the process, like a kill does.
WorkerDies(w) ==
    /\ deaths < MaxDeaths
    /\ workers[w].pc # "down"
    /\ deaths' = deaths + 1
    /\ workers' = [workers EXCEPT ![w] = Down]
    /\ UNCHANGED <<jobs, now, audited, slots, fails>>

Restart(w) ==
    /\ workers[w].pc = "down"
    /\ workers' = [workers EXCEPT ![w] = Polling(1)]
    /\ UNCHANGED <<jobs, now, audited, slots, fails, deaths>>

-----------------------------------------------------------------------------
Handle(s) ==
    \/ AuditEnqueue(s) \/ SelectForUpdate(s) \/ ClaimNext(s)
    \/ CheckProcessing(s) \/ WriteVerdict(s) \/ Answer(s)

Loop(w) == Restart(w) \/ \E s \in Slots : Poll(w, s) \/ Work(w, s)

Next ==
    \/ \E s \in Slots : Handle(s) \/ RequestFails(s) \/ EnqueueFails(s)
    \/ \E s \in Slots, j \in Jobs, k \in Kinds : CreateJob(s, j, k)
    \/ \E w \in Workers : Loop(w) \/ WorkerDies(w)

Spec == Init /\ [][Next]_vars

\* Handlers that were started go on, and a worker's loop goes on.
FairSpec == Spec /\ (\A s \in Slots : WF_vars(Handle(s))) /\ (\A w \in Workers : WF_vars(Loop(w)))

-----------------------------------------------------------------------------
(* Properties.                                                              *)

\* The table, the handlers and the worker loops keep their shapes; a status
\* is one of the four the schema names (or the row is not there yet).
TypeOK ==
    /\ jobs \in [Jobs -> Job]
    /\ now \in Nat
    /\ audited \subseteq Jobs
    /\ slots \in [Slots -> Slot]
    /\ workers \in [Workers -> Worker]
    /\ fails \in 0..MaxFails /\ deaths \in 0..MaxDeaths

\* Somebody still has to act on the job: an answer on its way to the worker,
\* a worker with the job in hand, a report in progress.
CarriedBySlot(s, j) == slots[s].op \in {"gotJob", "check", "update"} /\ slots[s].job = j
CarriedByWorker(w, j) == workers[w].pc = "working" /\ workers[w].job = j
Carried(j) == (\E s \in Slots : CarriedBySlot(s, j)) \/ (\E w \in Workers : CarriedByWorker(w, j))

\* claimNext "prevents two workers from claiming the same job": whatever the
\* claims, late handlers, deaths and restarts, a job is in at most one place
\* between its claim and its write-back, that place belongs to the worker
\* named in claimedBy, and the job is still processing when its verdict is
\* written, although the write does not check that again.
ExclusiveClaim ==
    \A j \in Jobs :
        /\ \A s, t \in Slots : CarriedBySlot(s, j) /\ CarriedBySlot(t, j) => s = t
        /\ \A v, w \in Workers : CarriedByWorker(v, j) /\ CarriedByWorker(w, j) => v = w
        /\ \A s \in Slots, w \in Workers : ~(CarriedBySlot(s, j) /\ CarriedByWorker(w, j))
        /\ \A s \in Slots : CarriedBySlot(s, j) =>
              jobs[j].status = "processing" /\ jobs[j].claimedBy = slots[s].worker
        /\ \A w \in Workers : CarriedByWorker(w, j) =>
              jobs[j].status = "processing" /\ jobs[j].claimedBy = w

\* A job nobody carries stays processing for ever, there is no lease and no
\* reaper; every such job is paid for by a failed request or a worker's end
\* of its own, so one fault costs one job.
OneJobPerFault ==
    Cardinality({j \in Jobs : jobs[j].status = "processing" /\ ~Carried(j)}) <= fails + deaths

\* The oldest pending job first: unless a claim was rolled back, a job is
\* overtaken by a younger one of its kind only while its own claim is
\* being committed.
NoOvertaking ==
    fails = 0 =>
        \A i, j \in Jobs :
            (/\ jobs[i].status = "pending"
             /\ jobs[j].status \in {"processing", "completed", "failed"}
             /\ jobs[i].kind = jobs[j].kind
             /\ jobs[i].createdAt < jobs[j].createdAt) => Locked(i)

\* The table, seen from outside, is the abstract queue: the detailed
\* handlers implement put, take and finish.
Queue == INSTANCE JobQueue WITH
    state <- [j \in Jobs |-> jobs[j].status],
    owner <- [j \in Jobs |-> jobs[j].claimedBy]
ImplementsQueue == Queue!QSpec

\* Without a fault every job of a kind the consumers poll is finished in the
\* end; jobs of other kinds do not get in the way.
JobsFinish ==
    \A j \in Jobs :
        (jobs[j].status = "pending" /\ jobs[j].kind \in {HandlerKinds[i] : i \in 1..Len(HandlerKinds)})
            ~> (jobs[j].status \in {"completed", "failed"} \/ fails + deaths > 0)
=============================================================================
