------------------------------ MODULE JobQueue ------------------------------
(***************************************************************************)
(* What the ingestion queue promises its users, without workers' loops,    *)
(* HTTP requests or transactions: a job is put once, taken by one worker   *)
(* and finished once, and its owner and its verdict never change after.    *)
(***************************************************************************)
CONSTANTS Jobs, Workers, NULL

VARIABLES
    state,   \* what an observer of the IngestionJob table sees of each job
    owner    \* the worker each job was given to

qvars == <<state, owner>>

QInit ==
    /\ state = [j \in Jobs |-> "absent"]
    /\ owner = [j \in Jobs |-> NULL]

Put(j) ==
    /\ state[j] = "absent"
    /\ state' = [state EXCEPT ![j] = "pending"]
    /\ UNCHANGED owner

Take(j, w) ==
    /\ state[j] = "pending"
    /\ state' = [state EXCEPT ![j] = "processing"]
    /\ owner' = [owner EXCEPT ![j] = w]

Finish(j, v) ==
    /\ state[j] = "processing"
    /\ state' = [state EXCEPT ![j] = v]
    /\ UNCHANGED owner

QNext ==
    \E j \in Jobs :
        \/ Put(j)
        \/ \E w \in Workers : Take(j, w)
        \/ \E v \in {"completed", "failed"} : Finish(j, v)

QSpec == QInit /\ [][QNext]_qvars
=============================================================================
