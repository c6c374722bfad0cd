----------------------------- MODULE JobPipeline -----------------------------
(***************************************************************************)
(* The life of a job: POST /process, the background task _process_job, the *)
(* JobStore in Redis, and the readers of GET /stream and GET /results      *)
(* (api/routes.py, pipeline/job_store.py).                                 *)
(*                                                                         *)
(* A coroutine suspends in its Redis commands and in process_batch.  One   *)
(* action is a command's effect, its reply and all the code up to the next *)
(* suspension.  Every command may instead raise, before or after it took   *)
(* effect.  The tickets are counted, not named: what the caller does with  *)
(* a batch is the contract of TicketService (each ticket is answered,      *)
(* answered from the cache, or failed).                                    *)
(***************************************************************************)
EXTENDS Integers, FiniteSets

CONSTANTS
  Jobs,        \* job ids
  Streams,     \* clients of GET /stream
  Pollers,     \* clients of GET /results
  MaxTickets,  \* largest request
  BatchSize,   \* largest batch drained at once
  MaxCrashes   \* bound on the worker's crashes

ASSUME JobAssumption ==
  /\ Jobs # {} /\ IsFiniteSet(Jobs)
  /\ MaxTickets \in Nat \ {0}
  /\ BatchSize \in Nat \ {0}
  /\ MaxCrashes \in Nat

VARIABLES
  hash,     \* Redis: the hash job:{id}
  stored,   \* Redis: job:{id}:results
  req,      \* where each POST is suspended
  task,     \* where each background task is suspended
  job,      \* the local variables of the POST and of its task
  active,   \* _active_job_count, and the gauge active_jobs
  stream,   \* the clients of GET /stream
  poll,     \* what each client of GET /results was told last, and of which job
  crashes   \* how often the worker crashed

vars == <<hash, stored, req, task, job, active, stream, poll, crashes>>

Statuses == {"", "pending", "processing", "done", "failed"}

(* A hash field that is missing reads as "" or 0.  ttl: the key expires. *)
NoHash == [exists |-> FALSE, status |-> "", total |-> 0, completed |-> 0,
           failed |-> 0, hits |-> 0, ttl |-> FALSE]
NoResults == [exists |-> FALSE, count |-> 0]
NoBatch == [ok |-> 0, failed |-> 0, hits |-> 0]

Init ==
  /\ hash = [j \in Jobs |-> NoHash]
  /\ stored = [j \in Jobs |-> NoResults]
  /\ req = [j \in Jobs |-> "new"]
  /\ task = [j \in Jobs |-> "none"]
  /\ job = [j \in Jobs |-> [total |-> 0, left |-> 0, completed |-> 0, failed |-> 0,
                            hits |-> 0, repeated |-> 0, results |-> 0,
                            batch |-> NoBatch]]
  /\ active = 0
  /\ stream = [s \in Streams |-> [at |-> "new", job |-> CHOOSE j \in Jobs : TRUE]]
  /\ poll = [p \in Pollers |-> [at |-> "new", job |-> CHOOSE j \in Jobs : TRUE]]
  /\ crashes = 0

-----------------------------------------------------------------------------
(* Redis commands on job:{id}; HSET and HINCRBY create a missing hash.     *)

(* Mutated form of HSetStatus: the key is written anew. *)
SetStatusAnew(h, s) == [h EXCEPT !.exists = TRUE, !.status = s, !.ttl = FALSE]

HSetStatus(h, s) == [h EXCEPT !.exists = TRUE, !.status = s]

(* Mutated form of HIncrBy: failures are counted as completed as well. *)
HIncrByAll(h, b) ==
  [h EXCEPT !.exists = TRUE, !.completed = @ + b.ok + b.failed,
            !.failed = @ + b.failed, !.hits = @ + b.hits]

HIncrBy(h, b) ==
  [h EXCEPT !.exists = TRUE, !.completed = @ + b.ok, !.failed = @ + b.failed,
            !.hits = @ + b.hits]

(* hset of JobStore.create *)
Created(n) == [NoHash EXCEPT !.exists = TRUE, !.status = "pending", !.total = n]

(* EXPIRE does nothing to a key that is not there. *)
WithTtl(h) == [h EXCEPT !.ttl = h.exists]

Put(j, h)    == hash' = [hash EXCEPT ![j] = h]
MayPut(j, h) == hash' \in {hash, [hash EXCEPT ![j] = h]}

-----------------------------------------------------------------------------
(* POST /process                                                           *)

ReqUnchanged == UNCHANGED <<stored, active, stream, poll, crashes>>

(* Of n tickets dups repeat one of the request, hits are in the cache, the
   rest is unique.  Both of the first count as cached; a hit comes with its
   result, and a repeated ticket is listed once, where it was first met. *)
Counted(b, n, dups, hits) ==
  [b EXCEPT !.total = n, !.left = n - dups - hits, !.completed = dups + hits,
            !.hits = dups + hits, !.repeated = dups, !.results = hits]

(* Step 1 of the handler. *)
Deduplicate(j) ==
  /\ req[j] = "new"
  /\ \E n \in 1 .. MaxTickets : \E dups \in 0 .. n - 1 : \E hits \in 0 .. n - dups :
       job' = [job EXCEPT ![j] = Counted(job[j], n, dups, hits)]
  /\ req' = [req EXCEPT ![j] = "creating"]
  /\ UNCHANGED <<hash, task>> /\ ReqUnchanged

(* A Redis error of any command ends the request with a 500. *)
Refuse(j) == req' = [req EXCEPT ![j] = "refused"] /\ UNCHANGED <<task, job>>

DeduplicateError(j) == req[j] = "new" /\ Refuse(j) /\ UNCHANGED hash /\ ReqUnchanged

CreateHash(j) ==
  /\ req[j] = "creating"
  /\ Put(j, Created(job[j].total))
  /\ req' = [req EXCEPT ![j] = "expiring"]
  /\ UNCHANGED <<task, job>> /\ ReqUnchanged

CreateHashError(j) ==
  req[j] = "creating" /\ MayPut(j, Created(job[j].total)) /\ Refuse(j) /\ ReqUnchanged

(* asyncio.create_task, and the 202. *)
Launch(j) ==
  /\ req' = [req EXCEPT ![j] = "accepted"]
  /\ task' = [task EXCEPT ![j] = "scheduled"]

SetTtl(j) ==
  /\ req[j] = "expiring"
  /\ Put(j, WithTtl(hash[j]))
  /\ IF job[j].completed > 0
     THEN req' = [req EXCEPT ![j] = "counting"] /\ UNCHANGED task
     ELSE Launch(j)
  /\ UNCHANGED job /\ ReqUnchanged

SetTtlError(j) ==
  req[j] = "expiring" /\ MayPut(j, WithTtl(hash[j])) /\ Refuse(j) /\ ReqUnchanged

Cached(j) == [ok |-> job[j].completed, failed |-> 0, hits |-> job[j].hits]

(* Mutated form of CountCached: only the hits with a result are counted. *)
CountHitsOnly(j) ==
  /\ req[j] = "counting"
  /\ Put(j, HIncrBy(hash[j], [Cached(j) EXCEPT !.ok = job[j].results]))
  /\ Launch(j)
  /\ UNCHANGED job /\ ReqUnchanged

CountCached(j) ==
  /\ req[j] = "counting"
  /\ Put(j, HIncrBy(hash[j], Cached(j)))
  /\ Launch(j)
  /\ UNCHANGED job /\ ReqUnchanged

CountCachedError(j) ==
  req[j] = "counting" /\ MayPut(j, HIncrBy(hash[j], Cached(j))) /\ Refuse(j) /\ ReqUnchanged

Request(j) ==
  \/ Deduplicate(j) \/ CreateHash(j) \/ SetTtl(j) \/ CountCached(j)
  \/ DeduplicateError(j) \/ CreateHashError(j) \/ SetTtlError(j) \/ CountCachedError(j)

-----------------------------------------------------------------------------
(* _process_job                                                            *)

Goto(j, where) == task' = [task EXCEPT ![j] = where]

(* Mutated form of NextBatch: the loop waits for a ticket that is not there. *)
NextBatchAlways(j) == Goto(j, "batch")

(* drain_batch, which does not suspend, and the loop's exit. *)
NextBatch(j) == Goto(j, IF job[j].left = 0 THEN "finishing" ELSE "batch")

Begin(j) ==
  /\ task[j] = "scheduled"
  /\ active' = active + 1
  /\ Goto(j, "starting")
  /\ UNCHANGED <<hash, stored, req, job, stream, poll, crashes>>

Start(j) ==
  /\ task[j] = "starting"
  /\ Put(j, HSetStatus(hash[j], "processing"))
  /\ NextBatch(j)
  /\ UNCHANGED <<stored, req, job, active, stream, poll, crashes>>

(* start() is awaited before the try: the task dies as it is. *)
StartError(j) ==
  /\ task[j] = "starting"
  /\ MayPut(j, HSetStatus(hash[j], "processing"))
  /\ Goto(j, "leaked")
  /\ UNCHANGED <<stored, req, job, active, stream, poll, crashes>>

(* Mutated form of Answered: a failed ticket is left out of the list. *)
AnsweredOnly(b, n, f, hits) ==
  [b EXCEPT !.left = @ - n, !.completed = @ + n, !.failed = @ + f,
            !.hits = @ + hits, !.results = @ + n - f,
            !.batch = [ok |-> n - f, failed |-> f, hits |-> hits]]

(* Of a batch of n tickets f failed and hits came from the cache. *)
Answered(b, n, f, hits) ==
  [b EXCEPT !.left = @ - n, !.completed = @ + n, !.failed = @ + f,
            !.hits = @ + hits, !.results = @ + n,
            !.batch = [ok |-> n - f, failed |-> f, hits |-> hits]]

(* process_batch returns a result for every ticket of the batch. *)
BatchDone(j) ==
  /\ task[j] = "batch"
  /\ \E n \in 1 .. BatchSize : \E f \in 0 .. n : \E hits \in 0 .. n - f :
       /\ n <= job[j].left
       /\ job' = [job EXCEPT ![j] = Answered(job[j], n, f, hits)]
  /\ Goto(j, "counting")
  /\ UNCHANGED <<hash, stored, req, active, stream, poll, crashes>>

(* The handler: record the failure, unless that raises too. *)
ToHandler(j) == Goto(j, "failing")

(* Mutated form of CountProgress: sent again although it took effect. *)
CountProgressTwice(j) ==
  /\ task[j] = "counting"
  /\ Put(j, HIncrBy(HIncrBy(hash[j], job[j].batch), job[j].batch))
  /\ job' = [job EXCEPT ![j].batch = NoBatch]
  /\ Goto(j, "publishing")
  /\ UNCHANGED <<stored, req, active, stream, poll, crashes>>

CountProgress(j) ==
  /\ task[j] = "counting"
  /\ Put(j, HIncrBy(hash[j], job[j].batch))
  /\ job' = [job EXCEPT ![j].batch = NoBatch]
  /\ Goto(j, "publishing")
  /\ UNCHANGED <<stored, req, active, stream, poll, crashes>>

CountProgressError(j) ==
  /\ task[j] = "counting"
  /\ MayPut(j, HIncrBy(hash[j], job[j].batch))
  /\ ToHandler(j)
  /\ UNCHANGED <<stored, req, job, active, stream, poll, crashes>>

(* A progress event only passes through the open streams. *)
PublishProgress(j) ==
  /\ task[j] = "publishing"
  /\ NextBatch(j)
  /\ UNCHANGED <<hash, stored, req, job, active, stream, poll, crashes>>

PublishProgressError(j) ==
  /\ task[j] = "publishing"
  /\ ToHandler(j)
  /\ UNCHANGED <<hash, stored, req, job, active, stream, poll, crashes>>

StoreResults(j) == stored' = [stored EXCEPT ![j] = [exists |-> TRUE, count |-> job[j].results]]

(* Mutated form of Finish: the event is published before the results. *)
FinishWithoutResults(j) ==
  /\ task[j] = "finishing"
  /\ Put(j, HSetStatus(hash[j], "done"))
  /\ Goto(j, "announcing")
  /\ UNCHANGED <<stored, req, job, active, stream, poll, crashes>>

(* MULTI: status and results change together. *)
Finish(j) ==
  /\ task[j] = "finishing"
  /\ Put(j, HSetStatus(hash[j], "done"))
  /\ StoreResults(j)
  /\ Goto(j, "announcing")
  /\ UNCHANGED <<req, job, active, stream, poll, crashes>>

FinishError(j) ==
  /\ task[j] = "finishing"
  /\ \/ Put(j, HSetStatus(hash[j], "done")) /\ StoreResults(j)
     \/ UNCHANGED <<hash, stored>>
  /\ ToHandler(j)
  /\ UNCHANGED <<req, job, active, stream, poll, crashes>>

(* Pub/sub delivers to whoever is subscribed now; the done event ends the
   client's stream. *)
Delivered(j) ==
  [s \in Streams |-> IF stream[s].at = "open" /\ stream[s].job = j
                     THEN [stream[s] EXCEPT !.at = "ended"]
                     ELSE stream[s]]

PublishDone(j) ==
  /\ task[j] = "announcing"
  /\ stream' = Delivered(j)
  /\ Goto(j, "ended")
  /\ active' = active - 1
  /\ UNCHANGED <<hash, stored, req, job, poll, crashes>>

PublishDoneError(j) ==
  /\ task[j] = "announcing"
  /\ stream' \in {stream, Delivered(j)}
  /\ ToHandler(j)
  /\ UNCHANGED <<hash, stored, req, job, active, poll, crashes>>

(* Mutated form of RecordFailure: `finally` is skipped. *)
RecordFailureOnly(j) ==
  /\ task[j] = "failing"
  /\ Put(j, HSetStatus(hash[j], "failed"))
  /\ Goto(j, "ended")
  /\ UNCHANGED <<stored, req, job, active, stream, poll, crashes>>

(* Mutated form of RecordFailure: the exception is only logged. *)
SwallowFailure(j) ==
  /\ task[j] = "failing"
  /\ Goto(j, "ended")
  /\ active' = active - 1
  /\ UNCHANGED <<hash, stored, req, job, stream, poll, crashes>>

(* Mutated form of RecordFailure: the handler is inside the loop. *)
RecordFailureAndGoOn(j) ==
  /\ task[j] = "failing"
  /\ Put(j, HSetStatus(hash[j], "failed"))
  /\ NextBatch(j)
  /\ UNCHANGED <<stored, req, job, active, stream, poll, crashes>>

RecordFailure(j) ==
  /\ task[j] = "failing"
  /\ Put(j, HSetStatus(hash[j], "failed"))
  /\ Goto(j, "ended")
  /\ active' = active - 1
  /\ UNCHANGED <<stored, req, job, stream, poll, crashes>>

(* fail() raises as well: `finally` still runs. *)
RecordFailureError(j) ==
  /\ task[j] = "failing"
  /\ MayPut(j, HSetStatus(hash[j], "failed"))
  /\ Goto(j, "abandoned")
  /\ active' = active - 1
  /\ UNCHANGED <<stored, req, job, stream, poll, crashes>>

Process(j) ==
  \/ Begin(j) \/ Start(j) \/ BatchDone(j) \/ CountProgress(j) \/ PublishProgress(j)
  \/ Finish(j) \/ PublishDone(j) \/ RecordFailure(j)
  \/ StartError(j) \/ CountProgressError(j) \/ PublishProgressError(j)
  \/ FinishError(j) \/ PublishDoneError(j) \/ RecordFailureError(j)

-----------------------------------------------------------------------------
(* GET /stream/{job_id}                                                    *)

StreamAt(s, where) == stream' = [stream EXCEPT ![s].at = where]
StreamUnchanged == UNCHANGED <<hash, stored, req, task, job, active, poll, crashes>>

(* The existence check: 404 for a job that is not in Redis. *)
OpenStream(s, j) ==
  /\ stream[s].at = "new" /\ hash[j].exists
  /\ stream' = [stream EXCEPT ![s] = [at |-> "subscribing", job |-> j]]
  /\ StreamUnchanged

StreamNotFound(s, j) ==
  /\ stream[s].at = "new" /\ ~hash[j].exists
  /\ stream' = [stream EXCEPT ![s] = [at |-> "closed", job |-> j]]
  /\ StreamUnchanged

Subscribe(s) == stream[s].at = "subscribing" /\ StreamAt(s, "open") /\ StreamUnchanged

(* The client goes away, or the subscriber connection fails. *)
CloseStream(s) ==
  /\ stream[s].at \in {"subscribing", "open"}
  /\ StreamAt(s, "closed")
  /\ StreamUnchanged

-----------------------------------------------------------------------------
(* GET /results/{job_id}, which a client may ask for again and again.      *)

PollUnchanged == UNCHANGED <<hash, stored, req, task, job, active, stream, crashes>>
Tell(p, answer, j) == poll' = [poll EXCEPT ![p] = [at |-> answer, job |-> j]]

(* What the state alone decides; a job that is done has its results read. *)
Answer(h) ==
  IF ~h.exists THEN "not_found"
  ELSE IF h.status = "done" THEN "reading"
  ELSE IF h.status = "failed" THEN "failed"
  ELSE "progress"

(* get_state is awaited first, *)
GetState(p, j) ==
  poll[p].at # "reading" /\ Tell(p, Answer(hash[j]), j) /\ PollUnchanged

GetStateError(p, j) ==
  poll[p].at # "reading" /\ Tell(p, "redis_error", j) /\ PollUnchanged

(* and get_results apart from it.  Results that are gone read as None, over
   which the handler cannot iterate: a 500. *)
GetResults(p) ==
  /\ poll[p].at = "reading"
  /\ Tell(p, IF stored[poll[p].job].exists THEN "done" ELSE "no_results", poll[p].job)
  /\ PollUnchanged

GetResultsError(p) ==
  poll[p].at = "reading" /\ Tell(p, "redis_error", poll[p].job) /\ PollUnchanged

-----------------------------------------------------------------------------
(* The environment.                                                        *)

(* job_ttl_seconds after create, Redis drops the hash. *)
ExpireHash(j) ==
  /\ hash[j].ttl
  /\ Put(j, NoHash)
  /\ UNCHANGED <<stored, req, task, job, active, stream, poll, crashes>>

(* The results are given the same TTL later than the hash: while the hash
   is still waiting for its own expiry they are not due. *)
ExpireResults(j) ==
  /\ stored[j].exists /\ ~hash[j].ttl
  /\ stored' = [stored EXCEPT ![j] = NoResults]
  /\ UNCHANGED <<hash, req, task, job, active, stream, poll, crashes>>

Running(j) == task[j] \notin {"none", "scheduled", "ended", "abandoned", "leaked", "lost"}
Requesting(j) == req[j] \in {"creating", "expiring", "counting"}

(* The worker process dies and is started again; Redis goes on. *)
Crash ==
  /\ crashes < MaxCrashes
  /\ crashes' = crashes + 1
  /\ active' = 0
  /\ req' = [j \in Jobs |-> IF Requesting(j) THEN "refused" ELSE req[j]]
  /\ task' = [j \in Jobs |-> IF Running(j) \/ task[j] \in {"scheduled", "leaked"}
                             THEN "lost" ELSE task[j]]
  /\ stream' = [s \in Streams |-> IF stream[s].at \in {"subscribing", "open"}
                                  THEN [stream[s] EXCEPT !.at = "closed"]
                                  ELSE stream[s]]
  /\ poll' = [p \in Pollers |-> IF poll[p].at = "reading"
                                THEN [poll[p] EXCEPT !.at = "closed"]
                                ELSE poll[p]]
  /\ UNCHANGED <<hash, stored, job>>

Next ==
  \/ \E j \in Jobs : Request(j) \/ Process(j) \/ ExpireHash(j) \/ ExpireResults(j)
  \/ \E s \in Streams, j \in Jobs : OpenStream(s, j) \/ StreamNotFound(s, j)
  \/ \E s \in Streams : Subscribe(s) \/ CloseStream(s)
  \/ \E p \in Pollers, j \in Jobs : GetState(p, j) \/ GetStateError(p, j)
  \/ \E p \in Pollers : GetResults(p) \/ GetResultsError(p)
  \/ Crash

Spec == Init /\ [][Next]_vars

(* Redis answers or raises, the caller answers every batch (TicketCaller's
   EveryTicketAnswered), and the event loop keeps and runs what is ready.
   The first and the last are assumptions on the environment: the clients
   have no socket_timeout (main.py:37-50), and nothing but the event loop
   refers to the task (routes.py:259). *)
Fairness ==
  /\ \A j \in Jobs : WF_vars(Request(j)) /\ WF_vars(Process(j))
  /\ \A s \in Streams : WF_vars(Subscribe(s))

FairSpec == Spec /\ Fairness

-----------------------------------------------------------------------------
(* Types of the keys, the local variables and the readers.                 *)
Count == 0 .. MaxTickets
TypeOK ==
  /\ hash \in [Jobs -> [exists : BOOLEAN, status : Statuses, total : Count,
                        completed : Count, failed : Count, hits : Count,
                        ttl : BOOLEAN]]
  /\ stored \in [Jobs -> [exists : BOOLEAN, count : Count]]
  /\ req \in [Jobs -> {"new", "creating", "expiring", "counting", "accepted", "refused"}]
  /\ task \in [Jobs -> {"none", "scheduled", "starting", "batch", "counting",
                        "publishing", "finishing", "announcing", "failing",
                        "ended", "abandoned", "leaked", "lost"}]
  /\ job \in [Jobs -> [total : Count, left : Count, completed : Count,
                       failed : Count, hits : Count, repeated : Count, results : Count,
                       batch : [ok : Count, failed : Count, hits : Count]]]
  /\ active \in 0 .. Cardinality(Jobs)
  /\ stream \in [Streams -> [at : {"new", "subscribing", "open", "ended", "closed"},
                             job : Jobs]]
  /\ poll \in [Pollers -> [at : {"new", "reading", "not_found", "progress", "failed",
                                 "done", "no_results", "redis_error", "closed"},
                           job : Jobs]]
  /\ crashes \in 0 .. MaxCrashes

(* While the hash has not been dropped, the counters a poller reads are    *)
(* those the task publishes: completed in Redis leaves the failures out,   *)
(* the task's count takes them in, and no lost reply, crash or failed      *)
(* command makes them differ between two batches.                          *)
ProgressAgrees ==
  \A j \in Jobs :
    /\ hash[j].total > 0
    /\ task[j] \in {"scheduled", "starting", "batch", "publishing", "finishing", "announcing"}
    => /\ hash[j].completed + hash[j].failed = job[j].completed
       /\ hash[j].failed = job[j].failed
       /\ hash[j].hits = job[j].hits

(* A job that reads as done has accounted for every ticket of its request, *)
(* and at no time has it accounted for more.                               *)
DoneIsComplete ==
  \A j \in Jobs : hash[j].total > 0 =>
    /\ hash[j].completed + hash[j].failed <= hash[j].total
    /\ hash[j].status = "done" =>
         hash[j].completed + hash[j].failed = hash[j].total

(* The list a job keeps has a result for each of its tickets, failed ones  *)
(* included, but for those that repeat another of the request.             *)
ResultsComplete ==
  \A j \in Jobs : stored[j].exists => stored[j].count + job[j].repeated = job[j].total

(* While a hash awaits its expiry, whoever was told that its job is done   *)
(* finds the results: the poller between its two reads, even if the job    *)
(* fails in between, and the stream that got the done event.  A poller is  *)
(* left without them only behind a hash that is gone, or came back without *)
(* an expiry.  (A Redis error of either read is a 500 at any time.)        *)
ResultsAvailable ==
  /\ \A p \in Pollers :
       hash[poll[p].job].ttl =>
         /\ poll[p].at = "reading" => stored[poll[p].job].exists
         /\ poll[p].at # "no_results"
  /\ \A s \in Streams :
       stream[s].at = "ended" /\ hash[stream[s].job].ttl
         => stored[stream[s].job].exists

(* A poller that asks for a job again is not told what is behind the last  *)
(* answer: no progress of a job that was done or failed, and nothing else  *)
(* of one that failed.  (A job that was done may still turn out failed.)   *)
AnswersMoveOn ==
  [][\A p \in Pollers : poll'[p].job = poll[p].job =>
       /\ poll[p].at \in {"reading", "done", "no_results"} => poll'[p].at # "progress"
       /\ poll[p].at = "failed" =>
            poll'[p].at \in {"failed", "not_found", "redis_error"}]_vars

(* The count of active jobs is that of the tasks between its increment and *)
(* the `finally`, but for those that died in start() since the worker      *)
(* started; a failure recorded, lost or raised on the way leaves it exact. *)
ActiveIsExact ==
  active = Cardinality({j \in Jobs : Running(j) \/ task[j] = "leaked"})

(* A hash that nothing will ever expire is one whose POST is between its   *)
(* two commands or ended there, or what was written after the hash had     *)
(* expired under its job, and then has no total: no command takes the      *)
(* expiry away from a hash that has been given one.                        *)
OnlyLeftoversStay ==
  \A j \in Jobs :
    hash[j].exists /\ ~hash[j].ttl =>
      req[j] \in {"expiring", "refused"} \/ hash[j].total = 0

(* A task that ran to its end has left a verdict in Redis, even if the     *)
(* hash had expired under it.                                              *)
EndedIsDecided ==
  [][\A j \in Jobs : task[j] # "ended" /\ task'[j] = "ended" =>
       hash'[j].status \in {"done", "failed"} \/ ~hash'[j].exists]_vars

(* The jobs implement the contract of JobLifecycle: statuses only move     *)
(* forward, which includes from done to failed, and done comes with all    *)
(* tickets accounted for and the results, whichever command fails, is lost *)
(* on the way back, or finds its key gone.                                 *)
Lifecycle == INSTANCE JobLifecycle WITH
  state <- [j \in Jobs |-> [status    |-> hash[j].status,
                            total     |-> hash[j].total,
                            accounted |-> hash[j].completed + hash[j].failed]],
  kept  <- [j \in Jobs |-> stored[j].exists]
ImplementsLifecycle == Lifecycle!Spec

(* Every accepted job's task comes to an end unless the worker crashes.    *)
TaskEnds ==
  \A j \in Jobs : task[j] = "scheduled" ~> task[j] \in {"ended", "abandoned", "leaked", "lost"}

-----------------------------------------------------------------------------
(* What the documentation says and the code does not do.                   *)

(* "Number of currently active inference jobs".                            *)
ActiveCountsRunning == active = Cardinality({j \in Jobs : Running(j)})

(* "Automatic key expiry for free garbage collection of stale job data":   *)
(* the hash of an accepted job has an expiry as long as it is there.       *)
AcceptedExpires ==
  \A j \in Jobs : req[j] = "accepted" /\ hash[j].exists => hash[j].ttl

(* "Stop streaming once the done event is published": an open stream of a  *)
(* job whose done event was published comes to its end.                    *)
StreamStops ==
  \A s \in Streams :
    /\ stream[s].at = "open"
    /\ task[stream[s].job] = "ended" /\ hash[stream[s].job].status = "done"
    ~> stream[s].at \in {"ended", "closed"}
=============================================================================
