# inference-forge in TLA+

Formal models of [inference-forge](../src/README.md), the asyncio service that
classifies batches of support tickets with an external LLM API behind a
semaphore, retries, a circuit breaker and a Redis deduplication cache, and that
reports its jobs through Redis (hash, results, pub/sub). The models are
translated from `src/src/inference_forge/`. `PROJECT.json` maps every
definition to its lines and lists the runs, the mutants, the findings, the
hazards and the theorems.

    tlc -config breaker.cfg MCCircuitBreaker     # any run: cfg + module
    tlapm TicketCallerProofs.tla                 # any module *Proofs

## 1. Inventory

One worker process is one event loop; coroutines interleave only where they
really suspend. The container starts two workers that share nothing but Redis.

| Component | State | Operations | Talks to |
|---|---|---|---|
| `pipeline/circuit_breaker.py` | `_state`, `_failure_timestamps`, `_opened_at`, `_probe_lock` | `call`, outcome recording, `failure_count` | wraps every API attempt |
| `pipeline/caller.py` | loop variables of each ticket, the semaphore, the throttle's clock | `process_ticket`, `_call_with_retry`, `_single_api_call`, `process_batch` | breaker, cache, API |
| `pipeline/cache.py` | Redis keys per normalised ticket, NX and EX | `get`, `set` | Redis |
| `pipeline/batcher.py` | one priority queue per job | `enqueue_many`, `drain_batch` | job task, gauge |
| `pipeline/estimator.py` | one EWMA per process | `classify`, `breakdown`, `estimate_initial`, `estimate`, `update` | POST, job task |
| `pipeline/job_store.py` | `job:{id}` hash, `job:{id}:results`, event channel | `create`, `start`, `increment_progress`, `finish`, `fail`, publish, subscribe, reads | Redis |
| `api/routes.py` | `_active_job_count`, locals of POST and `_process_job`, open streams | POST /process, `_process_job`, GET /stream, /results, /health | all of the above |
| `main.py` | singletons, connection pools | lifespan | |
| `observability/metrics.py` | gauges, counters, latency window | | written by all |

What is hard in it, and what must hold:

* **Breaker.** State checked before an await and used after it; outcomes of
  old calls arriving in a new state; one probe at a time; no HALF_OPEN circuit
  that nobody decides; every queued caller answered; recovery.
* **Caller.** Each exit of the retry loop returns the permit once; no waiter
  is forgotten by the semaphore; at most `max_retries` calls per ticket and
  `max_concurrent_api_calls` at once; a cached answer is never replaced;
  requests leave an interval apart; every ticket gets a result. A clean answer
  is returned as it is, and JSON of the model's reasoning is not taken for it.
* **Batcher.** No ticket lost or repeated when a candidate is put back;
  hardest first; no needless short batch; estimates cover what is left, and
  rest on what was measured although all jobs share the average.
* **Jobs.** Counters written by the POST and by the task, in Redis and in the
  events, add up; done implies complete and retrievable; answers to a poller
  move forward only, where forward ends in failed and not in done: when
  `publish_done` raises (routes.py:182), a job that was done turns to failed,
  with its results in Redis. Redis errors before or after the effect, expiry
  under a running job, a crash between two commands or two reads, and late
  subscribers do not break that.

The hazards, each at its line, are in `PROJECT.json`.

## 2. Modules and plan

| Module | Models | Of |
|---|---|---|
| `CircuitBreaker` | the breaker | `circuit_breaker.py` |
| `CircuitBreakerProofs` | its theorems | |
| `TicketService` | abstract contract of the caller | |
| `TicketServiceProofs` | what the contract comes to | |
| `TicketCaller` | cache, semaphore, retry loop and throttle, composed with `CircuitBreaker` (`CB == INSTANCE`); implements `TicketService` | `caller.py`, `cache.py` |
| `TicketCallerProofs` | its theorems, the refinement among them; cites `CircuitBreakerProofs` and `TicketServiceProofs` | |
| `ResponseParser` | where the answer is found in a response | `caller.py` |
| `ResponseParserProofs` | its theorems | |
| `Batcher` | classifier, batcher, estimator, and the gauge and average the jobs share | `batcher.py`, `estimator.py` |
| `BatcherProofs` | its theorems | |
| `JobLifecycle` | abstract contract of a job, as its clients see it | |
| `JobPipeline` | POST, job task, job store, SSE, polling of the results, expiry, crash; implements `JobLifecycle` | `routes.py`, `job_store.py` |
| `JobPipelineProofs` | its theorems, the refinement among them | |
| `MC*` | values for TLC | |

The layers meet at contracts: `JobPipeline` relies on `TicketService` for the
outcome of a batch and on `EveryTicketAnswered` for its end; `Batcher` says how
batches are cut; `ResponseParser` says when a response is `Answered`, `NotAnObject`
or `Retryable` for `TicketCaller`.

Every safety property and refinement that a passing run checks is also proved
(section 6), and what `TicketService` comes to is handed down to `TicketCaller`
through the refinement.

## 3. How the models correspond to the code

**Atomicity.** An action runs from one suspension point to the next: an
`await` that really suspends (a taken lock, an empty semaphore, a Redis command,
the HTTP call, a sleep). Coroutines without a suspension (`_maybe_transition`,
`_on_success`, `_on_failure`, `_transition`) are part of the action that awaits
them. Where one such stretch is split for readability (the head of the retry
loop in `TicketCaller`, the collecting loop in `Batcher`) every other action is
disabled until it ends. Tasks are not cancelled: the service cancels nothing
while it runs.

**CircuitBreaker.** `cb` is the record of `_state`, the *ages* of
`_failure_timestamps` and the time since `_opened_at`; the code only uses the
differences to the present, `Tick` advances them, and they saturate where no
comparison can tell more. `pc` says where each caller is: `executing` (CLOSED,
no lock), `probing`, `waiting` for the lock, or `relayed` (obtained the lock
after the circuit closed, and executes under it). `asyncio.Lock` is FIFO and
does not let a newcomer pass a waiter. A probe records its outcome twice, as
`_execute` and `_half_open_probe` both do.

**TicketCaller.** `at`, `attempt`, `answer`, `error` are the locals of
`process_ticket` and `_call_with_retry`. `permits` and `semQueue` are
`Semaphore._value` and `_waiters` of Python 3.11: a release grants the permit to
the first waiter that has none; a granted waiter stays in the queue until it
resumes, newcomers line up behind it, and when it resumes it passes on a permit
released meanwhile. (That is the version the Dockerfile pins; other versions of
Python queue differently.) `Respond` has one disjunct per kind of response the
handlers tell apart; `AnsweredWithError` is an object that has an `error` of its own,
which `process_ticket` does not cache and the job counts as failed unless it is falsy.
A classification is the task whose call produced it, so an answer from the cache and a
replaced entry are visible. `throttle` is
`_rate_limit_lock`, the sleep of its holder and the age of `_last_call_ts`. The
lock is taken inside the breaker's call and under the semaphore, so a ticket may
hold a permit, the probe lock and the throttle's at once; `EnterThrottle` is part
of the action that starts the call because nothing suspends in between. With
`MinInterval = 0` the throttle never holds anybody up, as in the code, which then
skips it. `CbEnabled = FALSE` is `cb_enabled`. The mock mode answers every call,
so its behaviours are those in which `Respond` is always `Answered`.

**ResponseParser.** A text is a sequence of tokens: braces, members with or
without a brace in a string, keys that wait for an object, prose, think tags.
`IsJson` is the reference: what `json.loads` accepts. `AnswerStart` is
`_strip_think_tags`; `TryBlock` is one block of the scan, which counts braces in
strings as well and resumes behind a block that does not parse. Trimming of white
space is left to the tokens. Two things a model may write are not among the
tokens: a closing tag inside a JSON string, and an array, whose objects
`json.loads` accepts as a whole and the caller then rejects (`NotAnObject`).

**TicketService.** The contract the jobs rely on: answered from the cache or by
an own call, or failed; bounded calls; first cached answer kept. `TicketCaller`
maps its places to the outcomes and counts a call only when the breaker has let
it start.

**Batcher.** The heap yields any ticket of least priority, since
`PrioritizedTicket` compares by priority alone. `depth` is the gauge and `ewma`
the estimator's average in ms, rounded down; both are the worker's, and every job
writes them. `eta` is a job's last estimate, batches (in fractions of `1/Scale`, a
common multiple of the batch sizes) and latency kept apart. `BatchDone` measures a
batch (routes.py:111) and `Estimate` estimates the rest (routes.py:139): between
them `increment_progress` is awaited, and other jobs measure. `Abandon` is a
command that raises: the task ends with tickets in its queue, which is dropped, and
the gauge stays as it was.

**JobPipeline.** `hash` and `stored` are the Redis keys; a missing field reads as
0 or "", so a hash recreated after its expiry has `total = 0` and no TTL.
`req` and `task` are suspension points of the POST and of `_process_job`; `job`
holds their locals. Each Redis command has a companion `...Error` action: it
raises before or after taking effect. `poll` is what each client of GET /results was
told last: `GetState` and `GetResults` are its two awaited reads, anything may happen
between them, and each may raise (a 500). A client asks as often as it likes.
Tickets are counted, not named; `repeated` are those that repeat another of their
request, which count as cached and are listed once. A batch is
any number up to `BatchSize` (`Batcher` says which) and its outcome any split
into answered, cached and failed (`TicketService` says why that is all).

**JobLifecycle.** A job's status, total and accounted tickets, and whether its
results can be fetched. `JobPipeline` maps `completed + failed` of the hash to the
accounted tickets. Commands that fail, replies that are lost, keys that expire and
come back in part, crashes and streams are steps of it or none.

## 4. Runs

Passing runs, with distinct states found:

| Run | Bounds | Shows | States |
|---|---|---|---|
| `breaker` | 3 callers, threshold 2, window 2 s, recovery 2 s | lock exclusive, CLOSED below the threshold, HALF_OPEN always about to be decided, nothing starts on OPEN; every waiter answered; circuit closes when failures stop | 6 641 |
| `caller` | 3 tickets (2 share a key), 2 permits, 2 attempts, interval 1 s, threshold 2, window and recovery 1 s | permits conserved, answers belong to equal tickets, calls and retries spaced, `TicketService` implemented; every ticket gets a result, through semaphore, probe lock and throttle | 411 169 |
| `caller_semaphore` | 4 tickets, 2 permits, 1 attempt, interval 2 s, no breaker | no waiter forgotten, calls spaced, every ticket gets a result | 174 555 |
| `parser` | all texts of up to 4 pieces: tokens, whole objects, members that hold one | only JSON is returned; a clean answer as it is; reasoning only as a fallback; no reachable object passed over; termination | 67 774 |
| `batcher` | 2 jobs, every mix of 6 tickets for the one and a single ticket for the other, word counts 1 to 200, sizes 2/2/1, two durations | partition, order, fewest batches, bounds of the estimates, latency that was observed by either job, termination | 453 613 |
| `jobs_accounting` | 1 job, 3 tickets, batches of 2, 1 stream, 1 poller, 1 crash | counters, verdict, results, expiry and active count agree; who was told done finds the results; answers move on; `JobLifecycle` implemented; every task ends | 339 580 |

Why the bounds are enough. The breaker distinguishes the probe, a caller behind
it and a caller of an earlier era: three callers; threshold 2 is the least for
which one failure counted twice differs from one. Two permits and four tickets
are the least for the semaphore's hand-over of a second permit. Two attempts
give a first, a last, and so both sides of every `attempt < max_retries`. Three
tickets allow a duplicate, a hit and a miss in one job, or two batches of which
one is short. One crash is enough to lose any task. The jobs of `JobPipeline`
do not touch each other's keys: what they share is the active count, which
`JobPipelineProofs` covers for any number of jobs. Two durations are enough for an average that moves both ways; jobs share only it and the gauge, so the second
needs no more than a batch that can be measured at any moment of the first
(`BatcherProofs` covers any number of any requests). Tickets of one complexity differ in
nothing, so a mix is a number of each. A poll
reads two keys of one job, and streams and pollers write nothing a job reads, so one of
each is enough. Four pieces hold an object in an
object behind a stray brace, JSON on both sides of a closing tag, and braces in
the strings of each.

Runs that find a disagreement between the code and what is written about it
(`findings` quotes the lines):

| Run | What happens |
|---|---|
| `breaker_overlap` | a late success closes the circuit under the probe and lets others start beside it |
| `breaker_double_count` | a probe's failure is counted twice and can trip a circuit below its threshold |
| `caller_rate_limited` | a `Retry-After` date fails a 429 at its first attempt |
| `jobs_gauge_leak` | a Redis error in `start()` leaves the job active for ever |
| `jobs_expiry` | a hash that expires under its task is written again without an expiry, and stays |
| `jobs_stream` | a stream opened after the done event never ends |

Other places where the models follow the code and not what is written about it,
without a run of their own:

* callers that meet a probe wait in the lock's queue (`QueueForProbe`); the
  docstring of `_half_open_probe` says they are rejected;
* equal tickets of two jobs that both missed the cache are both sent to the API,
  and NX drops the second answer (`ReadMiss`, `SetIfAbsent`);
* a status that is neither fatal nor eligible (404, 502, 504) is retried at once,
  without a backoff (`OtherStatus`); only the throttle, where it is on, keeps the
  attempts apart (`CallsAreSpaced`);
* every job sets the one `queue_depth` gauge to the size of its own queue, and a POST
  with nothing left to queue sets it to zero while another job's is full (`Submit`,
  `Emit`);
* the progress of a job that outlived its hash is a fraction of the default total 1
  (`HIncrBy`, `NoHash`);
* the docstring of `_extract_json_object` says that every balanced block is tried
  (caller.py:67); a block inside one that failed, or behind a brace that is never
  closed, is not (`NextStart`, `GiveUp`);
* the semaphore is called global (main.py:63) and is one worker's;
* the estimate published after the last batch is still one whole batch
  (`RemainingBatches`).

Every property of a passing run has a mutant: a definition of the model changed
as a plausible bug would change the code, under which the property fails. The
mutated forms stand before the definitions they replace.

## 5. Fairness

* Breaker: resumed waiters run and API calls end (httpx bounds connecting,
  writing, every read and the wait for a connection), seconds pass, and somebody
  calls a circuit that is due. The last is an assumption on the load and is used
  only for `Recovers`: without a caller nothing turns an OPEN circuit HALF_OPEN.
* Caller: as long as some task can take a step, one does: sleeps end, Redis
  answers or fails, API calls end. Nothing is assumed of which task it is, of the
  kind of the responses or of cache entries expiring. Time passes, or a sleep
  under the throttle's lock would not end.
* Parser: it runs; nothing in it waits.
* Batcher: each job's task goes on, and each batch comes back.
* Jobs: weak fairness of each POST, task and subscription; `process_batch` returning
  is `EveryTicketAnswered`. Expiry, crashes, pollers and clients that go away have
  none.

Two of these are assumptions on the environment, not on this code. Redis answers or
raises: the clients set no `socket_timeout` (main.py:37-50), so a connection that stays
open and silent would hold a ticket or a task for ever, against `EveryTicketAnswered`,
`TaskEnds` and `Drains`. And the event loop keeps the job's task: `create_task`'s result is
not kept (routes.py:259), and asyncio refers to a task only weakly.

Deadlock is checked for the breaker and the caller, which time keeps going. Jobs,
batcher and parser runs stop when all is over.

## 6. Proofs

`CircuitBreakerProofs` proves, for every set of callers and all positive
thresholds, windows and timeouts (`BreakerAssumption`; `config.py` requires at
least 1, 5 and 5):

* `Invariant`: `Spec => []IInv`, and from it `TypeCorrect`, `ProbesAreExclusive`,
  `ClosedIsBelowThreshold`, `HalfOpenResolved`;
* `OpenAdmitsNobody`: the action property `NoAdmissionWhileOpen`.

`IInv` joins the invariants with one that makes it inductive: `QueueConsistent`
(the lock's queue holds exactly the waiting callers, once), without which a
caller resumed twice would enter the lock beside another. `TypeOK` includes
`OpenedIsStamped` (not CLOSED exactly when there is an opening time), without which
a record's type is lost when the circuit closes. The proof separates the invariant into the
record (`RecordInv`) and the lock (`LockInv`). `EvictType`, `OnSuccessFacts` and
`OnFailureFacts` state what recording an outcome does to any well-formed record
and are applied twice for a probe; `EnqueueKeepsLockInv` and
`DequeueKeepsLockInv` treat the queue once for all the actions that use it.

`JobPipelineProofs` proves, for every finite set of jobs, every set of streams and
of pollers and all bounds on requests, batches and crashes (`JobAssumption`), each
safety property that `jobs_accounting` checks:

* `Invariant`: `Spec => []IInv`, and from it `TypeCorrect`, `ActiveCountIsExact`,
  `PollerAgreesWithTask`, `NothingMissingFromDone`, `StoredResultsComplete`,
  `DoneResultsAreThere`, `OnlyLeftoversLackExpiry`;
* `EveryEndIsDecided`: the action property `EndedIsDecided`;
* `AnswersDoMoveOn`: the action property `AnswersMoveOn`;
* `JobsImplementLifecycle`: the refinement of `JobLifecycle`.

What `IInv` says of a job depends only on that job's keys, coroutines and locals
(`Fits`). It is stronger than the properties where they are not inductive:
`CountersAddUp` says what the counters in Redis are while an increment is on its
way, and that they never exceed the task's even in a hash that was dropped and
came back; `LocalsAddUp` that every ticket is left or completed, and that a POST
which was not accepted has no task; `KeysFollow` which statuses the task's place
allows and whom a missing expiry can be blamed on; `ResultsFit` how many results are
in Redis. `StreamInv` and `PollInv` say what a reader may still expect: a poller between
its reads is about a job that was accepted, and whose results are there as long as the
hash awaits its expiry, which no step but that expiry takes away. `Live` counts the tasks between
the increment and the `finally`.

The argument goes through one notion, `GoodStep(j)`: job `j` moves to some keys,
places and locals that fit again, the streams are told only by its done event, the
active count moves by the task's weight, and what happened to the keys is allowed
by the contract of `JobLifecycle` (`Contract`). `RequestIsGood`, `ProcessIsGood`
and `ExpiryIsGood` show it of every action; `GoodStepKeeps` draws the invariant
from it once, for the other jobs and the streams too, and `GoodStepRefines` a step
of `JobLifecycle`. Readers, crash and stuttering are treated apart.

`AnswersMoveOn` compares two answers that may lie any number of steps apart. The proof
carries from one to the other what the first one meant (`Remembers`): that the job was
done, or has failed, or that its hash is gone, at a place of the task from which nothing
but `failed` is ever written (`WasDone`, `HasFailed`). `VerdictsStay` shows that no step
takes that back, `AnswerIsRemembered` that a poller is told only what is so.

`TicketCallerProofs` proves, for every finite set of tickets with any keys, all
positive numbers of permits and attempts, every interval and with the breaker on or
off (`CallerAssumption`; `config.py` requires what it says of the numbers):

* `Invariant`: `Spec => []IInv`, and from it `TypeCorrect`, `PermitsAreConserved`,
  `NobodyForgotten`;
* `BreakerIsEmbedded`: the caller is a `CircuitBreaker` to its breaker, and
  `BreakerKeepsItsPromises`: what `CircuitBreakerProofs` shows of it alone holds
  behind the retry loop;
* `CallsSpaced`: the action property `CallsAreSpaced`;
* `CallerImplementsService`: the refinement of `TicketService`;
* `CallerKeepsItsPromises`: the invariant `AnswersBelong`, the bounds on calls, and
  that what is decided of a ticket or cached is not changed, all three from
  `TicketServiceProofs` through the refinement.

`IInv` adds what the properties leave open. `SemQueueAgrees`: the semaphore's queue
holds exactly the tasks that wait or were granted a permit, once each; without it a
permit could be granted to a task that is gone. `TasksAgree` ties the loop's locals to
the place of the task, and is what the refinement reads its outcomes from.
`ThrottleAgrees`: one task sleeps under the throttle's lock, and its sleep and the age
of the last call add up to the interval. `BreakerUnused`: without a breaker nobody
waits for it. `BreakerAgrees` links the model's two program counters of a task, the
loop's and the breaker's; the code has only one, so it is a fact about the composition,
needed for the induction and stated nowhere else. The breaker's part is not proved again: `BP` instantiates
`CircuitBreakerProofs` for the tasks, and `SameSteps` and `SameInvariant` carry its
induction step over to the `CB` the model is built on. Permits are counted as the
cardinality of `Holders`; `ReleaseSlotKeepsSemaphore` and
`EnterWithGrantKeepsSemaphore`, where a permit goes to somebody who has not resumed,
are the heart of it. Each other action has one step lemma, and one more
(`...Implements`) for the refinement, where a step of the breaker, the throttle or the
semaphore is a stutter unless it starts or ends a call.

`TicketServiceProofs` proves of the contract alone, for every finite set of tickets,
any keys and any bounds (`Bounded`): `Promised` (bounded calls, answers that belong to
their tickets), `Final` (verdicts and answers stay and cost no further call) and
`FirstKept` (a cached answer is not replaced before it expires). Its `IInv` adds that a
call that runs is counted and its ticket pending (`EndedCallKeepsBounds` is shared by
the two ways a call ends, with an answer to be cached or without). None of it mentions the semaphore or
the breaker; `SP` and `SameContract` carry it over to the `Service` that the caller
implements, so `AnswersBelong` needs no induction over the caller's steps.

`BatcherProofs` proves, for any set of jobs with any requests, every finite set of tickets of any
lengths, every set of durations and all batch sizes that do not shrink from COMPLEX to
SIMPLE (`BatcherAssumption`; `BATCH_SIZE` is 5, 10, 20, and `EtaCovers` would fail
without that order), each safety property of the run: `Invariant`, `TypeCorrect`,
`EachTicketOnce`, `HardestComeFirst`, `BatchesAreFewest`, `EstimatesCover`,
`LatenciesObserved`.

What `IInv` says of a job depends on that job only (`JobInv`), beside the gauge and the
average (`Frame`); so each action needs one lemma for the job that moves, and
`SameKeeps` does for the others. Three parts make it inductive. `NoHarderLeft`: what is
queued is no harder than what is in a batch, which gives the order when the next batch
is emitted. `ShortIsLast`: a batch is short only if no ticket of its complexity is
left, which a later batch of the same complexity would refute. `CountsAgree`: the
number of batches of a complexity is that of its tickets divided by the batch size,
rounded up, and exact while a ticket of it is left; summed over the complexities when
the queue is empty (`EstimateIsMet`), it bounds the initial estimate from both sides.
`Measured`, of all jobs together, says that whoever
is about to estimate has measured: the default is then gone for every job (`EstimateStep`).
A task that gives up keeps what it has (`AbandonStep`).
`Weight` is exact because `Scale` is a multiple of every size; `RemainingCovers` is the
argument for the estimates, `UpdatedObserved` that for the average.

`ResponseParserProofs` proves each safety property of the run for texts of any length
(`ParserAssumption`: they consist of the tokens): `Invariant`, `TypeCorrect`,
`CleanAnswers`, `ReasoningIsFallback`, `ObjectsFound`.

`IInv` says that the search starts behind the reasoning and never goes back, that the
scan runs only when the whole answer does not parse (`WholeFirst`, from which the first
two properties follow without induction), and that every object it has passed over had
a block around it or an open brace before it (`NothingPassedOver`). The last rests on
how braces nest: `DepthReachesZero` (the scan's depth cannot turn negative without
being zero first), `ObjectIsBlock` (the block at the start of an object is that
object) and `BlocksNest` (a block that starts before an object ends before it starts or
behind its end). The inductions over positions in the text are by a least
counterexample: `Least` draws it from the library's well-foundedness of `<`, since an
induction theorem with an operator parameter cannot be instantiated here.

Each of these invariants was checked with TLC on the bounds of section 4, in place of
the runs' own invariants, before it was proved.

Only model-checked: liveness (`WaiterReturns`, `Recovers`, `EveryTicketAnswered`,
`Drains`, `TaskEnds`, `Terminates`), which needs fairness and `ENABLED` and is beyond
the prover. That the abstraction into tokens fits the strings of a response is a
matter of reading the code; nothing here proves it.

## 7. Not modelled

* Token counts and costs; the counters of /metrics and the latency window, which
  the program only writes and steer nothing. (Read with the models: each unique
  ticket is looked up by the POST and again by its task, so one ticket records two
  misses; `api_calls_total` counts answers and HTTP errors, not responses that do
  not parse or network errors; the statistics of a job add the tokens that cached
  answers cost when they were first paid for; `latency_window_size` is not read.)
* The second worker: it has its own semaphore, breaker, throttle, estimator and
  gauges, and no step relates them; in Redis each job is written by the worker that
  accepted it, and cache keys that appear or vanish are `SetIfAbsent` and `Expire`.
* The size of the connection pools; a pool that overflows raises, as any Redis
  command may here, and a refused subscription is `CloseStream`.
* /health, logging, validation (pydantic enforces the constants' assumptions),
  benchmarks, scripts, monitoring.
