------------------------------- MODULE Batcher -------------------------------
(***************************************************************************)
(* PriorityBatcher of pipeline/batcher.py with the classifier and the      *)
(* estimator of pipeline/estimator.py: every job puts its unique tickets   *)
(* on a priority queue of its own, drains them into batches of one         *)
(* complexity, and after each estimates how long the rest will take.  The  *)
(* jobs of a worker share the queue_depth gauge and the moving average.    *)
(*                                                                         *)
(* drain_batch never suspends.  Its loop is modelled one iteration at a    *)
(* time, and while a job is inside it no other job runs.                   *)
(***************************************************************************)
EXTENDS Integers, Sequences, FiniteSets

CONSTANTS
  Jobs,        \* the jobs of one worker
  Tickets,     \* the tickets they may contain
  Requests,    \* the sets of unique tickets each job may be submitted with
  WordCount,   \* the number of words of each ticket
  SimpleSize, MediumSize, ComplexSize,  \* BATCH_SIZE
  DefaultLatency,  \* default_latency_s, in ms
  Durations        \* how long a batch may take, in ms

ASSUME BatcherAssumption ==
  /\ IsFiniteSet(Tickets)
  /\ Requests \in [Jobs -> SUBSET (SUBSET Tickets)]
  /\ WordCount \in [Tickets -> Nat]
  /\ {SimpleSize, MediumSize, ComplexSize} \subseteq Nat \ {0}
  /\ ComplexSize <= MediumSize /\ MediumSize <= SimpleSize
  /\ Durations \subseteq Nat /\ Durations # {} /\ DefaultLatency \in Nat

VARIABLES
  submitted,  \* the unique tickets of each job's request
  phase,      \* where each job is
  queue,      \* each job's priority queue
  batch,      \* the batch being assembled, NoBatch if none
  batches,    \* the batches each job drained, in order
  depth,      \* the queue_depth gauge
  ewma,       \* _ewma of observed batch durations, NoData before the first
  eta         \* each job's last estimate: batches (in 1/Scale) times latency

vars == <<submitted, phase, queue, batch, batches, depth, ewma, eta>>

Complexities == {"simple", "medium", "complex"}

Classify(w) ==
  IF w < 15 THEN "simple" ELSE IF w <= 60 THEN "medium" ELSE "complex"

Complexity(t) == Classify(WordCount[t])

(* COMPLEXITY_PRIORITY: lower comes first. *)
Priority(c) == CASE c = "complex" -> 0 [] c = "medium" -> 1 [] c = "simple" -> 2

(* BATCH_SIZE *)
SizeOf(c) ==
  CASE c = "complex" -> ComplexSize [] c = "medium" -> MediumSize [] c = "simple" -> SimpleSize

Phases == {"new", "submitted", "processing", "collecting", "calling", "counting",
           "finished", "failed"}
NoData == -1
NoBatch == [complexity |-> "simple", tickets |-> {}]

Init ==
  /\ submitted = [j \in Jobs |-> {}]
  /\ phase = [j \in Jobs |-> "new"]
  /\ queue = [j \in Jobs |-> {}]
  /\ batch = [j \in Jobs |-> NoBatch]
  /\ batches = [j \in Jobs |-> <<>>]
  /\ depth = 0
  /\ ewma = NoData
  /\ eta = [j \in Jobs |-> [batches |-> 0, latency |-> DefaultLatency]]

Draining == {j \in Jobs : phase[j] = "collecting"}

-----------------------------------------------------------------------------
(* ETAEstimator.  Fractions of batches are counted in units of 1/Scale.    *)

Scale == SimpleSize * MediumSize * ComplexSize
CountOf(tickets, c) == Cardinality({t \in tickets : Complexity(t) = c})

(* estimate_initial *)
WeightedBatches(tickets) ==
  CountOf(tickets, "complex") * (Scale \div ComplexSize)
  + CountOf(tickets, "medium") * (Scale \div MediumSize)
  + CountOf(tickets, "simple") * (Scale \div SimpleSize)

(* Mutated form of GroupSize: the batch's complexity is not passed. *)
MeanGroupSize(c) == MediumSize

(* estimate, for what remains behind a batch of complexity c *)
GroupSize(c) == SizeOf(c)
RemainingBatches(n, c) ==
  LET b == n * (Scale \div GroupSize(c)) IN IF b > Scale THEN b ELSE Scale

Latency(e) == IF e = NoData THEN DefaultLatency ELSE e

(* Mutated form of Updated: the default counts as the first sample. *)
UpdatedFromDefault(d) == (3 * d + 7 * Latency(ewma)) \div 10

(* update, with alpha = 0.3 *)
Updated(d) == IF ewma = NoData THEN d ELSE (3 * d + 7 * ewma) \div 10

-----------------------------------------------------------------------------
(* POST /process: the tickets left after deduplication; the gauge is set
   before the task has enqueued anything. *)
Submit(j, tickets) ==
  /\ Draining = {} /\ phase[j] = "new"
  /\ submitted' = [submitted EXCEPT ![j] = tickets]
  /\ phase' = [phase EXCEPT ![j] = "submitted"]
  /\ depth' = Cardinality(tickets)
  /\ eta' = [eta EXCEPT ![j] = [batches |-> WeightedBatches(tickets),
                                latency |-> Latency(ewma)]]
  /\ UNCHANGED <<queue, batch, batches, ewma>>

(* enqueue_many *)
EnqueueMany(j) ==
  /\ Draining = {} /\ phase[j] = "submitted"
  /\ queue' = [queue EXCEPT ![j] = submitted[j]]
  /\ depth' = Cardinality(submitted[j])
  /\ phase' = [phase EXCEPT ![j] = "processing"]
  /\ UNCHANGED <<submitted, batch, batches, ewma, eta>>

(* Mutated form of Front: the comparison of the heap is reversed. *)
Back(q) == {t \in q : \A u \in q : Priority(Complexity(t)) >= Priority(Complexity(u))}

(* The heap yields any ticket of least priority number: equal priorities
   compare equal and the heap is not stable. *)
Front(q) == {t \in q : \A u \in q : Priority(Complexity(t)) <= Priority(Complexity(u))}

(* drain_batch: the first ticket decides the complexity. *)
DrainFirst(j) ==
  /\ Draining = {} /\ phase[j] = "processing" /\ queue[j] # {}
  /\ \E t \in Front(queue[j]) :
       /\ queue' = [queue EXCEPT ![j] = @ \ {t}]
       /\ batch' = [batch EXCEPT ![j] = [complexity |-> Complexity(t), tickets |-> {t}]]
  /\ phase' = [phase EXCEPT ![j] = "collecting"]
  /\ UNCHANGED <<submitted, batches, depth, ewma, eta>>

(* Mutated form of Wanted: one ticket more than the batch size. *)
WantedOneMore(j) ==
  Cardinality(batch[j].tickets) <= SizeOf(batch[j].complexity) /\ queue[j] # {}

(* Mutated form of Wanted: the first ticket is counted twice. *)
WantedOneLess(j) ==
  Cardinality(batch[j].tickets) + 1 < SizeOf(batch[j].complexity) /\ queue[j] # {}

(* The condition of the collecting loop. *)
Wanted(j) ==
  Cardinality(batch[j].tickets) < SizeOf(batch[j].complexity) /\ queue[j] # {}

Collect(j) ==
  /\ phase[j] = "collecting" /\ Wanted(j)
  /\ \E t \in Front(queue[j]) :
       /\ Complexity(t) = batch[j].complexity
       /\ queue' = [queue EXCEPT ![j] = @ \ {t}]
       /\ batch' = [batch EXCEPT ![j].tickets = @ \cup {t}]
  /\ UNCHANGED <<submitted, phase, batches, depth, ewma, eta>>

Emit(j, q) ==
  /\ batches' = [batches EXCEPT ![j] = Append(@, batch[j])]
  /\ batch' = [batch EXCEPT ![j] = NoBatch]
  /\ queue' = [queue EXCEPT ![j] = q]
  /\ depth' = Cardinality(q)
  /\ phase' = [phase EXCEPT ![j] = "calling"]
  /\ UNCHANGED <<submitted, ewma, eta>>

(* Mutated form of PutBack: the candidate is not put back. *)
DropCandidate(j) ==
  /\ phase[j] = "collecting" /\ Wanted(j)
  /\ \E t \in Front(queue[j]) :
       Complexity(t) # batch[j].complexity /\ Emit(j, queue[j] \ {t})

(* Mutated form of PutBack: the loop is not left. *)
PutBackAndGoOn(j) ==
  /\ phase[j] = "collecting" /\ Wanted(j)
  /\ \E t \in Front(queue[j]) : Complexity(t) # batch[j].complexity
  /\ UNCHANGED vars

(* A candidate of another complexity is taken and put back: stop. *)
PutBack(j) ==
  /\ phase[j] = "collecting" /\ Wanted(j)
  /\ \E t \in Front(queue[j]) :
       Complexity(t) # batch[j].complexity /\ Emit(j, (queue[j] \ {t}) \cup {t})

(* The batch is full or the queue is empty. *)
Filled(j) ==
  /\ phase[j] = "collecting" /\ ~Wanted(j)
  /\ Emit(j, queue[j])

(* drain_batch returns None: the job leaves its loop. *)
Exhausted(j) ==
  /\ Draining = {} /\ phase[j] = "processing" /\ queue[j] = {}
  /\ phase' = [phase EXCEPT ![j] = "finished"]
  /\ UNCHANGED <<submitted, queue, batch, batches, depth, ewma, eta>>

(* process_batch returns: measure the batch, then await increment_progress. *)
BatchDone(j, d) ==
  /\ Draining = {} /\ phase[j] = "calling"
  /\ ewma' = Updated(d)
  /\ phase' = [phase EXCEPT ![j] = "counting"]
  /\ UNCHANGED <<submitted, queue, batch, batches, depth, eta>>

(* The batch is counted: estimate the rest, with what other jobs measured
   meanwhile, and publish it. *)
Estimate(j) ==
  /\ Draining = {} /\ phase[j] = "counting"
  /\ eta' = [eta EXCEPT ![j] =
       [batches |-> RemainingBatches(Cardinality(queue[j]),
                                     batches[j][Len(batches[j])].complexity),
        latency |-> Latency(ewma)]]
  /\ phase' = [phase EXCEPT ![j] = "processing"]
  /\ UNCHANGED <<submitted, queue, batch, batches, depth, ewma>>

(* start, increment_progress or publish_progress raises: the task gives up
   with what is queued, and leaves the gauge as it is. *)
Abandon(j) ==
  /\ Draining = {} /\ phase[j] \in {"processing", "counting"}
  /\ phase' = [phase EXCEPT ![j] = "failed"]
  /\ UNCHANGED <<submitted, queue, batch, batches, depth, ewma, eta>>

DrainBatch(j) == DrainFirst(j) \/ Collect(j) \/ PutBack(j) \/ Filled(j) \/ Exhausted(j)

Next ==
  \E j \in Jobs :
    \/ \E tickets \in Requests[j] : Submit(j, tickets)
    \/ EnqueueMany(j)
    \/ DrainBatch(j)
    \/ \E d \in Durations : BatchDone(j, d)
    \/ Estimate(j)
    \/ Abandon(j)

Spec == Init /\ [][Next]_vars

(* The jobs' tasks go on: the caller answers every batch (EveryTicketAnswered
   of TicketCaller), Redis answers or fails, and the other steps wait for
   nothing. *)
FairSpec ==
  Spec /\ \A j \in Jobs :
    WF_vars(\/ EnqueueMany(j) \/ DrainBatch(j) \/ Estimate(j)
            \/ \E d \in Durations : BatchDone(j, d))

-----------------------------------------------------------------------------
(* Types, and every batch holds at most its size of tickets, all of its    *)
(* complexity.                                                             *)
IsBatch(b) ==
  /\ b.complexity \in Complexities
  /\ b.tickets \in SUBSET Tickets
  /\ Cardinality(b.tickets) <= SizeOf(b.complexity)
  /\ \A t \in b.tickets : Complexity(t) = b.complexity
TypeOK ==
  /\ submitted \in [Jobs -> SUBSET Tickets]
  /\ phase \in [Jobs -> Phases]
  /\ queue \in [Jobs -> SUBSET Tickets]
  /\ \A j \in Jobs : IsBatch(batch[j])
  /\ \A j \in Jobs : \A i \in DOMAIN batches[j] : IsBatch(batches[j][i])
  /\ depth \in 0 .. Cardinality(Tickets)
  /\ ewma \in Nat \cup {NoData}
  /\ eta \in [Jobs -> [batches : Nat, latency : Nat]]

(* No ticket is lost, drained twice or invented on its way from the        *)
(* request through the queue and the candidate put back to a batch.        *)
Drained(j) == UNION {batches[j][i].tickets : i \in DOMAIN batches[j]}
TicketsOnce(j) ==
  phase[j] \notin {"new", "submitted"} =>
    /\ submitted[j] = queue[j] \cup batch[j].tickets \cup Drained(j)
    /\ queue[j] \cap (batch[j].tickets \cup Drained(j)) = {}
    /\ batch[j].tickets \cap Drained(j) = {}
    /\ \A i, k \in DOMAIN batches[j] :
         i # k => batches[j][i].tickets \cap batches[j][k].tickets = {}
EveryTicketOnce == \A j \in Jobs : TicketsOnce(j)

(* COMPLEX before MEDIUM before SIMPLE, across all batches of a job.       *)
Ordered(j) ==
  \A i, k \in DOMAIN batches[j] :
    i < k => Priority(batches[j][i].complexity) <= Priority(batches[j][k].complexity)
HardestFirst == \A j \in Jobs : Ordered(j)

(* Only the last batch of a complexity may be short, so a finished job has *)
(* used the fewest batches its tickets allow, and the initial estimate,    *)
(* which counts fractions, was at most one batch per complexity too low    *)
(* and never too high.                                                     *)
FullBeforeNext(j) ==
  \A i, k \in DOMAIN batches[j] :
    i < k /\ batches[j][i].complexity = batches[j][k].complexity
      => Cardinality(batches[j][i].tickets) = SizeOf(batches[j][i].complexity)
EstimateMet(j) ==
  phase[j] = "finished" =>
    LET estimate == WeightedBatches(submitted[j])
        used     == {Complexity(t) : t \in submitted[j]}
    IN  /\ estimate <= Len(batches[j]) * Scale
        /\ Len(batches[j]) * Scale <= estimate + Cardinality(used) * Scale
FewestBatches == \A j \in Jobs : FullBeforeNext(j) /\ EstimateMet(j)

(* An estimate never promises fewer batches than the fractions that are    *)
(* left: it divides by the size of the batch just done, and because harder *)
(* tickets come first nothing that is left goes in smaller batches.        *)
Covered(j) ==
  phase[j] \in {"submitted", "processing"} =>
    eta[j].batches >= WeightedBatches(queue[j])
EtaCovers == \A j \in Jobs : Covered(j)

(* Once a batch has been measured, by whichever job, the average and the   *)
(* estimates that follow a batch use a latency between the shortest and    *)
(* the longest that were possible, and no trace of the default is left.    *)
Observable(e) == \E d1, d2 \in Durations : d1 <= e /\ e <= d2
LatencyIsObserved ==
  /\ ewma # NoData => Observable(ewma)
  /\ \A j \in Jobs :
       phase[j] = "processing" /\ batches[j] # <<>> => Observable(eta[j].latency)

(* Every submitted job drains its queue, or Redis failed it.               *)
Drains == \A j \in Jobs : phase[j] = "submitted" ~> phase[j] \in {"finished", "failed"}

-----------------------------------------------------------------------------
(* The inductive invariant behind the safety theorems.                     *)

BatchTypes == [complexity : Complexities, tickets : SUBSET Tickets]
Shapes ==
  /\ batch \in [Jobs -> BatchTypes]
  /\ batches \in [Jobs -> Seq(BatchTypes)]

(* What a job's queue and batches hold in each phase.                      *)
PhaseAgrees(j) ==
  /\ phase[j] \in {"new", "submitted"} => queue[j] = {} /\ batches[j] = <<>>
  /\ phase[j] = "collecting" <=> batch[j].tickets # {}
  /\ phase[j] \in {"calling", "counting"} => batches[j] # <<>>
  /\ phase[j] = "finished" => queue[j] = {}
  /\ phase[j] = "submitted" => eta[j].batches >= WeightedBatches(submitted[j])

(* Whoever is about to estimate has measured.                              *)
Measured == (\E j \in Jobs : phase[j] = "counting") => ewma # NoData

(* What is not in a batch yet is no harder than what is.                   *)
NoHarderLeft(j) ==
  /\ \A t \in queue[j], u \in batch[j].tickets :
       Priority(Complexity(u)) <= Priority(Complexity(t))
  /\ \A i \in DOMAIN batches[j], t \in queue[j] \cup batch[j].tickets :
       Priority(batches[j][i].complexity) <= Priority(Complexity(t))

(* A batch is short only when no ticket of its complexity is left.         *)
ShortIsLast(j) ==
  \A i \in DOMAIN batches[j], t \in queue[j] \cup batch[j].tickets :
    Complexity(t) = batches[j][i].complexity
      => Cardinality(batches[j][i].tickets) = SizeOf(batches[j][i].complexity)

(* The batches of a complexity are as many as its tickets need, and all    *)
(* full while a ticket of it is left.                                      *)
BatchesOf(j, c) == Cardinality({i \in DOMAIN batches[j] : batches[j][i].complexity = c})
CountsAgree(j, c) ==
  /\ CountOf(Drained(j), c) <= BatchesOf(j, c) * SizeOf(c)
  /\ (BatchesOf(j, c) - 1) * SizeOf(c) < CountOf(Drained(j), c)
  /\ (\E t \in queue[j] \cup batch[j].tickets : Complexity(t) = c)
       => CountOf(Drained(j), c) = BatchesOf(j, c) * SizeOf(c)

IInv ==
  /\ TypeOK /\ Shapes /\ Measured
  /\ EveryTicketOnce /\ HardestFirst /\ FewestBatches /\ EtaCovers /\ LatencyIsObserved
  /\ \A j \in Jobs :
       /\ PhaseAgrees(j) /\ NoHarderLeft(j) /\ ShortIsLast(j)
       /\ \A c \in Complexities : CountsAgree(j, c)

=============================================================================
