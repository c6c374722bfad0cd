-------------------------- MODULE JobPipelineProofs --------------------------
(***************************************************************************)
(* Theorems about JobPipeline, for any finite set of jobs, any set of      *)
(* clients, and any bounds on requests, batches and crashes.               *)
(***************************************************************************)
EXTENDS JobPipeline, FiniteSetTheorems, TLAPS

-----------------------------------------------------------------------------
(* The inductive invariant.  What it says of one job only depends on that  *)
(* job's keys, coroutines and local variables.                             *)

HashType == [exists : BOOLEAN, status : Statuses, total : Nat, completed : Nat,
             failed : Nat, hits : Nat, ttl : BOOLEAN]
BatchType == [ok : Nat, failed : Nat, hits : Nat]
LocalType == [total : Nat, left : Nat, completed : Nat, failed : Nat, hits : Nat,
              repeated : Nat, results : Nat, batch : BatchType]
ReqPlaces == {"new", "creating", "expiring", "counting", "accepted", "refused"}
Before == {"none", "scheduled", "starting"}
Looping == {"batch", "counting", "publishing"}
LivePlaces == {"starting", "finishing", "announcing", "failing", "leaked"} \cup Looping
TaskPlaces == Before \cup LivePlaces \cup {"ended", "abandoned", "lost"}
StreamType == [at : {"new", "subscribing", "open", "ended", "closed"}, job : Jobs]
PollType == [at : {"new", "reading", "not_found", "progress", "failed", "done",
                   "no_results", "redis_error", "closed"}, job : Jobs]

Typed ==
  /\ hash \in [Jobs -> HashType]
  /\ stored \in [Jobs -> [exists : BOOLEAN, count : Nat]]
  /\ req \in [Jobs -> ReqPlaces]
  /\ task \in [Jobs -> TaskPlaces]
  /\ job \in [Jobs -> LocalType]
  /\ stream \in [Streams -> StreamType]
  /\ poll \in [Pollers -> PollType]
  /\ crashes \in 0 .. MaxCrashes

(* The local variables: every ticket is left, or completed, and has a       *)
(* result unless it repeats another.                                       *)
LocalsAddUp(r, t, b) ==
  /\ b.left + b.completed = b.total /\ b.total <= MaxTickets
  /\ b.hits <= b.completed /\ b.results + b.repeated = b.completed
  /\ b.failed <= b.completed
  /\ b.batch.ok + b.batch.failed <= b.completed /\ b.batch.hits <= b.completed
  /\ r \notin {"new", "refused"} => b.total > 0
  /\ t = "none" => b.failed = 0 /\ b.batch.ok = 0 /\ b.batch.failed = 0 /\ b.batch.hits = 0
  /\ t \in {"finishing", "announcing"} => b.left = 0
  /\ t = "none" <=> r # "accepted"

(* The counters in Redis: never more than the task's, and as many at all
   places where no command is on its way, for a hash that was not dropped. *)
CountersAddUp(h, r, t, b) ==
  /\ h.completed + h.failed <= b.completed
  /\ h.failed <= b.failed /\ h.hits <= b.hits
  /\ r \in {"new", "creating", "expiring", "counting"} =>
       h.completed = 0 /\ h.failed = 0 /\ h.hits = 0
  /\ r \in {"new", "creating"} => h.total = 0
  /\ t = "counting" =>
       /\ h.completed + h.failed + b.batch.ok + b.batch.failed <= b.completed
       /\ h.failed + b.batch.failed <= b.failed /\ h.hits + b.batch.hits <= b.hits
  /\ h.total > 0 =>
       /\ h.total = b.total
       /\ t \in {"scheduled", "starting", "batch", "publishing", "finishing", "announcing"} =>
            h.completed + h.failed = b.completed /\ h.failed = b.failed /\ h.hits = b.hits
       /\ t = "counting" =>
            /\ h.completed + h.failed + b.batch.ok + b.batch.failed = b.completed
            /\ h.failed + b.batch.failed = b.failed /\ h.hits + b.batch.hits = b.hits

(* A job that reads as done has accounted for all its tickets. *)
DoneAddsUp(h) == h.total > 0 /\ h.status = "done" => h.completed + h.failed = h.total

(* The stored results are those of all tickets but the repeated ones. *)
ResultsFit(s, r, b) ==
  /\ s.count <= b.completed /\ (r # "accepted" => s.count = 0)
  /\ s.exists => s.count + b.repeated = b.total

(* The keys: the status follows the task, the expiry the POST. *)
KeysFollow(h, s, r, t) ==
  /\ r \in {"new", "creating"} => h = NoHash
  /\ t \in Before => h.status \in {"", "pending"}
  /\ t \in Looping \cup {"finishing"} => h.status \in {"", "processing"}
  /\ t = "announcing" => h.status = "done" \/ h = NoHash
  /\ t = "failing" => h.status \in {"", "processing", "done"}
  /\ t = "ended" => h.status \in {"", "done", "failed"}
  /\ h.status = "done" => t \in {"announcing", "failing", "ended", "abandoned", "lost"}
  /\ h.status = "failed" => t \in {"ended", "abandoned"}
  /\ h.total > 0 => h.exists
  /\ h.total > 0 /\ ~h.ttl => r \in {"expiring", "refused"}
  /\ s.exists => r = "accepted"
  /\ h.ttl /\ (h.status = "done" \/ t = "announcing") => s.exists

Fits(h, s, r, t, b) ==
  /\ LocalsAddUp(r, t, b) /\ CountersAddUp(h, r, t, b)
  /\ DoneAddsUp(h) /\ ResultsFit(s, r, b) /\ KeysFollow(h, s, r, t)

JobInv(j) == Fits(hash[j], stored[j], req[j], task[j], job[j])

(* A stream that has ended was told so by its job, whose results are kept. *)
StreamInv(s) ==
  stream[s].at = "ended" =>
    /\ req[stream[s].job] = "accepted"
    /\ hash[stream[s].job].ttl => stored[stream[s].job].exists

(* A poller that was told of a done job finds the results, or the hash has *)
(* lost its expiry.                                                        *)
PollInv(p) ==
  poll[p].at \in {"reading", "no_results"} =>
    /\ req[poll[p].job] = "accepted"
    /\ hash[poll[p].job].ttl =>
         stored[poll[p].job].exists /\ poll[p].at # "no_results"

Live == {j \in Jobs : task[j] \in LivePlaces}

IInv ==
  /\ Typed
  /\ \A j \in Jobs : JobInv(j)
  /\ \A s \in Streams : StreamInv(s)
  /\ \A p \in Pollers : PollInv(p)
  /\ active = Cardinality(Live)

-----------------------------------------------------------------------------
(* Most steps are one job's: it goes on with the hash h, the results s, the *)
(* POST at r, the task at t and the local variables b.                     *)

(* What the contract of JobLifecycle lets happen to one job, whose hash and *)
(* results go from h and s to h1 and s1.                                   *)
Accounted(h) == h.completed + h.failed
SameState(h, h1) ==
  h1.status = h.status /\ h1.total = h.total /\ Accounted(h1) = Accounted(h)
NoState(h) == h.status = "" /\ h.total = 0 /\ Accounted(h) = 0

Stutters(h, s, h1, s1) == SameState(h, h1) /\ s1.exists = s.exists
Accepts(h, s, h1, s1) ==
  /\ NoState(h) /\ s1.exists = s.exists
  /\ h1.status = "pending" /\ h1.total \in 1 .. MaxTickets /\ Accounted(h1) = 0
Accounts(h, s, h1, s1) ==
  /\ h.status \notin {"done", "failed"} /\ s1.exists = s.exists
  /\ h1.status = h.status /\ h1.total = h.total
  /\ Accounted(h1) \in Accounted(h) .. MaxTickets
  /\ h.total > 0 => Accounted(h1) <= h.total
Proceeds(h, s, h1, s1) ==
  /\ h1.total = h.total /\ Accounted(h1) = Accounted(h)
  /\ \/ h.status \in {"", "pending"} /\ h1.status = "processing" /\ s1.exists = s.exists
     \/ /\ h.status \in {"", "processing"} /\ h1.status = "done" /\ s1.exists
        /\ h.total > 0 => Accounted(h) = h.total
     \/ /\ h.status \in {"", "processing", "done"} /\ h1.status = "failed"
        /\ s1.exists = s.exists
IsForgotten(h, s, h1, s1) == NoState(h1) /\ s1.exists = s.exists
DropsResults(h, s, h1, s1) == h.total = 0 /\ SameState(h, h1) /\ ~s1.exists

Contract(h, s, h1, s1) ==
  \/ Stutters(h, s, h1, s1) \/ Accepts(h, s, h1, s1) \/ Accounts(h, s, h1, s1)
  \/ Proceeds(h, s, h1, s1) \/ IsForgotten(h, s, h1, s1) \/ DropsResults(h, s, h1, s1)

Weight(t) == IF t \in LivePlaces THEN 1 ELSE 0

Becomes(j, h, s, r, t, b) ==
  /\ h \in HashType /\ s \in [exists : BOOLEAN, count : Nat]
  /\ r \in ReqPlaces /\ t \in TaskPlaces /\ b \in LocalType
  /\ hash' = [hash EXCEPT ![j] = h] /\ stored' = [stored EXCEPT ![j] = s]
  /\ req' = [req EXCEPT ![j] = r] /\ task' = [task EXCEPT ![j] = t]
  /\ job' = [job EXCEPT ![j] = b] /\ crashes' = crashes /\ poll' = poll
  /\ active' = active + Weight(t) - Weight(task[j])

(* Who was told that the job is done still finds the results. *)
Keeps(j, h, s, r) ==
  req[j] = "accepted" =>
    r = "accepted" /\ (h.ttl => hash[j].ttl /\ (stored[j].exists => s.exists))

Tells(j, h, s) ==
  \/ stream' = stream
  \/ stream' = Delivered(j) /\ task[j] = "announcing" /\ h = hash[j] /\ s = stored[j]

GoodStep(j) ==
  \E h, s, r, t, b :
    /\ Becomes(j, h, s, r, t, b) /\ Fits(h, s, r, t, b)
    /\ Keeps(j, h, s, r) /\ Tells(j, h, s) /\ Contract(hash[j], stored[j], h, s)

(* The number of live tasks follows the task that moves. *)
LEMMA LiveStep ==
  ASSUME Typed, NEW j \in Jobs, NEW w \in TaskPlaces, task' = [task EXCEPT ![j] = w]
  PROVE  /\ Cardinality(Live) \in Nat
         /\ Cardinality(Live') = Cardinality(Live) + Weight(w) - Weight(task[j])
<1>1. IsFiniteSet(Live)
  BY JobAssumption, FS_Subset DEF Live
<1>3. task'[j] = w
  BY DEF Typed
<1>4. (task[j] \in LivePlaces <=> w \in LivePlaces) => Live' = Live
  BY DEF Live
<1>5. task[j] \notin LivePlaces /\ w \in LivePlaces => Live' = Live \cup {j} /\ j \notin Live
  BY <1>3 DEF Live
<1>6. task[j] \in LivePlaces /\ w \notin LivePlaces => Live' = Live \ {j} /\ j \in Live
  BY <1>3 DEF Live
<1>7. Cardinality(Live) \in Nat
  BY <1>1, FS_CardinalityType
<1> QED
  BY <1>1, <1>4, <1>5, <1>6, <1>7, FS_AddElement, FS_RemoveElement DEF Weight

(* A good step of one job keeps the invariant, of the other jobs, of the   *)
(* streams and of the pollers too.                                         *)
LEMMA GoodStepKeeps ==
  ASSUME IInv, NEW j \in Jobs, GoodStep(j)
  PROVE  IInv'
<1>1. PICK h, s, r, t, b :
         /\ Becomes(j, h, s, r, t, b) /\ Fits(h, s, r, t, b)
         /\ Keeps(j, h, s, r) /\ Tells(j, h, s) /\ Contract(hash[j], stored[j], h, s)
  BY DEF GoodStep
<1>2. Typed
  BY DEF IInv
<1>3. stream' \in [Streams -> StreamType]
  BY <1>1, <1>2 DEF Tells, Delivered, Typed, StreamType
<1>4. Typed'
  BY <1>1, <1>2, <1>3 DEF Becomes, Typed
<1>5. \A k \in Jobs \ {j} : /\ hash'[k] = hash[k] /\ stored'[k] = stored[k]
                            /\ req'[k] = req[k] /\ task'[k] = task[k] /\ job'[k] = job[k]
  BY <1>1 DEF Becomes
<1>6. hash'[j] = h /\ stored'[j] = s /\ req'[j] = r /\ task'[j] = t /\ job'[j] = b
  BY <1>1, <1>2 DEF Becomes, Typed
<1>7. ASSUME NEW k \in Jobs PROVE JobInv(k)'
  BY <1>1, <1>5, <1>6 DEF IInv, JobInv
<1>8. ASSUME NEW c \in Streams PROVE StreamInv(c)'
  <2>1. StreamInv(c) /\ stream[c] \in StreamType /\ JobInv(j)
    BY DEF IInv, Typed
  <2>2. CASE stream'[c] = stream[c]
    BY <1>1, <1>5, <1>6, <2>1, <2>2 DEF StreamInv, Keeps, StreamType
  <2>3. CASE stream'[c] # stream[c]
    <3>1. /\ task[j] = "announcing" /\ h = hash[j] /\ s = stored[j]
          /\ stream'[c].job = j
      BY <1>1, <2>1, <2>3 DEF Tells, Delivered, StreamType
    <3>2. req[j] = "accepted" /\ (hash[j].ttl => stored[j].exists)
      BY <2>1, <3>1 DEF JobInv, Fits, LocalsAddUp, KeysFollow
    <3> QED
      BY <1>1, <1>6, <3>1, <3>2 DEF StreamInv, Keeps
  <2> QED
    BY <2>2, <2>3
<1>9. ASSUME NEW p \in Pollers PROVE PollInv(p)'
  <2>1. PollInv(p) /\ poll[p] \in PollType /\ poll' = poll
    BY <1>1 DEF IInv, Typed, Becomes
  <2> QED
    BY <1>1, <1>5, <1>6, <2>1 DEF PollInv, Keeps, PollType
<1>10. active' = Cardinality(Live')
  BY <1>1, LiveStep DEF Becomes, IInv
<1> QED
  BY <1>4, <1>7, <1>8, <1>9, <1>10 DEF IInv
-----------------------------------------------------------------------------
(* What each command does to the fields of a hash.                         *)
SameCounters(h, h1) ==
  h1.completed = h.completed /\ h1.failed = h.failed /\ h1.hits = h.hits

(* HSET of a status leaves the counters, the total and the expiry alone. *)
LEMMA SetStatusFields ==
  ASSUME NEW h \in HashType, NEW s \in Statuses
  PROVE  /\ HSetStatus(h, s) \in HashType
         /\ SameCounters(h, HSetStatus(h, s))
         /\ HSetStatus(h, s).exists /\ HSetStatus(h, s).status = s
         /\ HSetStatus(h, s).total = h.total /\ HSetStatus(h, s).ttl = h.ttl
BY DEF HSetStatus, HashType, SameCounters

(* HINCRBY adds the batch to the counters and leaves the rest alone. *)
LEMMA IncrByFields ==
  ASSUME NEW h \in HashType, NEW b \in BatchType
  PROVE  /\ HIncrBy(h, b) \in HashType
         /\ HIncrBy(h, b).completed = h.completed + b.ok
         /\ HIncrBy(h, b).failed = h.failed + b.failed
         /\ HIncrBy(h, b).hits = h.hits + b.hits
         /\ HIncrBy(h, b).exists /\ HIncrBy(h, b).status = h.status
         /\ HIncrBy(h, b).total = h.total /\ HIncrBy(h, b).ttl = h.ttl
<1>1. h.completed \in Nat /\ h.failed \in Nat /\ h.hits \in Nat
  BY DEF HashType
<1>2. b.ok \in Nat /\ b.failed \in Nat /\ b.hits \in Nat
  BY DEF BatchType
<1>3. h.completed + b.ok \in Nat /\ h.failed + b.failed \in Nat /\ h.hits + b.hits \in Nat
  BY <1>1, <1>2
<1> QED
  BY <1>3 DEF HIncrBy, HashType

(* EXPIRE gives an expiry to a hash that is there, and does nothing else. *)
LEMMA WithTtlFields ==
  ASSUME NEW h \in HashType
  PROVE  /\ WithTtl(h) \in HashType /\ SameCounters(h, WithTtl(h))
         /\ WithTtl(h).exists = h.exists /\ WithTtl(h).status = h.status
         /\ WithTtl(h).total = h.total /\ WithTtl(h).ttl = h.exists
BY DEF WithTtl, HashType, SameCounters

(* The hash that JobStore.create writes. *)
LEMMA CreatedFields ==
  ASSUME NEW n \in Nat
  PROVE  /\ Created(n) \in HashType
         /\ Created(n).completed = 0 /\ Created(n).failed = 0 /\ Created(n).hits = 0
         /\ Created(n).exists /\ Created(n).status = "pending"
         /\ Created(n).total = n /\ ~Created(n).ttl
BY DEF Created, NoHash, HashType, Statuses

(* A missing hash reads as an empty status and has no expiry, *)
LEMMA NoHashFields ==
  NoHash \in HashType /\ NoHash.status = "" /\ ~NoHash.exists /\ ~NoHash.ttl
BY DEF NoHash, HashType, Statuses

(* and its numbers read as 0. *)
LEMMA NoHashNumbers ==
  NoHash.completed = 0 /\ NoHash.failed = 0 /\ NoHash.hits = 0 /\ NoHash.total = 0
BY DEF NoHash

(* The handler counts every ticket of the request as left or completed. *)
LEMMA CountedFields ==
  ASSUME NEW b \in LocalType, NEW n \in Nat, NEW dups \in 0 .. n - 1, NEW hits \in 0 .. n - dups
  PROVE  LET c == Counted(b, n, dups, hits)
         IN  /\ c \in LocalType /\ c.total = n /\ c.total \in Nat
             /\ c.left + c.completed = c.total /\ c.left \in Nat /\ c.completed \in Nat
             /\ c.hits = c.completed /\ c.results + c.repeated = c.completed
             /\ c.results \in Nat /\ c.repeated \in Nat
             /\ c.failed = b.failed /\ c.batch = b.batch
<1> DEFINE left == n - dups - hits
           done == dups + hits
<1>1. /\ left \in Nat /\ done \in Nat /\ hits \in Nat /\ dups \in Nat
      /\ hits + dups = done /\ left + done = n
  OBVIOUS
<1>2. Counted(b, n, dups, hits) = [b EXCEPT !.total = n, !.left = left, !.completed = done,
                                            !.hits = done, !.repeated = dups,
                                            !.results = hits]
  BY DEF Counted
<1> HIDE DEF left, done
<1>3. Counted(b, n, dups, hits) \in LocalType
  BY <1>1, <1>2 DEF LocalType
<1>4. LET c == Counted(b, n, dups, hits)
      IN  /\ c.total = n /\ c.left = left /\ c.completed = done /\ c.hits = done
          /\ c.repeated = dups /\ c.results = hits
          /\ c.failed = b.failed /\ c.batch = b.batch
  BY <1>2 DEF LocalType
<1> QED
  BY <1>1, <1>3, <1>4

(* A batch of n tickets moves n from those left to those completed, with  *)
(* their results, and splits them into answered and failed.                *)
LEMMA AnsweredFields ==
  ASSUME NEW b \in LocalType, NEW n \in Nat, NEW f \in 0 .. n, NEW hits \in 0 .. n - f,
         n <= b.left
  PROVE  LET c == Answered(b, n, f, hits)
         IN  /\ c \in LocalType /\ c.total = b.total
             /\ c.left = b.left - n /\ c.completed = b.completed + n
             /\ c.failed = b.failed + f /\ c.hits = b.hits + hits
             /\ c.results = b.results + n /\ c.repeated = b.repeated
             /\ c.batch.ok = n - f /\ c.batch.failed = f /\ c.batch.hits = hits
<1> DEFINE left == b.left - n
           done == b.completed + n
           failed == b.failed + f
           cached == b.hits + hits
           results == b.results + n
           batch == [ok |-> n - f, failed |-> f, hits |-> hits]
<1>1. /\ b.left \in Nat /\ b.completed \in Nat /\ b.failed \in Nat /\ b.hits \in Nat
      /\ b.results \in Nat
  BY DEF LocalType
<1>3. /\ left \in Nat /\ done \in Nat /\ failed \in Nat /\ cached \in Nat /\ results \in Nat
  BY <1>1
<1>4. batch \in BatchType /\ batch.ok = n - f /\ batch.failed = f /\ batch.hits = hits
  BY DEF BatchType
<1>5. Answered(b, n, f, hits) =
        [b EXCEPT !.left = left, !.completed = done, !.failed = failed, !.hits = cached,
                  !.results = results, !.batch = batch]
  BY DEF Answered
<1>6. Answered(b, n, f, hits) \in LocalType
  <2> HIDE DEF left, done, failed, cached, results, batch
  <2> QED
    BY <1>3, <1>4, <1>5 DEF LocalType
<1>7. LET c == Answered(b, n, f, hits)
      IN  /\ c.total = b.total /\ c.left = left /\ c.completed = done /\ c.failed = failed
          /\ c.hits = cached /\ c.results = results /\ c.batch = batch
          /\ c.repeated = b.repeated
  <2> HIDE DEF left, done, failed, cached, results, batch
  <2> QED
    BY <1>5
<1> QED
  BY <1>6, <1>7

(* Tickets accounted for within the total are what the contract allows to  *)
(* a job that is neither done nor failed.                                  *)
LEMMA AccountsWithinTotal ==
  ASSUME NEW h, NEW s, NEW h1,
         h1.status = h.status, h1.total = h.total, h.status \notin {"done", "failed"},
         Accounted(h1) \in Accounted(h) .. MaxTickets,
         h.total > 0 => Accounted(h1) <= h.total
  PROVE  Contract(h, s, h1, s)
<1>1. Accounts(h, s, h1, s)
  BY Zenon DEF Accounts
<1> QED
  BY <1>1, Zenon DEF Contract

(* What is known of the job that moves. *)
Known(j) ==
  /\ hash[j] \in HashType /\ stored[j] \in [exists : BOOLEAN, count : Nat]
  /\ req[j] \in ReqPlaces /\ task[j] \in TaskPlaces /\ job[j] \in LocalType
  /\ active \in Int /\ MaxTickets \in Nat /\ stored[j].count \in Nat

Numbers(h, b) ==
  /\ h.total \in Nat /\ h.completed \in Nat /\ h.failed \in Nat /\ h.hits \in Nat
  /\ b.total \in Nat /\ b.left \in Nat /\ b.completed \in Nat /\ b.failed \in Nat
  /\ b.hits \in Nat /\ b.results \in Nat /\ b.repeated \in Nat
  /\ b.batch \in BatchType
  /\ b.batch.ok \in Nat /\ b.batch.failed \in Nat /\ b.batch.hits \in Nat

(* A key or a place that the step leaves alone. *)
Stays(j) ==
  /\ hash = [hash EXCEPT ![j] = hash[j]] /\ stored = [stored EXCEPT ![j] = stored[j]]
  /\ req = [req EXCEPT ![j] = req[j]] /\ task = [task EXCEPT ![j] = task[j]]
  /\ job = [job EXCEPT ![j] = job[j]]

(* The invariant gives what is known of any job. *)
LEMMA JobAtRest ==
  ASSUME IInv, NEW j \in Jobs
  PROVE  Known(j) /\ Numbers(hash[j], job[j]) /\ Stays(j) /\ JobInv(j)
<1>1. Cardinality(Live) \in Nat
  BY JobAssumption, FS_Subset, FS_CardinalityType DEF Live
<1>2. Known(j)
  BY <1>1, JobAssumption DEF IInv, Typed, Known
<1>4. Numbers(hash[j], job[j])
  BY <1>2 DEF Known, Numbers, HashType, LocalType, BatchType
<1> QED
  BY <1>2, <1>4 DEF IInv, Typed, Stays

(* Every step of POST /process, its failing commands included. *)
LEMMA RequestIsGood ==
  ASSUME IInv, NEW j \in Jobs, Request(j)
  PROVE  GoodStep(j)
<1>0. Known(j) /\ Numbers(hash[j], job[j]) /\ Stays(j) /\ JobInv(j)
  BY JobAtRest
<1>1. CASE Deduplicate(j)
  <2>1. req[j] = "new" /\ task[j] = "none"
    BY <1>0, <1>1 DEF Deduplicate, JobInv, Fits, LocalsAddUp
  <2>2. PICK n \in 1 .. MaxTickets : \E dups \in 0 .. n - 1 : \E hits \in 0 .. n - dups :
          job' = [job EXCEPT ![j] = Counted(job[j], n, dups, hits)]
    BY <1>1 DEF Deduplicate
  <2>3. PICK dups \in 0 .. n - 1 : \E hits \in 0 .. n - dups :
          job' = [job EXCEPT ![j] = Counted(job[j], n, dups, hits)]
    BY <2>2
  <2>4. PICK hits \in 0 .. n - dups : 
          job' = [job EXCEPT ![j] = Counted(job[j], n, dups, hits)]
    BY <2>3
  <2>5. n \in 1 .. MaxTickets /\ n \in Nat /\ dups \in 0 .. n - 1 /\ hits \in 0 .. n - dups
    OBVIOUS
  <2> DEFINE b == Counted(job[j], n, dups, hits)
  <2>6. job[j] \in LocalType
    BY <1>0 DEF Known
  <2>7. b \in LocalType
    BY <2>5, <2>6, CountedFields
  <2>8. b.total = n /\ b.left + b.completed = b.total
    BY <2>5, <2>6, CountedFields
  <2>9. b.left \in Nat /\ b.completed \in Nat /\ b.results \in Nat /\ b.repeated \in Nat
    BY <2>5, <2>6, CountedFields
  <2>10. b.hits = b.completed /\ b.results + b.repeated = b.completed
    BY <2>5, <2>6, CountedFields
  <2>11. b.failed = job[j].failed /\ b.batch = job[j].batch
    BY <2>5, <2>6, CountedFields
  <2>12. job' = [job EXCEPT ![j] = b]
    BY <2>4
  <2>13. /\ hash' = hash /\ stored' = stored /\ active' = active /\ crashes' = crashes
         /\ req' = [req EXCEPT ![j] = "creating"] /\ task' = [task EXCEPT ![j] = task[j]]
         /\ poll' = poll
    BY <1>0, <1>1 DEF Stays, Deduplicate, ReqUnchanged
  <2>14. Becomes(j, hash[j], stored[j], "creating", task[j], b)
    BY <1>0, <2>7, <2>12, <2>13 DEF Becomes, Weight, Known, Stays, ReqPlaces
  <2>15. Tells(j, hash[j], stored[j])
    BY <1>1 DEF Tells, Deduplicate, ReqUnchanged
  <2> HIDE DEF b
  <2>16. LocalsAddUp("creating", task[j], b)
    BY <1>0, <2>1, <2>8, <2>9, <2>10, <2>11 DEF JobInv, Fits, LocalsAddUp
  <2>17. CountersAddUp(hash[j], "creating", task[j], b)
    BY <1>0, <2>1, <2>9, <2>10, <2>11 DEF JobInv, Fits, CountersAddUp
  <2>18. KeysFollow(hash[j], stored[j], "creating", task[j])
    BY <1>0, <2>1 DEF JobInv, Fits, KeysFollow
  <2>19. ResultsFit(stored[j], "creating", b)
    <3>1. ~stored[j].exists
      BY <1>0, <2>1 DEF JobInv, Fits, KeysFollow
    <3>2. stored[j].count = 0
      BY <1>0, <2>1 DEF JobInv, Fits, ResultsFit
    <3> QED
      BY <2>9, <3>1, <3>2 DEF ResultsFit
  <2>20. Keeps(j, hash[j], stored[j], "creating")
    BY <2>1 DEF Keeps
  <2>21. DoneAddsUp(hash[j])
    BY <1>0 DEF JobInv, Fits
  <2>22. Contract(hash[j], stored[j], hash[j], stored[j])
    BY DEF Contract, Stutters, SameState
  <2> QED
    BY <2>14, <2>15, <2>16, <2>17, <2>18, <2>19, <2>20, <2>21, <2>22 DEF GoodStep, Fits
<1>2. CASE CreateHash(j)
  <2>1. req[j] = "creating" /\ task[j] = "none"
    BY <1>0, <1>2 DEF CreateHash, JobInv, Fits, LocalsAddUp
  <2> DEFINE h == Created(job[j].total)
  <2>2. /\ h \in HashType /\ h.exists /\ h.status = "pending" /\ ~h.ttl
    BY <1>0, CreatedFields DEF Numbers
  <2>3. /\ h.completed = 0 /\ h.failed = 0 /\ h.hits = 0 /\ h.total = job[j].total
    BY <1>0, CreatedFields DEF Numbers
  <2>4. Becomes(j, h, stored[j], "expiring", task[j], job[j])
    BY <1>0, <1>2, <2>2
    DEF Becomes, Weight, Known, Stays, ReqPlaces, CreateHash, ReqUnchanged, Put
  <2>5. Tells(j, h, stored[j])
    BY <1>2 DEF Tells, CreateHash, ReqUnchanged
  <2> HIDE DEF h
  <2>6. job[j].total \in 1 .. MaxTickets
    BY <1>0, <2>1 DEF JobInv, Fits, LocalsAddUp, Numbers
  <2>7. /\ hash[j].completed = 0 /\ hash[j].failed = 0 /\ hash[j].hits = 0
        /\ hash[j].total = 0
    BY <1>0, <2>1 DEF JobInv, Fits, CountersAddUp
  <2>8. hash[j] = NoHash
    BY <1>0, <2>1 DEF JobInv, Fits, KeysFollow
  <2>9. LocalsAddUp("expiring", task[j], job[j])
    BY <1>0, <2>1 DEF JobInv, Fits, LocalsAddUp
  <2>10. CountersAddUp(h, "expiring", task[j], job[j])
    BY <1>0, <2>1, <2>3 DEF Numbers, CountersAddUp
  <2>11. KeysFollow(h, stored[j], "expiring", task[j])
    BY <1>0, <2>1, <2>2 DEF JobInv, Fits, KeysFollow, Looping
  <2>12. ResultsFit(stored[j], "expiring", job[j])
    BY <1>0, <2>1 DEF JobInv, Fits, ResultsFit
  <2>13. Keeps(j, h, stored[j], "expiring")
    BY <2>1 DEF Keeps
  <2>14. DoneAddsUp(h)
    BY <2>2 DEF DoneAddsUp
  <2>15. hash[j].status = ""
    BY <2>8, NoHashFields
  <2>16. Accounted(hash[j]) = 0
    BY <2>7 DEF Accounted
  <2>17. Accounted(h) = 0 /\ h.total \in 1 .. MaxTickets
    BY <2>3, <2>6 DEF Accounted
  <2>18. Accepts(hash[j], stored[j], h, stored[j])
    BY <2>2, <2>15, <2>16, <2>17, <2>7 DEF Accepts, NoState
  <2>19. Contract(hash[j], stored[j], h, stored[j])
    BY <2>18 DEF Contract
  <2> QED
    BY <2>4, <2>5, <2>9, <2>10, <2>11, <2>12, <2>13, <2>14, <2>19 DEF GoodStep, Fits
<1>3. CASE SetTtl(j)
  <2>1. CASE job[j].completed > 0
    <3>1. req[j] = "expiring" /\ task[j] = "none"
      BY <1>0, <1>3 DEF SetTtl, JobInv, Fits, LocalsAddUp
    <3> DEFINE h == WithTtl(hash[j])
    <3>2. /\ h \in HashType /\ h.exists = hash[j].exists /\ h.status = hash[j].status
          /\ h.total = hash[j].total /\ h.ttl = hash[j].exists
      BY <1>0, WithTtlFields DEF Known
    <3>3. SameCounters(hash[j], h) /\ h.total = hash[j].total
      BY <1>0, WithTtlFields DEF Known
    <3>4. Becomes(j, h, stored[j], "counting", task[j], job[j])
      BY <1>0, <1>3, <2>1, <3>2
      DEF Becomes, Weight, Known, Stays, ReqPlaces, SetTtl, ReqUnchanged, Put
    <3>5. Tells(j, h, stored[j])
      BY <1>3 DEF Tells, SetTtl, ReqUnchanged
    <3> HIDE DEF h
    <3>6. /\ hash[j].completed = 0 /\ hash[j].failed = 0 /\ hash[j].hits = 0
          /\ hash[j].total > 0 => hash[j].total = job[j].total
      BY <1>0, <3>1 DEF JobInv, Fits, CountersAddUp
    <3>7. hash[j].status \in {"", "pending"}
      BY <1>0, <3>1 DEF JobInv, Fits, KeysFollow, Before
    <3>8. LocalsAddUp("counting", task[j], job[j])
      BY <1>0, <3>1 DEF JobInv, Fits, LocalsAddUp
    <3>9. CountersAddUp(h, "counting", task[j], job[j])
      BY <1>0, <3>1, <3>3, <3>6 DEF Numbers, SameCounters, CountersAddUp
    <3>10. KeysFollow(h, stored[j], "counting", task[j])
      BY <1>0, <3>1, <3>2, <3>7 DEF JobInv, Fits, KeysFollow
    <3>11. ResultsFit(stored[j], "counting", job[j])
      BY <1>0, <3>1 DEF JobInv, Fits, ResultsFit
    <3>12. Keeps(j, h, stored[j], "counting")
      BY <3>1 DEF Keeps
    <3>13. DoneAddsUp(h)
      BY <3>2, <3>7 DEF DoneAddsUp
    <3>14. Accounted(h) = Accounted(hash[j])
      BY <3>3 DEF SameCounters, Accounted
    <3>15. Contract(hash[j], stored[j], h, stored[j])
      BY <3>2, <3>14 DEF Contract, Stutters, SameState
    <3> QED
      BY <3>4, <3>5, <3>8, <3>9, <3>10, <3>11, <3>12, <3>13, <3>15 DEF GoodStep, Fits
  <2>2. CASE ~(job[j].completed > 0)
    <3>1. req[j] = "expiring" /\ task[j] = "none"
      BY <1>0, <1>3 DEF SetTtl, JobInv, Fits, LocalsAddUp
    <3> DEFINE h == WithTtl(hash[j])
    <3>2. /\ h \in HashType /\ h.exists = hash[j].exists /\ h.status = hash[j].status
          /\ h.total = hash[j].total /\ h.ttl = hash[j].exists
      BY <1>0, WithTtlFields DEF Known
    <3>3. SameCounters(hash[j], h) /\ h.total = hash[j].total
      BY <1>0, WithTtlFields DEF Known
    <3>4. Becomes(j, h, stored[j], "accepted", "scheduled", job[j])
      BY <1>0, <1>3, <3>1, <2>2, <3>2
      DEF Becomes, Weight, Known, Stays, TaskPlaces, ReqPlaces, LivePlaces, Before,
          Looping, SetTtl, Launch, ReqUnchanged, Put
    <3>5. Tells(j, h, stored[j])
      BY <1>3 DEF Tells, SetTtl, ReqUnchanged
    <3> HIDE DEF h
    <3>6. /\ job[j].failed = 0 /\ job[j].hits <= job[j].completed
          /\ job[j].completed <= job[j].total /\ job[j].total <= MaxTickets
      BY <1>0, <3>1 DEF JobInv, Fits, LocalsAddUp, Numbers
    <3>7. /\ hash[j].completed = 0 /\ hash[j].failed = 0 /\ hash[j].hits = 0
          /\ hash[j].total > 0 => hash[j].total = job[j].total
      BY <1>0, <3>1 DEF JobInv, Fits, CountersAddUp
    <3>8. hash[j].status \in {"", "pending"}
      BY <1>0, <3>1 DEF JobInv, Fits, KeysFollow, Before
    <3>9. LocalsAddUp("accepted", "scheduled", job[j])
      BY <1>0, <3>1 DEF JobInv, Fits, LocalsAddUp
    <3>10. CountersAddUp(h, "accepted", "scheduled", job[j])
      BY <1>0, <2>2, <3>3, <3>6, <3>7 DEF Numbers, SameCounters, CountersAddUp
    <3>11. KeysFollow(h, stored[j], "accepted", "scheduled")
      BY <1>0, <3>2, <3>8 DEF JobInv, Fits, KeysFollow, Looping
    <3>12. ResultsFit(stored[j], "accepted", job[j])
      BY <1>0 DEF JobInv, Fits, ResultsFit
    <3>13. Keeps(j, h, stored[j], "accepted")
      BY <3>1 DEF Keeps
    <3>14. DoneAddsUp(h)
      BY <3>2, <3>8 DEF DoneAddsUp
    <3>15. Accounted(h) = Accounted(hash[j])
      BY <3>3 DEF SameCounters, Accounted
    <3>16. Contract(hash[j], stored[j], h, stored[j])
      BY <3>2, <3>15 DEF Contract, Stutters, SameState
    <3> QED
      BY <3>4, <3>5, <3>9, <3>10, <3>11, <3>12, <3>13, <3>14, <3>16 DEF GoodStep, Fits
  <2> QED
    BY <2>1, <2>2
<1>4. CASE CountCached(j)
  <2>1. req[j] = "counting" /\ task[j] = "none"
    BY <1>0, <1>4 DEF CountCached, JobInv, Fits, LocalsAddUp
  <2> DEFINE h == HIncrBy(hash[j], Cached(j))
  <2>2. /\ h \in HashType /\ h.exists /\ h.status = hash[j].status
        /\ h.total = hash[j].total /\ h.ttl = hash[j].ttl
    BY <1>0, IncrByFields DEF Known, Numbers, Cached, BatchType
  <2>3. /\ h.completed = hash[j].completed + job[j].completed /\ h.failed = hash[j].failed + 0
        /\ h.hits = hash[j].hits + job[j].hits /\ h.total = hash[j].total
    BY <1>0, IncrByFields DEF Known, Numbers, Cached, BatchType
  <2>4. Becomes(j, h, stored[j], "accepted", "scheduled", job[j])
    BY <1>0, <1>4, <2>1, <2>2
    DEF Becomes, Weight, Known, Stays, TaskPlaces, ReqPlaces, LivePlaces, Before,
        Looping, CountCached, Launch, ReqUnchanged, Put
  <2>5. Tells(j, h, stored[j])
    BY <1>4 DEF Tells, CountCached, ReqUnchanged
  <2> HIDE DEF h
  <2>6. /\ job[j].failed = 0 /\ job[j].hits <= job[j].completed
        /\ job[j].completed <= job[j].total /\ job[j].total <= MaxTickets
    BY <1>0, <2>1 DEF JobInv, Fits, LocalsAddUp, Numbers
  <2>7. /\ hash[j].completed = 0 /\ hash[j].failed = 0 /\ hash[j].hits = 0
        /\ hash[j].total > 0 => hash[j].total = job[j].total
    BY <1>0, <2>1 DEF JobInv, Fits, CountersAddUp
  <2>8. hash[j].status \in {"", "pending"}
    BY <1>0, <2>1 DEF JobInv, Fits, KeysFollow, Before
  <2>9. LocalsAddUp("accepted", "scheduled", job[j])
    BY <1>0, <2>1 DEF JobInv, Fits, LocalsAddUp
  <2>10. CountersAddUp(h, "accepted", "scheduled", job[j])
    BY <1>0, <2>3, <2>6, <2>7 DEF Numbers, CountersAddUp
  <2>11. KeysFollow(h, stored[j], "accepted", "scheduled")
    BY <1>0, <2>1, <2>2, <2>8 DEF JobInv, Fits, KeysFollow, Looping
  <2>12. ResultsFit(stored[j], "accepted", job[j])
    BY <1>0 DEF JobInv, Fits, ResultsFit
  <2>13. Keeps(j, h, stored[j], "accepted")
    BY <2>1 DEF Keeps
  <2>14. DoneAddsUp(h)
    BY <2>2, <2>8 DEF DoneAddsUp
  <2>15. /\ Accounted(h) \in Accounted(hash[j]) .. MaxTickets
         /\ hash[j].total > 0 => Accounted(h) <= hash[j].total
    BY <1>0, <2>3, <2>6, <2>7 DEF Known, Numbers, Accounted
  <2>16. h.status = hash[j].status /\ h.total = hash[j].total
    BY <2>2
  <2>17. hash[j].status \notin {"done", "failed"}
    BY <2>8
  <2>18. Contract(hash[j], stored[j], h, stored[j])
    BY <2>16, <2>17, <2>15, AccountsWithinTotal
  <2> QED
    BY <2>4, <2>5, <2>9, <2>10, <2>11, <2>12, <2>13, <2>14, <2>18 DEF GoodStep, Fits
<1>5. CASE DeduplicateError(j)
  <2>1. req[j] = "new" /\ task[j] = "none"
    BY <1>0, <1>5 DEF DeduplicateError, JobInv, Fits, LocalsAddUp
  <2>2. Becomes(j, hash[j], stored[j], "refused", task[j], job[j])
    BY <1>0, <1>5
    DEF Becomes, Weight, Known, Stays, ReqPlaces, DeduplicateError, Refuse, ReqUnchanged
  <2>3. Tells(j, hash[j], stored[j])
    BY <1>5 DEF Tells, DeduplicateError, ReqUnchanged
  <2>4. LocalsAddUp("refused", task[j], job[j])
    BY <1>0, <2>1 DEF JobInv, Fits, LocalsAddUp
  <2>5. CountersAddUp(hash[j], "refused", task[j], job[j])
    BY <1>0 DEF JobInv, Fits, CountersAddUp
  <2>6. KeysFollow(hash[j], stored[j], "refused", task[j])
    BY <1>0, <2>1 DEF JobInv, Fits, KeysFollow
  <2>7. ResultsFit(stored[j], "refused", job[j])
    BY <1>0, <2>1 DEF JobInv, Fits, ResultsFit
  <2>8. Keeps(j, hash[j], stored[j], "refused")
    BY <2>1 DEF Keeps
  <2>9. DoneAddsUp(hash[j])
    BY <1>0 DEF JobInv, Fits
  <2>10. Contract(hash[j], stored[j], hash[j], stored[j])
    BY DEF Contract, Stutters, SameState
  <2> QED
    BY <2>2, <2>3, <2>4, <2>5, <2>6, <2>7, <2>8, <2>9, <2>10 DEF GoodStep, Fits
<1>6. CASE CreateHashError(j)
  <2>1. req[j] = "creating" /\ task[j] = "none"
    BY <1>0, <1>6 DEF CreateHashError, JobInv, Fits, LocalsAddUp
  <2> DEFINE c == Created(job[j].total)
  <2>2. /\ c \in HashType /\ c.exists /\ c.status = "pending" /\ ~c.ttl
    BY <1>0, CreatedFields DEF Numbers
  <2>3. /\ c.completed = 0 /\ c.failed = 0 /\ c.hits = 0 /\ c.total = job[j].total
    BY <1>0, CreatedFields DEF Numbers
  <2>4. PICK h \in {hash[j], c} : hash' = [hash EXCEPT ![j] = h]
    BY <1>0, <1>6 DEF CreateHashError, MayPut, Stays
  <2>5. Becomes(j, h, stored[j], "refused", task[j], job[j])
    BY <1>0, <1>6, <2>2, <2>4
    DEF Becomes, Weight, Known, Stays, ReqPlaces, CreateHashError, Refuse, ReqUnchanged
  <2>6. Tells(j, h, stored[j])
    BY <1>6 DEF Tells, CreateHashError, ReqUnchanged
  <2> HIDE DEF c
  <2>7. job[j].total \in 1 .. MaxTickets
    BY <1>0, <2>1 DEF JobInv, Fits, LocalsAddUp, Numbers
  <2>8. /\ hash[j].completed = 0 /\ hash[j].failed = 0 /\ hash[j].hits = 0
        /\ hash[j].total = 0
    BY <1>0, <2>1 DEF JobInv, Fits, CountersAddUp
  <2>9. hash[j] = NoHash
    BY <1>0, <2>1 DEF JobInv, Fits, KeysFollow
  <2>10. LocalsAddUp("refused", task[j], job[j])
    BY <1>0, <2>1 DEF JobInv, Fits, LocalsAddUp
  <2>11. CountersAddUp(h, "refused", task[j], job[j])
    BY <1>0, <2>1, <2>3, <2>8 DEF Numbers, CountersAddUp
  <2>12. KeysFollow(h, stored[j], "refused", task[j])
    BY <1>0, <2>1, <2>2 DEF JobInv, Fits, KeysFollow, Looping
  <2>13. ResultsFit(stored[j], "refused", job[j])
    BY <1>0, <2>1 DEF JobInv, Fits, ResultsFit
  <2>14. Keeps(j, h, stored[j], "refused")
    BY <2>1 DEF Keeps
  <2>15. DoneAddsUp(h)
    BY <1>0, <2>2 DEF DoneAddsUp, JobInv, Fits
  <2>16. hash[j].status = ""
    BY <2>9, NoHashFields
  <2>17. Accounted(hash[j]) = 0
    BY <2>8 DEF Accounted
  <2>18. Accounted(c) = 0 /\ c.total \in 1 .. MaxTickets
    BY <2>3, <2>7 DEF Accounted
  <2>19. Accepts(hash[j], stored[j], c, stored[j])
    BY <2>2, <2>16, <2>17, <2>18, <2>8 DEF Accepts, NoState
  <2>20. Contract(hash[j], stored[j], h, stored[j])
    BY <2>19 DEF Contract, Stutters, SameState
  <2> QED
    BY <2>5, <2>6, <2>10, <2>11, <2>12, <2>13, <2>14, <2>15, <2>20 DEF GoodStep, Fits
<1>7. CASE SetTtlError(j)
  <2>1. req[j] = "expiring" /\ task[j] = "none"
    BY <1>0, <1>7 DEF SetTtlError, JobInv, Fits, LocalsAddUp
  <2> DEFINE c == WithTtl(hash[j])
  <2>2. /\ c \in HashType /\ c.exists = hash[j].exists /\ c.status = hash[j].status
        /\ c.total = hash[j].total /\ c.ttl = hash[j].exists
    BY <1>0, WithTtlFields DEF Known
  <2>3. SameCounters(hash[j], c) /\ c.total = hash[j].total
    BY <1>0, WithTtlFields DEF Known
  <2>4. PICK h \in {hash[j], c} : hash' = [hash EXCEPT ![j] = h]
    BY <1>0, <1>7 DEF SetTtlError, MayPut, Stays
  <2>5. Becomes(j, h, stored[j], "refused", task[j], job[j])
    BY <1>0, <1>7, <2>2, <2>4
    DEF Becomes, Weight, Known, Stays, ReqPlaces, SetTtlError, Refuse, ReqUnchanged
  <2>6. Tells(j, h, stored[j])
    BY <1>7 DEF Tells, SetTtlError, ReqUnchanged
  <2> HIDE DEF c
  <2>7. /\ hash[j].completed = 0 /\ hash[j].failed = 0 /\ hash[j].hits = 0
        /\ hash[j].total > 0 => hash[j].total = job[j].total
    BY <1>0, <2>1 DEF JobInv, Fits, CountersAddUp
  <2>8. hash[j].status \in {"", "pending"}
    BY <1>0, <2>1 DEF JobInv, Fits, KeysFollow, Before
  <2>9. LocalsAddUp("refused", task[j], job[j])
    BY <1>0, <2>1 DEF JobInv, Fits, LocalsAddUp
  <2>10. CountersAddUp(h, "refused", task[j], job[j])
    BY <1>0, <2>1, <2>3, <2>7 DEF Numbers, SameCounters, CountersAddUp
  <2>11. KeysFollow(h, stored[j], "refused", task[j])
    BY <1>0, <2>1, <2>2, <2>8 DEF JobInv, Fits, KeysFollow
  <2>12. ResultsFit(stored[j], "refused", job[j])
    BY <1>0, <2>1 DEF JobInv, Fits, ResultsFit
  <2>13. Keeps(j, h, stored[j], "refused")
    BY <2>1 DEF Keeps
  <2>14. DoneAddsUp(h)
    BY <2>2, <2>8 DEF DoneAddsUp
  <2>15. Accounted(h) = Accounted(hash[j])
    BY <2>3 DEF SameCounters, Accounted
  <2>16. Contract(hash[j], stored[j], h, stored[j])
    BY <2>2, <2>15 DEF Contract, Stutters, SameState
  <2> QED
    BY <2>5, <2>6, <2>9, <2>10, <2>11, <2>12, <2>13, <2>14, <2>16 DEF GoodStep, Fits
<1>8. CASE CountCachedError(j)
  <2>1. req[j] = "counting" /\ task[j] = "none"
    BY <1>0, <1>8 DEF CountCachedError, JobInv, Fits, LocalsAddUp
  <2> DEFINE c == HIncrBy(hash[j], Cached(j))
  <2>2. /\ c \in HashType /\ c.exists /\ c.status = hash[j].status
        /\ c.total = hash[j].total /\ c.ttl = hash[j].ttl
    BY <1>0, IncrByFields DEF Known, Numbers, Cached, BatchType
  <2>3. /\ c.completed = hash[j].completed + job[j].completed /\ c.failed = hash[j].failed + 0
        /\ c.hits = hash[j].hits + job[j].hits /\ c.total = hash[j].total
    BY <1>0, IncrByFields DEF Known, Numbers, Cached, BatchType
  <2>4. PICK h \in {hash[j], c} : hash' = [hash EXCEPT ![j] = h]
    BY <1>0, <1>8 DEF CountCachedError, MayPut, Stays
  <2>5. Becomes(j, h, stored[j], "refused", task[j], job[j])
    BY <1>0, <1>8, <2>2, <2>4
    DEF Becomes, Weight, Known, Stays, ReqPlaces, CountCachedError, Refuse, ReqUnchanged
  <2>6. Tells(j, h, stored[j])
    BY <1>8 DEF Tells, CountCachedError, ReqUnchanged
  <2> HIDE DEF c
  <2>7. /\ job[j].failed = 0 /\ job[j].hits <= job[j].completed
        /\ job[j].completed <= job[j].total /\ job[j].total <= MaxTickets
    BY <1>0, <2>1 DEF JobInv, Fits, LocalsAddUp, Numbers
  <2>8. /\ hash[j].completed = 0 /\ hash[j].failed = 0 /\ hash[j].hits = 0
        /\ hash[j].total > 0 => hash[j].total = job[j].total
    BY <1>0, <2>1 DEF JobInv, Fits, CountersAddUp
  <2>9. hash[j].status \in {"", "pending"}
    BY <1>0, <2>1 DEF JobInv, Fits, KeysFollow, Before
  <2>10. LocalsAddUp("refused", task[j], job[j])
    BY <1>0, <2>1 DEF JobInv, Fits, LocalsAddUp
  <2>11. CountersAddUp(h, "refused", task[j], job[j])
    BY <1>0, <2>1, <2>3, <2>8 DEF Numbers, CountersAddUp
  <2>12. KeysFollow(h, stored[j], "refused", task[j])
    BY <1>0, <2>1, <2>2 DEF JobInv, Fits, KeysFollow
  <2>13. ResultsFit(stored[j], "refused", job[j])
    BY <1>0, <2>1 DEF JobInv, Fits, ResultsFit
  <2>14. Keeps(j, h, stored[j], "refused")
    BY <2>1 DEF Keeps
  <2>15. DoneAddsUp(h)
    BY <2>2, <2>9 DEF DoneAddsUp
  <2>16. /\ Accounted(h) \in Accounted(hash[j]) .. MaxTickets
         /\ hash[j].total > 0 => Accounted(h) <= hash[j].total
    BY <1>0, <2>3, <2>7, <2>8 DEF Known, Numbers, Accounted
  <2>17. h.status = hash[j].status /\ h.total = hash[j].total
    BY <2>2
  <2>18. hash[j].status \notin {"done", "failed"}
    BY <2>9
  <2>19. Contract(hash[j], stored[j], h, stored[j])
    BY <2>17, <2>18, <2>16, AccountsWithinTotal
  <2> QED
    BY <2>5, <2>6, <2>10, <2>11, <2>12, <2>13, <2>14, <2>15, <2>19 DEF GoodStep, Fits
<1> QED
  BY <1>1, <1>2, <1>3, <1>4, <1>5, <1>6, <1>7, <1>8 DEF Request

(* Every step of the background task. *)
LEMMA ProcessIsGood ==
  ASSUME IInv, NEW j \in Jobs, Process(j)
  PROVE  GoodStep(j)
<1>0. Known(j) /\ Numbers(hash[j], job[j]) /\ Stays(j) /\ JobInv(j)
  BY JobAtRest
<1>1. CASE Begin(j)
  <2>1. task[j] = "scheduled"
    BY <1>1 DEF Begin
  <2>2. Becomes(j, hash[j], stored[j], req[j], "starting", job[j])
    BY <1>0, <1>1
    DEF Becomes, Weight, Known, Stays, TaskPlaces, LivePlaces, Looping, Begin, Goto
  <2>3. Tells(j, hash[j], stored[j])
    BY <1>1 DEF Tells, Begin
  <2>4. LocalsAddUp(req[j], "starting", job[j])
    BY <1>0, <2>1 DEF JobInv, Fits, LocalsAddUp
  <2>5. CountersAddUp(hash[j], req[j], "starting", job[j])
    BY <1>0, <2>1 DEF JobInv, Fits, CountersAddUp
  <2>6. KeysFollow(hash[j], stored[j], req[j], "starting")
    BY <1>0, <2>1 DEF JobInv, Fits, KeysFollow, Before, Looping
  <2>7. ResultsFit(stored[j], req[j], job[j])
    BY <1>0 DEF JobInv, Fits
  <2>8. Keeps(j, hash[j], stored[j], req[j])
    BY DEF Keeps
  <2>9. DoneAddsUp(hash[j])
    BY <1>0 DEF JobInv, Fits
  <2>10. Contract(hash[j], stored[j], hash[j], stored[j])
    BY DEF Contract, Stutters, SameState
  <2> QED
    BY <2>2, <2>3, <2>4, <2>5, <2>6, <2>7, <2>8, <2>9, <2>10 DEF GoodStep, Fits
<1>2. CASE Start(j)
  <2>1. CASE job[j].left = 0
    <3>1. task[j] = "starting"
      BY <1>2 DEF Start
    <3> DEFINE h == HSetStatus(hash[j], "processing")
    <3>2. /\ h \in HashType /\ h.exists /\ h.status = "processing"
          /\ h.total = hash[j].total /\ h.ttl = hash[j].ttl
      BY <1>0, SetStatusFields DEF Known, Statuses
    <3>3. SameCounters(hash[j], h) /\ h.total = hash[j].total
      BY <1>0, SetStatusFields DEF Known, Statuses
    <3>4. Becomes(j, h, stored[j], req[j], "finishing", job[j])
      BY <1>0, <1>2, <2>1, <3>2
      DEF Becomes, Weight, Known, Stays, TaskPlaces, LivePlaces, Start, Put, NextBatch,
          Goto
    <3>5. Tells(j, h, stored[j])
      BY <1>2 DEF Tells, Start
    <3> HIDE DEF h
    <3>6. LocalsAddUp(req[j], "finishing", job[j])
      BY <1>0, <3>1, <2>1 DEF JobInv, Fits, LocalsAddUp
    <3>7. CountersAddUp(h, req[j], "finishing", job[j])
      BY <1>0, <3>1, <3>3 DEF SameCounters, JobInv, Fits, CountersAddUp
    <3>8. KeysFollow(h, stored[j], req[j], "finishing")
      BY <1>0, <3>1, <3>2 DEF JobInv, Fits, LocalsAddUp, KeysFollow, Before
    <3>9. ResultsFit(stored[j], req[j], job[j])
      BY <1>0 DEF JobInv, Fits
    <3>10. Keeps(j, h, stored[j], req[j])
      BY <3>2 DEF Keeps
    <3>11. DoneAddsUp(h)
      BY <3>2 DEF DoneAddsUp
    <3>12. Accounted(h) = Accounted(hash[j])
      BY <3>3 DEF SameCounters, Accounted
    <3>13. Contract(hash[j], stored[j], h, stored[j])
      BY <1>0, <3>1, <3>2, <3>12
      DEF JobInv, Fits, KeysFollow, Before, Contract, Proceeds
    <3> QED
      BY <3>4, <3>5, <3>6, <3>7, <3>8, <3>9, <3>10, <3>11, <3>13 DEF GoodStep, Fits
  <2>2. CASE job[j].left # 0
    <3>1. task[j] = "starting"
      BY <1>2 DEF Start
    <3> DEFINE h == HSetStatus(hash[j], "processing")
    <3>2. /\ h \in HashType /\ h.exists /\ h.status = "processing"
          /\ h.total = hash[j].total /\ h.ttl = hash[j].ttl
      BY <1>0, SetStatusFields DEF Known, Statuses
    <3>3. SameCounters(hash[j], h) /\ h.total = hash[j].total
      BY <1>0, SetStatusFields DEF Known, Statuses
    <3>4. Becomes(j, h, stored[j], req[j], "batch", job[j])
      BY <1>0, <1>2, <2>2, <3>2
      DEF Becomes, Weight, Known, Stays, TaskPlaces, LivePlaces, Looping, Start, Put,
          NextBatch, Goto
    <3>5. Tells(j, h, stored[j])
      BY <1>2 DEF Tells, Start
    <3> HIDE DEF h
    <3>6. LocalsAddUp(req[j], "batch", job[j])
      BY <1>0, <3>1 DEF JobInv, Fits, LocalsAddUp
    <3>7. CountersAddUp(h, req[j], "batch", job[j])
      BY <1>0, <3>1, <3>3 DEF SameCounters, JobInv, Fits, CountersAddUp
    <3>8. KeysFollow(h, stored[j], req[j], "batch")
      BY <1>0, <3>1, <3>2 DEF JobInv, Fits, LocalsAddUp, KeysFollow, Before
    <3>9. ResultsFit(stored[j], req[j], job[j])
      BY <1>0 DEF JobInv, Fits
    <3>10. Keeps(j, h, stored[j], req[j])
      BY <3>2 DEF Keeps
    <3>11. DoneAddsUp(h)
      BY <3>2 DEF DoneAddsUp
    <3>12. Accounted(h) = Accounted(hash[j])
      BY <3>3 DEF SameCounters, Accounted
    <3>13. Contract(hash[j], stored[j], h, stored[j])
      BY <1>0, <3>1, <3>2, <3>12
      DEF JobInv, Fits, KeysFollow, Before, Contract, Proceeds
    <3> QED
      BY <3>4, <3>5, <3>6, <3>7, <3>8, <3>9, <3>10, <3>11, <3>13 DEF GoodStep, Fits
  <2> QED
    BY <2>1, <2>2
<1>3. CASE StartError(j)
  <2>1. task[j] = "starting"
    BY <1>3 DEF StartError
  <2> DEFINE c == HSetStatus(hash[j], "processing")
  <2>2. /\ c \in HashType /\ c.exists /\ c.status = "processing"
        /\ c.total = hash[j].total /\ c.ttl = hash[j].ttl
    BY <1>0, SetStatusFields DEF Known, Statuses
  <2>3. SameCounters(hash[j], c) /\ c.total = hash[j].total
    BY <1>0, SetStatusFields DEF Known, Statuses
  <2>4. PICK h \in {hash[j], c} : hash' = [hash EXCEPT ![j] = h]
    BY <1>0, <1>3 DEF StartError, MayPut, Stays
  <2>5. Becomes(j, h, stored[j], req[j], "leaked", job[j])
    BY <1>0, <1>3, <2>2, <2>4
    DEF Becomes, Weight, Known, Stays, TaskPlaces, LivePlaces, StartError, Goto
  <2>6. Tells(j, h, stored[j])
    BY <1>3 DEF Tells, StartError
  <2> HIDE DEF c
  <2>7. LocalsAddUp(req[j], "leaked", job[j])
    BY <1>0, <2>1 DEF JobInv, Fits, LocalsAddUp
  <2>8. CountersAddUp(h, req[j], "leaked", job[j])
    BY <1>0, <2>3 DEF SameCounters, JobInv, Fits, CountersAddUp
  <2>9. KeysFollow(h, stored[j], req[j], "leaked")
    BY <1>0, <2>1, <2>2 DEF JobInv, Fits, LocalsAddUp, KeysFollow, Before, Looping
  <2>10. ResultsFit(stored[j], req[j], job[j])
    BY <1>0 DEF JobInv, Fits
  <2>11. Keeps(j, h, stored[j], req[j])
    BY <2>2 DEF Keeps
  <2>12. DoneAddsUp(h)
    BY <1>0, <2>2 DEF DoneAddsUp, JobInv, Fits
  <2>13. Accounted(c) = Accounted(hash[j])
    BY <2>3 DEF SameCounters, Accounted
  <2>14. Proceeds(hash[j], stored[j], c, stored[j])
    BY <1>0, <2>1, <2>2, <2>13 DEF JobInv, Fits, KeysFollow, Before, Proceeds
  <2>15. Contract(hash[j], stored[j], h, stored[j])
    BY <2>14 DEF Contract, Stutters, SameState
  <2> QED
    BY <2>5, <2>6, <2>7, <2>8, <2>9, <2>10, <2>11, <2>12, <2>15 DEF GoodStep, Fits
<1>4. CASE BatchDone(j)
  <2>1. task[j] = "batch"
    BY <1>4 DEF BatchDone
  <2>2. PICK n \in 1 .. BatchSize : \E f \in 0 .. n : \E hits \in 0 .. n - f :
          n <= job[j].left /\ job' = [job EXCEPT ![j] = Answered(job[j], n, f, hits)]
    BY <1>4 DEF BatchDone
  <2>3. PICK f \in 0 .. n : \E hits \in 0 .. n - f :
          n <= job[j].left /\ job' = [job EXCEPT ![j] = Answered(job[j], n, f, hits)]
    BY <2>2
  <2>4. PICK hits \in 0 .. n - f : 
          n <= job[j].left /\ job' = [job EXCEPT ![j] = Answered(job[j], n, f, hits)]
    BY <2>3
  <2>5. n \in Nat /\ f \in 0 .. n /\ hits \in 0 .. n - f /\ n <= job[j].left
    BY <2>2
  <2> DEFINE b == Answered(job[j], n, f, hits)
  <2>6. job[j] \in LocalType
    BY <1>0 DEF Known
  <2>7. b \in LocalType
    BY <2>5, <2>6, AnsweredFields
  <2>8. /\ b.total = job[j].total
        /\ b.left = job[j].left - n /\ b.completed = job[j].completed + n
        /\ b.failed = job[j].failed + f /\ b.hits = job[j].hits + hits
        /\ b.results = job[j].results + n /\ b.repeated = job[j].repeated
        /\ b.batch.ok = n - f /\ b.batch.failed = f /\ b.batch.hits = hits
    BY <2>5, <2>6, AnsweredFields
  <2>9. job' = [job EXCEPT ![j] = b]
    BY <2>4
  <2>10. /\ hash' = hash /\ stored' = stored /\ active' = active /\ crashes' = crashes
         /\ req' = [req EXCEPT ![j] = req[j]] /\ task' = [task EXCEPT ![j] = "counting"]
         /\ poll' = poll
    BY <1>0, <1>4 DEF Stays, BatchDone, Goto
  <2>11. Becomes(j, hash[j], stored[j], req[j], "counting", b)
    BY <1>0, <2>1, <2>7, <2>9, <2>10
    DEF Becomes, Weight, Known, Stays, TaskPlaces, LivePlaces, Looping
  <2>12. Tells(j, hash[j], stored[j])
    BY <1>4 DEF Tells, BatchDone
  <2> HIDE DEF b
  <2>13. LocalsAddUp(req[j], "counting", b)
    BY <1>0, <2>1, <2>8 DEF Numbers, JobInv, Fits, LocalsAddUp
  <2>14. CountersAddUp(hash[j], req[j], "counting", b)
    BY <1>0, <2>1, <2>8 DEF Numbers, JobInv, Fits, CountersAddUp
  <2>15. KeysFollow(hash[j], stored[j], req[j], "counting")
    BY <1>0, <2>1 DEF JobInv, Fits, KeysFollow, Before, Looping
  <2>16. ResultsFit(stored[j], req[j], b)
    BY <1>0, <2>8 DEF Known, Numbers, JobInv, Fits, ResultsFit
  <2>17. Keeps(j, hash[j], stored[j], req[j])
    BY DEF Keeps
  <2>18. DoneAddsUp(hash[j])
    BY <1>0 DEF JobInv, Fits
  <2>19. Contract(hash[j], stored[j], hash[j], stored[j])
    BY DEF Contract, Stutters, SameState
  <2> QED
    BY <2>11, <2>12, <2>13, <2>14, <2>15, <2>16, <2>17, <2>18, <2>19 DEF GoodStep, Fits
<1>5. CASE CountProgress(j)
  <2>1. task[j] = "counting"
    BY <1>5 DEF CountProgress
  <2> DEFINE h == HIncrBy(hash[j], job[j].batch)
             b == [job[j] EXCEPT !.batch = NoBatch]
  <2>2. /\ h \in HashType /\ h.exists /\ h.status = hash[j].status
        /\ h.total = hash[j].total /\ h.ttl = hash[j].ttl
    BY <1>0, IncrByFields DEF Known, Numbers
  <2>3. /\ h.completed = hash[j].completed + job[j].batch.ok /\ h.failed = hash[j].failed + job[j].batch.failed
        /\ h.hits = hash[j].hits + job[j].batch.hits /\ h.total = hash[j].total
    BY <1>0, IncrByFields DEF Known, Numbers
  <2>4. b \in LocalType
    BY <1>0 DEF Known, LocalType, BatchType, NoBatch
  <2>5. b.batch.ok = 0 /\ b.batch.failed = 0 /\ b.batch.hits = 0
    BY DEF NoBatch
  <2>6. /\ b.total = job[j].total /\ b.left = job[j].left
        /\ b.completed = job[j].completed /\ b.hits = job[j].hits
        /\ b.results = job[j].results /\ b.failed = job[j].failed
        /\ b.repeated = job[j].repeated
    OBVIOUS
  <2>7. Becomes(j, h, stored[j], req[j], "publishing", b)
    BY <1>0, <1>5, <2>2, <2>4
    DEF Becomes, Weight, Known, Stays, TaskPlaces, LivePlaces, Looping, CountProgress,
        Put, Goto
  <2>8. Tells(j, h, stored[j])
    BY <1>5 DEF Tells, CountProgress
  <2> HIDE DEF h, b
  <2>9. /\ req[j] = "accepted"
        /\ job[j].completed <= job[j].total /\ job[j].total <= MaxTickets
    BY <1>0, <2>1 DEF JobInv, Fits, LocalsAddUp, Numbers
  <2>10. /\ hash[j].completed + hash[j].failed + job[j].batch.ok + job[j].batch.failed
              <= job[j].completed
         /\ hash[j].failed + job[j].batch.failed <= job[j].failed
         /\ hash[j].hits + job[j].batch.hits <= job[j].hits
         /\ hash[j].total > 0 =>
              /\ hash[j].total = job[j].total
              /\ hash[j].completed + hash[j].failed + job[j].batch.ok + job[j].batch.failed
                   = job[j].completed
              /\ hash[j].failed + job[j].batch.failed = job[j].failed
              /\ hash[j].hits + job[j].batch.hits = job[j].hits
    BY <1>0, <2>1 DEF JobInv, Fits, CountersAddUp
  <2>11. hash[j].status \in {"", "processing"}
    BY <1>0, <2>1 DEF JobInv, Fits, KeysFollow, Looping
  <2>12. LocalsAddUp(req[j], "publishing", b)
    BY <1>0, <2>1, <2>6, <2>5 DEF Numbers, JobInv, Fits, LocalsAddUp
  <2>13. /\ hash[j].completed \in Nat /\ hash[j].failed \in Nat /\ hash[j].hits \in Nat
         /\ hash[j].total \in Nat
         /\ job[j].batch.ok \in Nat /\ job[j].batch.failed \in Nat /\ job[j].batch.hits \in Nat
         /\ job[j].completed \in Nat /\ job[j].failed \in Nat /\ job[j].hits \in Nat
    BY <1>0 DEF Numbers
  <2>14. /\ h.completed + h.failed <= job[j].completed
         /\ h.failed <= job[j].failed /\ h.hits <= job[j].hits
    BY <2>3, <2>10, <2>13
  <2>15. h.total > 0 =>
           /\ h.total = job[j].total
           /\ h.completed + h.failed = job[j].completed
           /\ h.failed = job[j].failed /\ h.hits = job[j].hits
    BY <2>3, <2>10, <2>13
  <2>16. CountersAddUp(h, req[j], "publishing", b)
    BY <2>6, <2>9, <2>14, <2>15 DEF CountersAddUp
  <2>17. KeysFollow(h, stored[j], req[j], "publishing")
    BY <1>0, <2>2, <2>9, <2>11 DEF JobInv, Fits, KeysFollow, Before
  <2>18. ResultsFit(stored[j], req[j], b)
    BY <1>0, <2>6 DEF JobInv, Fits, ResultsFit
  <2>19. Keeps(j, h, stored[j], req[j])
    BY <2>2 DEF Keeps
  <2>20. DoneAddsUp(h)
    BY <2>2, <2>11 DEF DoneAddsUp
  <2>21. /\ Accounted(h) \in Accounted(hash[j]) .. MaxTickets
         /\ hash[j].total > 0 => Accounted(h) <= hash[j].total
    BY <1>0, JobAssumption, <2>3, <2>9, <2>14, <2>15 DEF Numbers, Accounted
  <2>22. h.status = hash[j].status /\ h.total = hash[j].total
    BY <2>2
  <2>23. hash[j].status \notin {"done", "failed"}
    BY <2>11
  <2>24. Contract(hash[j], stored[j], h, stored[j])
    BY <2>22, <2>23, <2>21, AccountsWithinTotal
  <2> QED
    BY <2>7, <2>8, <2>12, <2>16, <2>17, <2>18, <2>19, <2>20, <2>24 DEF GoodStep, Fits
<1>6. CASE CountProgressError(j)
  <2>1. task[j] = "counting"
    BY <1>6 DEF CountProgressError
  <2> DEFINE c == HIncrBy(hash[j], job[j].batch)
  <2>2. /\ c \in HashType /\ c.exists /\ c.status = hash[j].status
        /\ c.total = hash[j].total /\ c.ttl = hash[j].ttl
    BY <1>0, IncrByFields DEF Known, Numbers
  <2>3. /\ c.completed = hash[j].completed + job[j].batch.ok /\ c.failed = hash[j].failed + job[j].batch.failed
        /\ c.hits = hash[j].hits + job[j].batch.hits /\ c.total = hash[j].total
    BY <1>0, IncrByFields DEF Known, Numbers
  <2>4. PICK h \in {hash[j], c} : hash' = [hash EXCEPT ![j] = h]
    BY <1>0, <1>6 DEF CountProgressError, MayPut, Stays
  <2>5. Becomes(j, h, stored[j], req[j], "failing", job[j])
    BY <1>0, <1>6, <2>2, <2>4
    DEF Becomes, Weight, Known, Stays, TaskPlaces, LivePlaces, Before,
        CountProgressError, ToHandler, Goto
  <2>6. Tells(j, h, stored[j])
    BY <1>6 DEF Tells, CountProgressError
  <2> HIDE DEF c
  <2>7. /\ req[j] = "accepted"
        /\ job[j].completed <= job[j].total /\ job[j].total <= MaxTickets
    BY <1>0, <2>1 DEF JobInv, Fits, LocalsAddUp, Numbers
  <2>8. /\ hash[j].completed + hash[j].failed + job[j].batch.ok + job[j].batch.failed
             <= job[j].completed
        /\ hash[j].failed + job[j].batch.failed <= job[j].failed
        /\ hash[j].hits + job[j].batch.hits <= job[j].hits
        /\ hash[j].total > 0 =>
             /\ hash[j].total = job[j].total
             /\ hash[j].completed + hash[j].failed + job[j].batch.ok + job[j].batch.failed
                  = job[j].completed
             /\ hash[j].failed + job[j].batch.failed = job[j].failed
             /\ hash[j].hits + job[j].batch.hits = job[j].hits
    BY <1>0, <2>1 DEF JobInv, Fits, CountersAddUp
  <2>9. hash[j].status \in {"", "processing"}
    BY <1>0, <2>1 DEF JobInv, Fits, KeysFollow, Looping
  <2>10. LocalsAddUp(req[j], "failing", job[j])
    BY <1>0, <2>1 DEF JobInv, Fits, LocalsAddUp
  <2>11. CountersAddUp(h, req[j], "failing", job[j])
    BY <1>0, <2>3, <2>7, <2>8 DEF Numbers, CountersAddUp
  <2>12. KeysFollow(h, stored[j], req[j], "failing")
    BY <1>0, <2>2, <2>7, <2>9 DEF JobInv, Fits, KeysFollow, Before
  <2>13. ResultsFit(stored[j], req[j], job[j])
    BY <1>0 DEF JobInv, Fits
  <2>14. Keeps(j, h, stored[j], req[j])
    BY <2>2 DEF Keeps
  <2>15. DoneAddsUp(h)
    BY <2>2, <2>9 DEF DoneAddsUp
  <2>16. /\ Accounted(h) \in Accounted(hash[j]) .. MaxTickets
         /\ hash[j].total > 0 => Accounted(h) <= hash[j].total
    BY <1>0, <2>3, <2>7, <2>8 DEF Known, Numbers, Accounted
  <2>17. h.status = hash[j].status /\ h.total = hash[j].total
    BY <2>2
  <2>18. hash[j].status \notin {"done", "failed"}
    BY <2>9
  <2>19. Contract(hash[j], stored[j], h, stored[j])
    BY <2>17, <2>18, <2>16, AccountsWithinTotal
  <2> QED
    BY <2>5, <2>6, <2>10, <2>11, <2>12, <2>13, <2>14, <2>15, <2>19 DEF GoodStep, Fits
<1>7. CASE PublishProgress(j)
  <2>1. CASE job[j].left = 0
    <3>1. task[j] = "publishing"
      BY <1>7 DEF PublishProgress
    <3>2. Becomes(j, hash[j], stored[j], req[j], "finishing", job[j])
      BY <1>0, <1>7, <2>1
      DEF Becomes, Weight, Known, Stays, TaskPlaces, LivePlaces, Before,
          PublishProgress, NextBatch, Goto
    <3>3. Tells(j, hash[j], stored[j])
      BY <1>7 DEF Tells, PublishProgress
    <3>4. LocalsAddUp(req[j], "finishing", job[j])
      BY <1>0, <3>1, <2>1 DEF JobInv, Fits, LocalsAddUp
    <3>5. CountersAddUp(hash[j], req[j], "finishing", job[j])
      BY <1>0, <3>1 DEF JobInv, Fits, CountersAddUp
    <3>6. KeysFollow(hash[j], stored[j], req[j], "finishing")
      BY <1>0, <3>1 DEF JobInv, Fits, KeysFollow, Before, Looping
    <3>7. ResultsFit(stored[j], req[j], job[j])
      BY <1>0 DEF JobInv, Fits
    <3>8. Keeps(j, hash[j], stored[j], req[j])
      BY DEF Keeps
    <3>9. DoneAddsUp(hash[j])
      BY <1>0 DEF JobInv, Fits
    <3>10. Contract(hash[j], stored[j], hash[j], stored[j])
      BY DEF Contract, Stutters, SameState
    <3> QED
      BY <3>2, <3>3, <3>4, <3>5, <3>6, <3>7, <3>8, <3>9, <3>10 DEF GoodStep, Fits
  <2>2. CASE job[j].left # 0
    <3>1. task[j] = "publishing"
      BY <1>7 DEF PublishProgress
    <3>2. Becomes(j, hash[j], stored[j], req[j], "batch", job[j])
      BY <1>0, <1>7, <2>2
      DEF Becomes, Weight, Known, Stays, TaskPlaces, LivePlaces, Looping,
          PublishProgress, NextBatch, Goto
    <3>3. Tells(j, hash[j], stored[j])
      BY <1>7 DEF Tells, PublishProgress
    <3>4. LocalsAddUp(req[j], "batch", job[j])
      BY <1>0, <3>1 DEF JobInv, Fits, LocalsAddUp
    <3>5. CountersAddUp(hash[j], req[j], "batch", job[j])
      BY <1>0, <3>1 DEF JobInv, Fits, CountersAddUp
    <3>6. KeysFollow(hash[j], stored[j], req[j], "batch")
      BY <1>0, <3>1 DEF JobInv, Fits, KeysFollow, Before, Looping
    <3>7. ResultsFit(stored[j], req[j], job[j])
      BY <1>0 DEF JobInv, Fits
    <3>8. Keeps(j, hash[j], stored[j], req[j])
      BY DEF Keeps
    <3>9. DoneAddsUp(hash[j])
      BY <1>0 DEF JobInv, Fits
    <3>10. Contract(hash[j], stored[j], hash[j], stored[j])
      BY DEF Contract, Stutters, SameState
    <3> QED
      BY <3>2, <3>3, <3>4, <3>5, <3>6, <3>7, <3>8, <3>9, <3>10 DEF GoodStep, Fits
  <2> QED
    BY <2>1, <2>2
<1>8. CASE PublishProgressError(j)
  <2>1. task[j] = "publishing"
    BY <1>8 DEF PublishProgressError
  <2>2. Becomes(j, hash[j], stored[j], req[j], "failing", job[j])
    BY <1>0, <1>8
    DEF Becomes, Weight, Known, Stays, TaskPlaces, LivePlaces, Before,
        PublishProgressError, ToHandler, Goto
  <2>3. Tells(j, hash[j], stored[j])
    BY <1>8 DEF Tells, PublishProgressError
  <2>4. LocalsAddUp(req[j], "failing", job[j])
    BY <1>0, <2>1 DEF JobInv, Fits, LocalsAddUp
  <2>5. CountersAddUp(hash[j], req[j], "failing", job[j])
    BY <1>0 DEF JobInv, Fits, CountersAddUp
  <2>6. KeysFollow(hash[j], stored[j], req[j], "failing")
    BY <1>0, <2>1 DEF JobInv, Fits, KeysFollow, Before, Looping
  <2>7. ResultsFit(stored[j], req[j], job[j])
    BY <1>0 DEF JobInv, Fits
  <2>8. Keeps(j, hash[j], stored[j], req[j])
    BY DEF Keeps
  <2>9. DoneAddsUp(hash[j])
    BY <1>0 DEF JobInv, Fits
  <2>10. Contract(hash[j], stored[j], hash[j], stored[j])
    BY DEF Contract, Stutters, SameState
  <2> QED
    BY <2>2, <2>3, <2>4, <2>5, <2>6, <2>7, <2>8, <2>9, <2>10 DEF GoodStep, Fits
<1>9. CASE Finish(j)
  <2>1. task[j] = "finishing"
    BY <1>9 DEF Finish
  <2> DEFINE h == HSetStatus(hash[j], "done")
             s == [exists |-> TRUE, count |-> job[j].results]
  <2>2. /\ h \in HashType /\ h.exists /\ h.status = "done"
        /\ h.total = hash[j].total /\ h.ttl = hash[j].ttl
    BY <1>0, SetStatusFields DEF Known, Statuses
  <2>3. SameCounters(hash[j], h) /\ h.total = hash[j].total
    BY <1>0, SetStatusFields DEF Known, Statuses
  <2>4. s \in [exists : BOOLEAN, count : Nat] /\ s.exists
    BY <1>0 DEF Numbers
  <2>5. s.count = job[j].results
    OBVIOUS
  <2>6. Becomes(j, h, s, req[j], "announcing", job[j])
    BY <1>0, <1>9, <2>2, <2>4
    DEF Becomes, Weight, Known, Stays, TaskPlaces, LivePlaces, Finish, Put,
        StoreResults, Goto
  <2>7. Tells(j, h, s)
    BY <1>9 DEF Tells, Finish
  <2> HIDE DEF h, s
  <2>8. req[j] = "accepted" /\ job[j].completed = job[j].total
    BY <1>0, <2>1 DEF JobInv, Fits, LocalsAddUp, Numbers
  <2>9. /\ hash[j].completed + hash[j].failed <= job[j].completed
        /\ hash[j].failed <= job[j].failed /\ hash[j].hits <= job[j].hits
        /\ hash[j].total > 0 =>
             /\ hash[j].total = job[j].total
             /\ hash[j].completed + hash[j].failed = job[j].completed
             /\ hash[j].failed = job[j].failed /\ hash[j].hits = job[j].hits
    BY <1>0, <2>1 DEF JobInv, Fits, CountersAddUp
  <2>10. hash[j].status \in {"", "processing"}
    BY <1>0, <2>1 DEF JobInv, Fits, KeysFollow
  <2>11. LocalsAddUp(req[j], "announcing", job[j])
    BY <1>0, <2>1 DEF JobInv, Fits, LocalsAddUp
  <2>12. CountersAddUp(h, req[j], "announcing", job[j])
    BY <2>3, <2>8, <2>9 DEF SameCounters, CountersAddUp
  <2>13. KeysFollow(h, s, req[j], "announcing")
    BY <1>0, <2>2, <2>4, <2>8 DEF JobInv, Fits, KeysFollow, Before, Looping
  <2>14. ResultsFit(s, req[j], job[j])
    BY <1>0, <2>1, <2>5 DEF Numbers, JobInv, Fits, ResultsFit, LocalsAddUp
  <2>15. Keeps(j, h, s, req[j])
    BY <2>2, <2>4 DEF Keeps
  <2>16. h.total > 0 => h.completed + h.failed = h.total
    BY <2>3, <2>8, <2>9 DEF SameCounters
  <2>17. DoneAddsUp(h)
    BY <2>16 DEF DoneAddsUp
  <2>18. Accounted(h) = Accounted(hash[j]) /\ (hash[j].total > 0 => Accounted(hash[j]) = hash[j].total)
    BY <2>3, <2>8, <2>9 DEF SameCounters, Accounted
  <2>19. Contract(hash[j], stored[j], h, s)
    BY <2>2, <2>4, <2>10, <2>18 DEF Contract, Proceeds
  <2> QED
    BY <2>6, <2>7, <2>11, <2>12, <2>13, <2>14, <2>15, <2>17, <2>19 DEF GoodStep, Fits
<1>10. CASE FinishError(j)
  <2>1. CASE UNCHANGED <<hash, stored>>
    <3>1. task[j] = "finishing"
      BY <1>10 DEF FinishError
    <3>2. Becomes(j, hash[j], stored[j], req[j], "failing", job[j])
      BY <1>0, <1>10, <2>1
      DEF Becomes, Weight, Known, Stays, TaskPlaces, LivePlaces, FinishError, ToHandler,
          Goto
    <3>3. Tells(j, hash[j], stored[j])
      BY <1>10 DEF Tells, FinishError
    <3>4. LocalsAddUp(req[j], "failing", job[j])
      BY <1>0, <3>1 DEF JobInv, Fits, LocalsAddUp
    <3>5. CountersAddUp(hash[j], req[j], "failing", job[j])
      BY <1>0 DEF JobInv, Fits, CountersAddUp
    <3>6. KeysFollow(hash[j], stored[j], req[j], "failing")
      BY <1>0, <3>1 DEF JobInv, Fits, KeysFollow, Before
    <3>7. ResultsFit(stored[j], req[j], job[j])
      BY <1>0 DEF JobInv, Fits
    <3>8. Keeps(j, hash[j], stored[j], req[j])
      BY DEF Keeps
    <3>9. DoneAddsUp(hash[j])
      BY <1>0 DEF JobInv, Fits
    <3>10. Contract(hash[j], stored[j], hash[j], stored[j])
      BY DEF Contract, Stutters, SameState
    <3> QED
      BY <3>2, <3>3, <3>4, <3>5, <3>6, <3>7, <3>8, <3>9, <3>10 DEF GoodStep, Fits
  <2>2. CASE Put(j, HSetStatus(hash[j], "done")) /\ StoreResults(j)
    <3>1. task[j] = "finishing"
      BY <1>10 DEF FinishError
    <3> DEFINE h == HSetStatus(hash[j], "done")
               s == [exists |-> TRUE, count |-> job[j].results]
    <3>2. /\ h \in HashType /\ h.exists /\ h.status = "done"
          /\ h.total = hash[j].total /\ h.ttl = hash[j].ttl
      BY <1>0, SetStatusFields DEF Known, Statuses
    <3>3. SameCounters(hash[j], h) /\ h.total = hash[j].total
      BY <1>0, SetStatusFields DEF Known, Statuses
    <3>4. s \in [exists : BOOLEAN, count : Nat] /\ s.exists
      BY <1>0 DEF Numbers
    <3>5. s.count = job[j].results
      OBVIOUS
    <3>6. Becomes(j, h, s, req[j], "failing", job[j])
      BY <1>0, <1>10, <2>2, <3>2, <3>4
      DEF Becomes, Weight, Known, Stays, TaskPlaces, LivePlaces, FinishError, Put,
          StoreResults, ToHandler, Goto
    <3>7. Tells(j, h, s)
      BY <1>10 DEF Tells, FinishError
    <3> HIDE DEF h, s
    <3>8. req[j] = "accepted" /\ job[j].completed = job[j].total
      BY <1>0, <3>1 DEF JobInv, Fits, LocalsAddUp, Numbers
    <3>9. /\ hash[j].completed + hash[j].failed <= job[j].completed
          /\ hash[j].failed <= job[j].failed /\ hash[j].hits <= job[j].hits
          /\ hash[j].total > 0 =>
               /\ hash[j].total = job[j].total
               /\ hash[j].completed + hash[j].failed = job[j].completed
               /\ hash[j].failed = job[j].failed /\ hash[j].hits = job[j].hits
      BY <1>0, <3>1 DEF JobInv, Fits, CountersAddUp
    <3>10. hash[j].status \in {"", "processing"}
      BY <1>0, <3>1 DEF JobInv, Fits, KeysFollow
    <3>11. LocalsAddUp(req[j], "failing", job[j])
      BY <1>0, <3>1 DEF JobInv, Fits, LocalsAddUp
    <3>12. CountersAddUp(h, req[j], "failing", job[j])
      BY <3>3, <3>8, <3>9 DEF SameCounters, CountersAddUp
    <3>13. KeysFollow(h, s, req[j], "failing")
      BY <1>0, <3>2, <3>4, <3>8 DEF JobInv, Fits, KeysFollow, Before, Looping
    <3>14. ResultsFit(s, req[j], job[j])
      BY <1>0, <3>1, <3>5 DEF Numbers, JobInv, Fits, ResultsFit, LocalsAddUp
    <3>15. Keeps(j, h, s, req[j])
      BY <3>2, <3>4 DEF Keeps
    <3>16. h.total > 0 => h.completed + h.failed = h.total
      BY <3>3, <3>8, <3>9 DEF SameCounters
    <3>17. DoneAddsUp(h)
      BY <3>16 DEF DoneAddsUp
    <3>18. Accounted(h) = Accounted(hash[j]) /\ (hash[j].total > 0 => Accounted(hash[j]) = hash[j].total)
      BY <3>3, <3>8, <3>9 DEF SameCounters, Accounted
    <3>19. Contract(hash[j], stored[j], h, s)
      BY <3>2, <3>4, <3>10, <3>18 DEF Contract, Proceeds
    <3> QED
      BY <3>6, <3>7, <3>11, <3>12, <3>13, <3>14, <3>15, <3>17, <3>19 DEF GoodStep, Fits
  <2> QED
    BY <1>10, <2>1, <2>2 DEF FinishError
<1>11. CASE PublishDone(j)
  <2>1. task[j] = "announcing"
    BY <1>11 DEF PublishDone
  <2>2. Becomes(j, hash[j], stored[j], req[j], "ended", job[j])
    BY <1>0, <1>11
    DEF Becomes, Weight, Known, Stays, TaskPlaces, LivePlaces, Looping, PublishDone,
        Goto
  <2>3. Tells(j, hash[j], stored[j])
    BY <1>11 DEF Tells, PublishDone
  <2>4. LocalsAddUp(req[j], "ended", job[j])
    BY <1>0, <2>1 DEF JobInv, Fits, LocalsAddUp
  <2>5. CountersAddUp(hash[j], req[j], "ended", job[j])
    BY <1>0 DEF JobInv, Fits, CountersAddUp
  <2>6. KeysFollow(hash[j], stored[j], req[j], "ended")
    BY <1>0, <2>1, NoHashFields DEF JobInv, Fits, KeysFollow, Before, Looping
  <2>7. ResultsFit(stored[j], req[j], job[j])
    BY <1>0 DEF JobInv, Fits
  <2>8. Keeps(j, hash[j], stored[j], req[j])
    BY DEF Keeps
  <2>9. DoneAddsUp(hash[j])
    BY <1>0 DEF JobInv, Fits
  <2>10. Contract(hash[j], stored[j], hash[j], stored[j])
    BY DEF Contract, Stutters, SameState
  <2> QED
    BY <2>2, <2>3, <2>4, <2>5, <2>6, <2>7, <2>8, <2>9, <2>10 DEF GoodStep, Fits
<1>12. CASE PublishDoneError(j)
  <2>1. task[j] = "announcing"
    BY <1>12 DEF PublishDoneError
  <2>2. Becomes(j, hash[j], stored[j], req[j], "failing", job[j])
    BY <1>0, <1>12
    DEF Becomes, Weight, Known, Stays, TaskPlaces, LivePlaces, PublishDoneError,
        ToHandler, Goto
  <2>3. Tells(j, hash[j], stored[j])
    BY <1>12 DEF Tells, PublishDoneError
  <2>4. LocalsAddUp(req[j], "failing", job[j])
    BY <1>0, <2>1 DEF JobInv, Fits, LocalsAddUp
  <2>5. CountersAddUp(hash[j], req[j], "failing", job[j])
    BY <1>0 DEF JobInv, Fits, CountersAddUp
  <2>6. KeysFollow(hash[j], stored[j], req[j], "failing")
    BY <1>0, <2>1, NoHashFields DEF JobInv, Fits, KeysFollow, Before, Looping
  <2>7. ResultsFit(stored[j], req[j], job[j])
    BY <1>0 DEF JobInv, Fits
  <2>8. Keeps(j, hash[j], stored[j], req[j])
    BY DEF Keeps
  <2>9. DoneAddsUp(hash[j])
    BY <1>0 DEF JobInv, Fits
  <2>10. Contract(hash[j], stored[j], hash[j], stored[j])
    BY DEF Contract, Stutters, SameState
  <2> QED
    BY <2>2, <2>3, <2>4, <2>5, <2>6, <2>7, <2>8, <2>9, <2>10 DEF GoodStep, Fits
<1>13. CASE RecordFailure(j)
  <2>1. task[j] = "failing"
    BY <1>13 DEF RecordFailure
  <2> DEFINE h == HSetStatus(hash[j], "failed")
  <2>2. /\ h \in HashType /\ h.exists /\ h.status = "failed"
        /\ h.total = hash[j].total /\ h.ttl = hash[j].ttl
    BY <1>0, SetStatusFields DEF Known, Statuses
  <2>3. SameCounters(hash[j], h) /\ h.total = hash[j].total
    BY <1>0, SetStatusFields DEF Known, Statuses
  <2>4. Becomes(j, h, stored[j], req[j], "ended", job[j])
    BY <1>0, <1>13, <2>2
    DEF Becomes, Weight, Known, Stays, TaskPlaces, LivePlaces, Looping, RecordFailure,
        Put, Goto
  <2>5. Tells(j, h, stored[j])
    BY <1>13 DEF Tells, RecordFailure
  <2> HIDE DEF h
  <2>6. LocalsAddUp(req[j], "ended", job[j])
    BY <1>0, <2>1 DEF JobInv, Fits, LocalsAddUp
  <2>7. CountersAddUp(h, req[j], "ended", job[j])
    BY <1>0, <2>3 DEF SameCounters, JobInv, Fits, CountersAddUp
  <2>8. KeysFollow(h, stored[j], req[j], "ended")
    BY <1>0, <2>1, <2>2 DEF JobInv, Fits, LocalsAddUp, KeysFollow, Before, Looping
  <2>9. ResultsFit(stored[j], req[j], job[j])
    BY <1>0 DEF JobInv, Fits
  <2>10. Keeps(j, h, stored[j], req[j])
    BY <2>2 DEF Keeps
  <2>11. DoneAddsUp(h)
    BY <2>2 DEF DoneAddsUp
  <2>12. Accounted(h) = Accounted(hash[j])
    BY <2>3 DEF SameCounters, Accounted
  <2>13. Contract(hash[j], stored[j], h, stored[j])
    BY <1>0, <2>1, <2>2, <2>12 DEF JobInv, Fits, KeysFollow, Contract, Proceeds
  <2> QED
    BY <2>4, <2>5, <2>6, <2>7, <2>8, <2>9, <2>10, <2>11, <2>13 DEF GoodStep, Fits
<1>14. CASE RecordFailureError(j)
  <2>1. task[j] = "failing"
    BY <1>14 DEF RecordFailureError
  <2> DEFINE c == HSetStatus(hash[j], "failed")
  <2>2. /\ c \in HashType /\ c.exists /\ c.status = "failed"
        /\ c.total = hash[j].total /\ c.ttl = hash[j].ttl
    BY <1>0, SetStatusFields DEF Known, Statuses
  <2>3. SameCounters(hash[j], c) /\ c.total = hash[j].total
    BY <1>0, SetStatusFields DEF Known, Statuses
  <2>4. PICK h \in {hash[j], c} : hash' = [hash EXCEPT ![j] = h]
    BY <1>0, <1>14 DEF RecordFailureError, MayPut, Stays
  <2>5. Becomes(j, h, stored[j], req[j], "abandoned", job[j])
    BY <1>0, <1>14, <2>2, <2>4
    DEF Becomes, Weight, Known, Stays, TaskPlaces, LivePlaces, Looping,
        RecordFailureError, Goto
  <2>6. Tells(j, h, stored[j])
    BY <1>14 DEF Tells, RecordFailureError
  <2> HIDE DEF c
  <2>7. LocalsAddUp(req[j], "abandoned", job[j])
    BY <1>0, <2>1 DEF JobInv, Fits, LocalsAddUp
  <2>8. CountersAddUp(h, req[j], "abandoned", job[j])
    BY <1>0, <2>3 DEF SameCounters, JobInv, Fits, CountersAddUp
  <2>9. KeysFollow(h, stored[j], req[j], "abandoned")
    BY <1>0, <2>1, <2>2 DEF JobInv, Fits, LocalsAddUp, KeysFollow, Before, Looping
  <2>10. ResultsFit(stored[j], req[j], job[j])
    BY <1>0 DEF JobInv, Fits
  <2>11. Keeps(j, h, stored[j], req[j])
    BY <2>2 DEF Keeps
  <2>12. DoneAddsUp(h)
    BY <1>0, <2>2 DEF DoneAddsUp, JobInv, Fits
  <2>13. Accounted(c) = Accounted(hash[j])
    BY <2>3 DEF SameCounters, Accounted
  <2>14. Proceeds(hash[j], stored[j], c, stored[j])
    BY <1>0, <2>1, <2>2, <2>13 DEF JobInv, Fits, KeysFollow, Proceeds
  <2>15. Contract(hash[j], stored[j], h, stored[j])
    BY <2>14 DEF Contract, Stutters, SameState
  <2> QED
    BY <2>5, <2>6, <2>7, <2>8, <2>9, <2>10, <2>11, <2>12, <2>15 DEF GoodStep, Fits
<1> QED
  BY <1>1, <1>2, <1>3, <1>4, <1>5, <1>6, <1>7, <1>8, <1>9, <1>10, <1>11, <1>12, <1>13,
     <1>14
  DEF Process

(* The keys' expiry, at whatever point of the job it comes. *)
LEMMA ExpiryIsGood ==
  ASSUME IInv, NEW j \in Jobs, ExpireHash(j) \/ ExpireResults(j)
  PROVE  GoodStep(j)
<1>0. Known(j) /\ Numbers(hash[j], job[j]) /\ Stays(j) /\ JobInv(j)
  BY JobAtRest
<1>1. CASE ExpireHash(j)
  <2>1. hash[j].ttl
    BY <1>1 DEF ExpireHash
  <2> DEFINE h == NoHash
  <2>2. h = NoHash /\ h \in HashType
    BY NoHashFields
  <2>3. /\ h.completed = 0 /\ h.failed = 0 /\ h.hits = 0 /\ h.total = 0
    BY NoHashNumbers
  <2>4. Becomes(j, h, stored[j], req[j], task[j], job[j])
    BY <1>0, <1>1, <2>2 DEF Becomes, Weight, Known, Stays, ExpireHash, Put
  <2>5. Tells(j, h, stored[j])
    BY <1>1 DEF Tells, ExpireHash
  <2> HIDE DEF h
  <2>6. ~(h.total > 0)
    BY <2>3
  <2>7. LocalsAddUp(req[j], task[j], job[j])
    BY <1>0 DEF JobInv, Fits
  <2>8. CountersAddUp(h, req[j], task[j], job[j])
    BY <1>0, <2>3 DEF Numbers, JobInv, Fits, CountersAddUp
  <2>9. KeysFollow(h, stored[j], req[j], task[j])
    BY <1>0, <2>2, <2>6, NoHashFields DEF JobInv, Fits, KeysFollow
  <2>10. ResultsFit(stored[j], req[j], job[j])
    BY <1>0 DEF JobInv, Fits
  <2>11. Keeps(j, h, stored[j], req[j])
    BY <2>1 DEF Keeps
  <2>12. Accounted(h) = 0
    BY <2>3 DEF Accounted
  <2>13. DoneAddsUp(h)
    BY <2>6 DEF DoneAddsUp
  <2>14. h.total = 0
    BY <2>3
  <2>15. h.status = ""
    BY <2>2, NoHashFields
  <2>16. Contract(hash[j], stored[j], h, stored[j])
    BY <2>12, <2>15, <2>14 DEF Contract, IsForgotten, NoState
  <2> QED
    BY <2>4, <2>5, <2>7, <2>8, <2>9, <2>10, <2>11, <2>13, <2>16 DEF GoodStep, Fits
<1>2. CASE ExpireResults(j)
  <2>1. stored[j].exists /\ ~hash[j].ttl
    BY <1>2 DEF ExpireResults
  <2>2. Becomes(j, hash[j], NoResults, req[j], task[j], job[j])
    BY <1>0, <1>2 DEF Becomes, Weight, Known, Stays, ExpireResults, NoResults
  <2>3. Tells(j, hash[j], NoResults)
    BY <1>2 DEF Tells, ExpireResults
  <2>4. LocalsAddUp(req[j], task[j], job[j])
    BY <1>0 DEF JobInv, Fits
  <2>5. CountersAddUp(hash[j], req[j], task[j], job[j])
    BY <1>0 DEF JobInv, Fits
  <2>6. KeysFollow(hash[j], NoResults, req[j], task[j])
    BY <1>0, <2>1 DEF JobInv, Fits, KeysFollow
  <2>7. ResultsFit(NoResults, req[j], job[j])
    BY <1>0 DEF Numbers, ResultsFit, NoResults
  <2>8. Keeps(j, hash[j], NoResults, req[j])
    BY <2>1 DEF Keeps
  <2>9. DoneAddsUp(hash[j])
    BY <1>0 DEF JobInv, Fits
  <2>10. ~(hash[j].total > 0)
    BY <1>0, <2>1 DEF JobInv, Fits, KeysFollow
  <2>11. hash[j].total = 0
    BY <1>0, <2>10 DEF Numbers
  <2>12. Contract(hash[j], stored[j], hash[j], NoResults)
    BY <2>11 DEF Contract, DropsResults, SameState, NoResults
  <2> QED
    BY <2>2, <2>3, <2>4, <2>5, <2>6, <2>7, <2>8, <2>9, <2>12 DEF GoodStep, Fits
<1> QED
  BY <1>1, <1>2

(* Every step of the clients of GET /stream: nothing of the jobs changes,   *)
(* and only a done event ends a stream.                                    *)
StreamStep ==
  \/ \E s \in Streams, j \in Jobs : OpenStream(s, j) \/ StreamNotFound(s, j)
  \/ \E s \in Streams : Subscribe(s) \/ CloseStream(s)

(* Every step of the clients of GET /results. *)
PollStep ==
  \/ \E p \in Pollers, j \in Jobs : GetState(p, j) \/ GetStateError(p, j)
  \/ \E p \in Pollers : GetResults(p) \/ GetResultsError(p)

(* A step of a client keeps the invariant. *)
LEMMA StreamStepKeeps ==
  ASSUME IInv, StreamStep
  PROVE  IInv' /\ UNCHANGED <<hash, stored, req, task, job, active, poll, crashes>>
<1>1. UNCHANGED <<hash, stored, req, task, job, active, poll, crashes>>
  BY DEF StreamStep, OpenStream, StreamNotFound, Subscribe, CloseStream, StreamUnchanged
<1>2. stream \in [Streams -> StreamType]
  BY DEF IInv, Typed
<1>3. /\ stream' \in [Streams -> StreamType]
      /\ \A s \in Streams : stream'[s] = stream[s] \/ stream'[s].at # "ended"
  <2>1. CASE \E s \in Streams, j \in Jobs : OpenStream(s, j) \/ StreamNotFound(s, j)
    BY <1>2, <2>1 DEF OpenStream, StreamNotFound, StreamType
  <2>2. CASE \E s \in Streams : Subscribe(s) \/ CloseStream(s)
    <3>1. PICK s \in Streams, a \in {"open", "closed"} :
            stream' = [stream EXCEPT ![s].at = a]
      BY <2>2 DEF Subscribe, CloseStream, StreamAt
    <3> QED
      BY <1>2, <3>1 DEF StreamType
  <2> QED
    BY <2>1, <2>2 DEF StreamStep
<1>4. Typed'
  BY <1>1, <1>3 DEF IInv, Typed
<1>5. \A j \in Jobs : JobInv(j)'
  BY <1>1 DEF IInv, JobInv
<1>6. \A s \in Streams : StreamInv(s)'
  BY <1>1, <1>3 DEF IInv, StreamInv
<1>7. \A p \in Pollers : PollInv(p)'
  BY <1>1 DEF IInv, PollInv
<1>8. active' = Cardinality(Live')
  BY <1>1 DEF IInv, Live
<1> QED
  BY <1>1, <1>4, <1>5, <1>6, <1>7, <1>8 DEF IInv

(* What a poller is told, and of which job. *)
LEMMA Told ==
  ASSUME IInv, NEW p \in Pollers, NEW a, NEW j \in Jobs, Tell(p, a, j)
  PROVE  /\ poll'[p].at = a /\ poll'[p].job = j
         /\ \A q \in Pollers \ {p} : poll'[q] = poll[q]
BY DEF IInv, Typed, Tell

(* A step of a poller keeps the invariant. *)
LEMMA PollStepKeeps ==
  ASSUME IInv, PollStep
  PROVE  IInv' /\ UNCHANGED <<hash, stored, req, task, job, active, stream, crashes>>
<1>1. UNCHANGED <<hash, stored, req, task, job, active, stream, crashes>>
  BY DEF PollStep, GetState, GetStateError, GetResults, GetResultsError, PollUnchanged
<1>2. poll \in [Pollers -> PollType] /\ \A p \in Pollers : PollInv(p)
  BY DEF IInv, Typed
<1>3. poll' \in [Pollers -> PollType] /\ \A p \in Pollers : PollInv(p)'
  <2>1. ASSUME NEW p \in Pollers, NEW j \in Jobs, NEW a, Tell(p, a, j),
               a \in {"reading", "not_found", "progress", "failed", "done",
                      "no_results", "redis_error"},
               a \in {"reading", "no_results"} =>
                 /\ req[j] = "accepted"
                 /\ hash[j].ttl => stored[j].exists /\ a # "no_results"
        PROVE  poll' \in [Pollers -> PollType] /\ \A q \in Pollers : PollInv(q)'
    <3>1. poll' \in [Pollers -> PollType]
      BY <1>2, <2>1 DEF Tell, PollType
    <3>2. PollInv(p)'
      BY <1>1, <2>1, Told DEF PollInv
    <3>3. ASSUME NEW q \in Pollers \ {p} PROVE PollInv(q)'
      BY <1>1, <1>2, <2>1, Told DEF PollInv
    <3> QED
      BY <3>1, <3>2, <3>3
  <2>2. ASSUME NEW p \in Pollers, NEW j \in Jobs, GetState(p, j)
        PROVE  poll' \in [Pollers -> PollType] /\ \A q \in Pollers : PollInv(q)'
    <3>1. JobInv(j)
      BY DEF IInv
    <3>2. Answer(hash[j]) \in {"reading", "not_found", "progress", "failed"}
      BY DEF Answer
    <3>3. Answer(hash[j]) = "reading" => hash[j].status = "done"
      BY DEF Answer
    <3>4. hash[j].status = "done" =>
            req[j] = "accepted" /\ (hash[j].ttl => stored[j].exists)
      BY <3>1, NoHashFields DEF JobInv, Fits, LocalsAddUp, KeysFollow
    <3>5. Tell(p, Answer(hash[j]), j)
      BY <2>2 DEF GetState
    <3> QED
      BY <2>1, <3>2, <3>3, <3>4, <3>5
  <2>3. ASSUME NEW p \in Pollers, NEW j \in Jobs, GetStateError(p, j)
        PROVE  poll' \in [Pollers -> PollType] /\ \A q \in Pollers : PollInv(q)'
    BY <2>1, <2>3 DEF GetStateError
  <2>4. ASSUME NEW p \in Pollers, GetResults(p) \/ GetResultsError(p)
        PROVE  poll' \in [Pollers -> PollType] /\ \A q \in Pollers : PollInv(q)'
    <3> DEFINE j == poll[p].job
    <3>1. j \in Jobs /\ PollInv(p)
      BY <1>2 DEF PollType
    <3>2. poll[p].at = "reading"
      BY <2>4 DEF GetResults, GetResultsError
    <3>3. req[j] = "accepted" /\ (hash[j].ttl => stored[j].exists)
      BY <3>1, <3>2 DEF PollInv
    <3>4. PICK a \in {"done", "no_results", "redis_error"} :
            Tell(p, a, j) /\ (a = "no_results" => ~stored[j].exists)
      BY <2>4 DEF GetResults, GetResultsError
    <3> HIDE DEF j
    <3> QED
      BY <2>1, <3>1, <3>3, <3>4
  <2> QED
    BY <2>2, <2>3, <2>4 DEF PollStep
<1>4. Typed'
  BY <1>1, <1>3 DEF IInv, Typed
<1>5. \A j \in Jobs : JobInv(j)'
  BY <1>1 DEF IInv, JobInv
<1>6. \A s \in Streams : StreamInv(s)'
  BY <1>1 DEF IInv, StreamInv
<1>7. active' = Cardinality(Live')
  BY <1>1 DEF IInv, Live
<1> QED
  BY <1>1, <1>3, <1>4, <1>5, <1>6, <1>7 DEF IInv

(* A crash leaves Redis as it is, and nothing alive in the worker. *)
LEMMA CrashKeeps ==
  ASSUME IInv, Crash
  PROVE  IInv' /\ UNCHANGED <<hash, stored>>
<1>1. UNCHANGED <<hash, stored, job>> /\ crashes' = crashes + 1 /\ crashes < MaxCrashes
      /\ active' = 0
  BY DEF Crash
<1>2. Typed /\ \A j \in Jobs : JobInv(j)
  BY DEF IInv
<1>3. ASSUME NEW j \in Jobs
      PROVE  /\ req'[j] \in ReqPlaces
             /\ req[j] \in {"new", "accepted", "refused"} => req'[j] = req[j]
             /\ req[j] \notin {"new", "accepted", "refused"} => req'[j] = "refused"
  BY <1>2 DEF Crash, Typed, Requesting, ReqPlaces
<1>4. ASSUME NEW j \in Jobs
      PROVE  /\ task'[j] \in TaskPlaces
             /\ task[j] \in {"none", "ended", "abandoned"} => task'[j] = task[j]
             /\ task[j] \notin {"none", "ended", "abandoned"} => task'[j] = "lost"
  BY <1>2 DEF Crash, Typed, Running, TaskPlaces
<1>5. /\ stream' \in [Streams -> StreamType]
      /\ \A s \in Streams : stream'[s] = stream[s] \/ stream'[s].at # "ended"
  BY <1>2 DEF Crash, Typed, StreamType
<1>6. /\ req' \in [Jobs -> ReqPlaces] /\ task' \in [Jobs -> TaskPlaces]
      /\ poll' \in [Pollers -> PollType]
      /\ \A p \in Pollers : poll'[p] = poll[p] \/ poll'[p].at = "closed"
  BY <1>2, <1>3, <1>4 DEF Crash, Typed, PollType
<1>7. Typed'
  BY <1>1, <1>2, <1>5, <1>6, JobAssumption DEF Typed
<1>8. ASSUME NEW j \in Jobs PROVE JobInv(j)'
  <2>1. Fits(hash[j], stored[j], req[j], task[j], job[j])
    BY <1>2 DEF JobInv
  <2>2. LocalsAddUp(req'[j], task'[j], job[j])
    BY <1>3, <1>4, <2>1 DEF Fits, LocalsAddUp
  <2>3. CountersAddUp(hash[j], req'[j], task'[j], job[j])
    BY <1>3, <1>4, <2>1 DEF Fits, CountersAddUp
  <2>4. ResultsFit(stored[j], req'[j], job[j])
    BY <1>3, <2>1 DEF Fits, ResultsFit
  <2>5. KeysFollow(hash[j], stored[j], req'[j], task'[j])
    BY <1>3, <1>4, <2>1 DEF Fits, KeysFollow, Before, Looping
  <2> QED
    BY <1>1, <2>1, <2>2, <2>3, <2>4, <2>5 DEF JobInv, Fits
<1>9. ASSUME NEW s \in Streams PROVE StreamInv(s)'
  <2>1. StreamInv(s) /\ stream[s].job \in Jobs
    BY DEF IInv, Typed, StreamType
  <2> QED
    BY <1>1, <1>3, <1>5, <2>1 DEF StreamInv
<1>10. ASSUME NEW p \in Pollers PROVE PollInv(p)'
  <2>1. PollInv(p) /\ poll[p].job \in Jobs
    BY <1>2 DEF IInv, Typed, PollType
  <2> QED
    BY <1>1, <1>3, <1>6, <2>1 DEF PollInv
<1>11. active' = Cardinality(Live')
  <2>1. Live' = {}
    BY <1>4 DEF Live, LivePlaces, Looping
  <2> QED
    BY <1>1, <2>1, FS_EmptySet
<1> QED
  BY <1>1, <1>7, <1>8, <1>9, <1>10, <1>11 DEF IInv

(* At the start no job is known, nothing runs and no client is served. *)
LEMMA InitInvariant == Init => IInv
<1> SUFFICES ASSUME Init PROVE IInv
  OBVIOUS
<1>1. /\ NoHash \in HashType /\ NoHash.status = "" /\ ~NoHash.exists /\ ~NoHash.ttl
      /\ NoHash.completed = 0 /\ NoHash.failed = 0 /\ NoHash.hits = 0 /\ NoHash.total = 0
  BY NoHashFields, NoHashNumbers
<1>2. Typed
  <2>1. hash \in [Jobs -> HashType]
    BY <1>1 DEF Init
  <2>2. /\ stored \in [Jobs -> [exists : BOOLEAN, count : Nat]]
        /\ req \in [Jobs -> ReqPlaces] /\ task \in [Jobs -> TaskPlaces]
    BY DEF Init, NoResults, ReqPlaces, TaskPlaces, Before
  <2>3. job \in [Jobs -> LocalType]
    BY DEF Init, LocalType, BatchType, NoBatch
  <2>4. stream \in [Streams -> StreamType] /\ poll \in [Pollers -> PollType]
    BY JobAssumption DEF Init, StreamType, PollType
  <2> QED
    BY <2>1, <2>2, <2>3, <2>4, JobAssumption DEF Typed, Init
<1>3. ASSUME NEW j \in Jobs PROVE JobInv(j)
  <2>1. /\ job[j].total = 0 /\ job[j].left = 0 /\ job[j].completed = 0 /\ job[j].failed = 0
        /\ job[j].hits = 0 /\ job[j].results = 0 /\ job[j].repeated = 0
        /\ job[j].batch.ok = 0 /\ job[j].batch.failed = 0 /\ job[j].batch.hits = 0
    BY DEF Init, NoBatch
  <2>2. hash[j] = NoHash /\ stored[j] = NoResults /\ req[j] = "new" /\ task[j] = "none"
    BY DEF Init
  <2>3. LocalsAddUp("new", "none", job[j])
    BY <2>1, JobAssumption DEF LocalsAddUp
  <2>4. CountersAddUp(NoHash, "new", "none", job[j])
    BY NoHashNumbers, <2>1 DEF CountersAddUp
  <2>5. ~(NoHash.total > 0)
    BY NoHashNumbers
  <2>6. KeysFollow(NoHash, NoResults, "new", "none")
    BY <1>1, <2>5 DEF KeysFollow, NoResults
  <2>7. DoneAddsUp(NoHash)
    BY <2>5 DEF DoneAddsUp
  <2>8. ResultsFit(NoResults, "new", job[j])
    BY <2>1 DEF ResultsFit, NoResults
  <2> QED
    BY <2>2, <2>3, <2>4, <2>6, <2>7, <2>8 DEF JobInv, Fits
<1>4. ASSUME NEW s \in Streams PROVE StreamInv(s)
  BY DEF Init, StreamInv
<1>5. ASSUME NEW p \in Pollers PROVE PollInv(p)
  BY DEF Init, PollInv
<1>6. Live = {}
  BY DEF Init, Live, LivePlaces, Looping
<1> QED
  BY <1>2, <1>3, <1>4, <1>5, <1>6, FS_EmptySet DEF IInv, Init

(* Nothing changes when nothing happens. *)
LEMMA StutterKeeps ==
  ASSUME IInv, UNCHANGED vars
  PROVE  IInv'
<1>1. /\ hash' = hash /\ stored' = stored /\ req' = req /\ task' = task /\ job' = job
      /\ active' = active /\ stream' = stream /\ poll' = poll /\ crashes' = crashes
  BY DEF vars
<1>2. /\ Typed' /\ (\A j \in Jobs : JobInv(j)') /\ (\A s \in Streams : StreamInv(s)')
      /\ \A p \in Pollers : PollInv(p)'
  BY <1>1 DEF IInv, Typed, JobInv, StreamInv, PollInv
<1>3. active' = Cardinality(Live')
  BY <1>1 DEF IInv, Live
<1> QED
  BY <1>2, <1>3 DEF IInv

(* Every step is a good step of one job, a client's, the crash, or none. *)
LEMMA EveryStep ==
  ASSUME IInv, [Next]_vars
  PROVE  \/ \E j \in Jobs : GoodStep(j)
         \/ StreamStep \/ PollStep \/ Crash \/ UNCHANGED vars
<1>1. ASSUME NEW j \in Jobs, Request(j) PROVE GoodStep(j)
  BY <1>1, RequestIsGood
<1>2. ASSUME NEW j \in Jobs, Process(j) PROVE GoodStep(j)
  BY <1>2, ProcessIsGood
<1>3. ASSUME NEW j \in Jobs, ExpireHash(j) \/ ExpireResults(j) PROVE GoodStep(j)
  BY <1>3, ExpiryIsGood
<1> QED
  BY <1>1, <1>2, <1>3 DEF Next, StreamStep, PollStep

(* The invariant is inductive. *)
LEMMA NextInvariant == IInv /\ [Next]_vars => IInv'
BY EveryStep, GoodStepKeeps, StreamStepKeeps, PollStepKeeps, CrashKeeps, StutterKeeps

(* The invariant holds in every state of every job service that starts     *)
(* with an empty Redis, whatever commands fail or crash.                   *)
THEOREM Invariant == Spec => []IInv
BY InitInvariant, NextInvariant, PTL DEF Spec

-----------------------------------------------------------------------------
(* The numbers of one job are within the bounds of its request. *)
LEMMA Bounded ==
  ASSUME IInv, NEW j \in Jobs
  PROVE  /\ hash[j] \in [exists : BOOLEAN, status : Statuses, total : Count,
                         completed : Count, failed : Count, hits : Count, ttl : BOOLEAN]
         /\ stored[j] \in [exists : BOOLEAN, count : Count]
         /\ job[j] \in [total : Count, left : Count, completed : Count,
                        failed : Count, hits : Count, repeated : Count,
                        results : Count, batch : [ok : Count, failed : Count, hits : Count]]
<1>0. Known(j) /\ Numbers(hash[j], job[j]) /\ JobInv(j)
  BY JobAtRest
<1>1. /\ job[j].left + job[j].completed = job[j].total /\ job[j].total <= MaxTickets
      /\ job[j].hits <= job[j].completed
      /\ job[j].results + job[j].repeated = job[j].completed
      /\ job[j].failed <= job[j].completed
      /\ job[j].batch.ok + job[j].batch.failed <= job[j].completed
      /\ job[j].batch.hits <= job[j].completed
  BY <1>0 DEF JobInv, Fits, LocalsAddUp
<1>2. /\ hash[j].completed + hash[j].failed <= job[j].completed
      /\ hash[j].failed <= job[j].failed /\ hash[j].hits <= job[j].hits
      /\ hash[j].total > 0 => hash[j].total = job[j].total
  BY <1>0 DEF JobInv, Fits, CountersAddUp
<1>3. stored[j].count <= job[j].completed
  BY <1>0 DEF JobInv, Fits, ResultsFit
<1>4. /\ job[j].total \in Count /\ job[j].left \in Count /\ job[j].completed \in Count
      /\ job[j].failed \in Count /\ job[j].hits \in Count /\ job[j].results \in Count
      /\ job[j].repeated \in Count
  BY <1>0, <1>1 DEF Known, Numbers, Count
<1>5. /\ job[j].batch.ok \in Count /\ job[j].batch.failed \in Count
      /\ job[j].batch.hits \in Count
  BY <1>0, <1>1 DEF Known, Numbers, Count
<1>6. /\ hash[j].completed \in Count /\ hash[j].failed \in Count /\ hash[j].hits \in Count
      /\ hash[j].total \in Count
  BY <1>0, <1>1, <1>2 DEF Known, Numbers, Count
<1>7. stored[j].count \in Count
  BY <1>0, <1>1, <1>3 DEF Known, Numbers, Count
<1>8. job[j].batch \in [ok : Count, failed : Count, hits : Count]
  BY <1>0, <1>5 DEF Numbers, BatchType
<1> QED
  BY <1>0, <1>4, <1>6, <1>7, <1>8 DEF Known, HashType, LocalType

(* The live tasks are those that run and those that leaked. *)
LEMMA LiveAreRunning == Typed => Live = {j \in Jobs : Running(j) \/ task[j] = "leaked"}
BY DEF Typed, Live, Running, TaskPlaces, LivePlaces, Before, Looping

(* The keys, the local variables and the counters stay within their types, *)
(* the number of tickets of the largest request included.                  *)
THEOREM TypeCorrect == Spec => []TypeOK
<1>1. IInv => TypeOK
  <2> SUFFICES ASSUME IInv PROVE TypeOK
    OBVIOUS
  <2>1. Typed /\ active = Cardinality(Live)
    BY DEF IInv
  <2>2. active \in 0 .. Cardinality(Jobs)
    <3>1. Live \subseteq Jobs
      BY DEF Live
    <3>2. Cardinality(Live) <= Cardinality(Jobs)
      BY <3>1, JobAssumption, FS_Subset
    <3>3. Cardinality(Live) \in Nat /\ Cardinality(Jobs) \in Nat
      BY <3>1, JobAssumption, FS_Subset, FS_CardinalityType
    <3> QED
      BY <2>1, <3>2, <3>3
  <2>3. /\ req \in [Jobs -> {"new", "creating", "expiring", "counting", "accepted", "refused"}]
        /\ task \in [Jobs -> {"none", "scheduled", "starting", "batch", "counting",
                              "publishing", "finishing", "announcing", "failing",
                              "ended", "abandoned", "leaked", "lost"}]
    BY <2>1 DEF Typed, ReqPlaces, TaskPlaces, LivePlaces, Before, Looping
  <2>4. hash \in [Jobs -> [exists : BOOLEAN, status : Statuses, total : Count,
                           completed : Count, failed : Count, hits : Count,
                           ttl : BOOLEAN]]
    BY <2>1, Bounded DEF Typed
  <2>5. stored \in [Jobs -> [exists : BOOLEAN, count : Count]]
    BY <2>1, Bounded DEF Typed
  <2>6. job \in [Jobs -> [total : Count, left : Count, completed : Count,
                          failed : Count, hits : Count, repeated : Count,
                          results : Count, batch : [ok : Count, failed : Count, hits : Count]]]
    BY <2>1, Bounded DEF Typed
  <2> QED
    BY <2>1, <2>2, <2>3, <2>4, <2>5, <2>6 DEF TypeOK, Typed, StreamType, PollType
<1> QED
  BY <1>1, Invariant, PTL

(* The gauge of active jobs counts the running tasks, and those that died  *)
(* in start(), through any failures and crashes.                           *)
THEOREM ActiveCountIsExact == Spec => []ActiveIsExact
<1>1. IInv => ActiveIsExact
  BY LiveAreRunning DEF IInv, ActiveIsExact
<1> QED
  BY <1>1, Invariant, PTL

(* Between two batches a poller reads the counters the task publishes.     *)
THEOREM PollerAgreesWithTask == Spec => []ProgressAgrees
<1>1. IInv => ProgressAgrees
  BY DEF IInv, JobInv, Fits, CountersAddUp, ProgressAgrees
<1> QED
  BY <1>1, Invariant, PTL

(* A job accounts for no more tickets than its request has, and for all of *)
(* them once it reads as done.                                             *)
THEOREM NothingMissingFromDone == Spec => []DoneIsComplete
<1>1. IInv => DoneIsComplete
  <2> SUFFICES ASSUME IInv, NEW j \in Jobs, hash[j].total > 0
               PROVE  /\ hash[j].completed + hash[j].failed <= hash[j].total
                      /\ hash[j].status = "done" =>
                           hash[j].completed + hash[j].failed = hash[j].total
    BY DEF DoneIsComplete
  <2>1. Numbers(hash[j], job[j]) /\ JobInv(j)
    BY JobAtRest
  <2>2. /\ hash[j].completed + hash[j].failed <= job[j].completed
        /\ hash[j].total = job[j].total /\ job[j].left + job[j].completed = job[j].total
    BY <2>1 DEF JobInv, Fits, CountersAddUp, LocalsAddUp
  <2>3. hash[j].status = "done" => hash[j].completed + hash[j].failed = hash[j].total
    BY <2>1 DEF JobInv, Fits, DoneAddsUp
  <2>4. hash[j].completed + hash[j].failed <= hash[j].total
    BY <2>1, <2>2 DEF Numbers
  <2> QED
    BY <2>3, <2>4
<1> QED
  BY <1>1, Invariant, PTL

(* The results that a job stores are those of all its tickets but the      *)
(* repeated ones.                                                          *)
THEOREM StoredResultsComplete == Spec => []ResultsComplete
<1>1. IInv => ResultsComplete
  BY DEF IInv, JobInv, Fits, ResultsFit, ResultsComplete
<1> QED
  BY <1>1, Invariant, PTL

(* While a hash awaits its expiry, its job's results are there for whoever *)
(* was told that it is done, between the two reads of a poller as well.    *)
THEOREM DoneResultsAreThere == Spec => []ResultsAvailable
<1>1. IInv => ResultsAvailable
  BY DEF IInv, StreamInv, PollInv, ResultsAvailable
<1> QED
  BY <1>1, Invariant, PTL

(* A hash that lacks an expiry is that of a POST that did not get as far,  *)
(* or was written after its job's hash had expired.                        *)
THEOREM OnlyLeftoversLackExpiry == Spec => []OnlyLeftoversStay
<1>1. IInv => OnlyLeftoversStay
  <2> SUFFICES ASSUME IInv, NEW j \in Jobs, ~hash[j].ttl
               PROVE  req[j] \in {"expiring", "refused"} \/ hash[j].total = 0
    BY DEF OnlyLeftoversStay
  <2>1. hash[j].total \in Nat /\ JobInv(j)
    BY JobAtRest DEF Numbers
  <2>2. hash[j].total > 0 => req[j] \in {"expiring", "refused"}
    BY <2>1 DEF JobInv, Fits, KeysFollow
  <2> QED
    BY <2>1, <2>2
<1> QED
  BY <1>1, Invariant, PTL

-----------------------------------------------------------------------------
(* Only the announcement and the failure handler end a task. *)
LEMMA EndingStep ==
  ASSUME Typed, [Next]_vars, NEW j \in Jobs, task[j] # "ended", task'[j] = "ended"
  PROVE  PublishDone(j) \/ RecordFailure(j)
<1>1. \A k \in Jobs : Request(k) => task' = task \/ task' = [task EXCEPT ![k] = "scheduled"]
  BY DEF Request, Deduplicate, CreateHash, SetTtl, CountCached, DeduplicateError,
         CreateHashError, SetTtlError, CountCachedError, Refuse, Launch
<1>2. ASSUME NEW k \in Jobs, Process(k)
      PROVE  \/ PublishDone(k) \/ RecordFailure(k)
             \/ \E w \in TaskPlaces \ {"ended"} : task' = [task EXCEPT ![k] = w]
  <2>1. CASE Start(k) \/ PublishProgress(k)
    BY <2>1 DEF Start, PublishProgress, NextBatch, Goto, TaskPlaces, LivePlaces, Looping
  <2>2. CASE Begin(k) \/ BatchDone(k) \/ CountProgress(k) \/ Finish(k)
    BY <2>2
    DEF Begin, BatchDone, CountProgress, Finish, Goto, TaskPlaces, LivePlaces, Looping
  <2>3. CASE StartError(k) \/ CountProgressError(k) \/ PublishProgressError(k)
    BY <2>3
    DEF StartError, CountProgressError, PublishProgressError, ToHandler, Goto,
        TaskPlaces, LivePlaces
  <2>4. CASE FinishError(k) \/ PublishDoneError(k) \/ RecordFailureError(k)
    BY <2>4
    DEF FinishError, PublishDoneError, RecordFailureError, ToHandler, Goto, TaskPlaces,
        LivePlaces
  <2> QED
    BY <1>2, <2>1, <2>2, <2>3, <2>4 DEF Process
<1>3. StreamStep \/ PollStep \/ UNCHANGED vars => task' = task
  BY DEF StreamStep, OpenStream, StreamNotFound, Subscribe, CloseStream,
         StreamUnchanged, PollStep, GetState, GetStateError, GetResults,
         GetResultsError, PollUnchanged, vars
<1>4. \A k \in Jobs : ExpireHash(k) \/ ExpireResults(k) => task' = task
  BY DEF ExpireHash, ExpireResults
<1>5. ~Crash
  BY DEF Crash
<1>6. \/ \E k \in Jobs : Request(k) \/ Process(k) \/ ExpireHash(k) \/ ExpireResults(k)
      \/ StreamStep \/ PollStep \/ UNCHANGED vars
  BY <1>5 DEF Next, StreamStep, PollStep
<1>7. PICK k \in Jobs : Process(k)
  BY <1>1, <1>3, <1>4, <1>6 DEF Typed
<1>8. CASE k = j
  BY <1>2, <1>7, <1>8 DEF Typed
<1>9. CASE k # j
  <2>1. \E w \in TaskPlaces : task' = [task EXCEPT ![k] = w]
    BY <1>2, <1>7 DEF PublishDone, RecordFailure, Goto, TaskPlaces
  <2> QED
    BY <1>9, <2>1
<1> QED
  BY <1>8, <1>9

(* A task that ends leaves a verdict in Redis, or no key at all. *)
THEOREM EveryEndIsDecided == Spec => EndedIsDecided
<1>1. ASSUME IInv, [Next]_vars, NEW j \in Jobs, task[j] # "ended", task'[j] = "ended"
      PROVE  hash'[j].status \in {"done", "failed"} \/ ~hash'[j].exists
  <2>1. Known(j) /\ JobInv(j) /\ Typed
    BY <1>1, JobAtRest DEF IInv
  <2>2. CASE PublishDone(j)
    <3>1. hash' = hash /\ task[j] = "announcing"
      BY <2>2 DEF PublishDone
    <3>2. hash[j].status = "done" \/ hash[j] = NoHash
      BY <2>1, <3>1 DEF JobInv, Fits, KeysFollow
    <3> QED
      BY <3>1, <3>2, NoHashFields
  <2>3. CASE RecordFailure(j)
    <3>1. hash'[j] = HSetStatus(hash[j], "failed")
      BY <2>1, <2>3 DEF RecordFailure, Put, Typed
    <3>2. hash[j] \in HashType /\ "failed" \in Statuses
      BY <2>1 DEF Known, Statuses
    <3>3. HSetStatus(hash[j], "failed").status = "failed"
      BY <3>2, SetStatusFields
    <3> QED
      BY <3>1, <3>3
  <2> QED
    BY <1>1, <2>1, <2>2, <2>3, EndingStep
<1>2. IInv /\ [Next]_vars =>
        [\A j \in Jobs : task[j] # "ended" /\ task'[j] = "ended" =>
           hash'[j].status \in {"done", "failed"} \/ ~hash'[j].exists]_vars
  BY <1>1
<1> QED
  BY <1>2, Invariant, PTL DEF Spec, EndedIsDecided

-----------------------------------------------------------------------------
(* What pollers were told.  A verdict is not taken back: a job that was     *)
(* done, and one that has failed, even if its hash is gone.                *)
WasDone(j) ==
  /\ task[j] \in {"announcing", "failing", "ended", "abandoned", "lost"}
  /\ hash[j].status \in {"done", "failed"} \/ ~hash[j].exists
HasFailed(j) ==
  /\ task[j] \in {"ended", "abandoned"}
  /\ hash[j].status = "failed" \/ ~hash[j].exists

(* No step takes a verdict back. *)
LEMMA VerdictsStay ==
  ASSUME IInv, [Next]_vars, NEW j \in Jobs
  PROVE  (WasDone(j) => WasDone(j)') /\ (HasFailed(j) => HasFailed(j)')
<1>0. Known(j) /\ JobInv(j) /\ Typed
  BY JobAtRest DEF IInv
<1>1. CASE StreamStep \/ PollStep \/ UNCHANGED vars
  <2>1. UNCHANGED <<hash, task>>
    BY <1>1, StreamStepKeeps, PollStepKeeps DEF vars
  <2> QED
    BY <2>1 DEF WasDone, HasFailed
<1>2. CASE Crash
  <2>1. hash' = hash
    BY <1>2 DEF Crash
  <2>2. /\ task[j] \in {"ended", "abandoned"} => task'[j] = task[j]
        /\ task[j] \in {"announcing", "failing", "lost"} => task'[j] = "lost"
    BY <1>0, <1>2 DEF Crash, Running
  <2> QED
    BY <2>1, <2>2 DEF WasDone, HasFailed
<1>3. CASE \E k \in Jobs \ {j} : GoodStep(k)
  <2>1. hash'[j] = hash[j] /\ task'[j] = task[j]
    BY <1>3 DEF GoodStep, Becomes
  <2> QED
    BY <2>1 DEF WasDone, HasFailed
<1>4. CASE Request(j)
  <2>1. req[j] # "accepted"
    BY <1>4
    DEF Request, Deduplicate, CreateHash, SetTtl, CountCached, DeduplicateError,
        CreateHashError, SetTtlError, CountCachedError
  <2>2. task[j] = "none"
    BY <1>0, <2>1 DEF JobInv, Fits, LocalsAddUp
  <2> QED
    BY <2>2 DEF WasDone, HasFailed
<1>5. CASE Process(j)
  <2>1. CASE PublishDone(j) \/ PublishDoneError(j)
    <3>1. hash' = hash /\ task[j] = "announcing" /\ task'[j] \in {"ended", "failing"}
      BY <1>0, <2>1 DEF PublishDone, PublishDoneError, ToHandler, Goto, Typed
    <3> QED
      BY <3>1 DEF WasDone, HasFailed
  <2>2. CASE RecordFailure(j) \/ RecordFailureError(j)
    <3>1. /\ task[j] = "failing" /\ task'[j] \in {"ended", "abandoned"}
          /\ hash'[j] \in {hash[j], HSetStatus(hash[j], "failed")}
      BY <1>0, <2>2 DEF RecordFailure, RecordFailureError, Put, MayPut, Goto, Typed
    <3>2. HSetStatus(hash[j], "failed").status = "failed"
      BY <1>0, SetStatusFields DEF Known, Statuses
    <3> QED
      BY <3>1, <3>2 DEF WasDone, HasFailed
  <2>3. CASE task[j] \notin {"announcing", "failing"}
    <3>1. task[j] \notin {"ended", "abandoned", "lost"}
      BY <1>5
      DEF Process, Begin, Start, BatchDone, CountProgress, PublishProgress, Finish,
          PublishDone, RecordFailure, StartError, CountProgressError,
          PublishProgressError, FinishError, PublishDoneError, RecordFailureError
    <3> QED
      BY <2>3, <3>1 DEF WasDone, HasFailed
  <2> QED
    BY <1>5, <2>1, <2>2, <2>3
    DEF Process, Begin, Start, BatchDone, CountProgress, PublishProgress, Finish,
        StartError, CountProgressError, PublishProgressError, FinishError
<1>6. CASE ExpireHash(j) \/ ExpireResults(j)
  <2>1. task' = task /\ (hash'[j] = hash[j] \/ hash'[j] = NoHash)
    BY <1>0, <1>6 DEF ExpireHash, ExpireResults, Put, Typed
  <2> QED
    BY <2>1, NoHashFields DEF WasDone, HasFailed
<1>7. ASSUME NEW k \in Jobs \ {j},
             Request(k) \/ Process(k) \/ ExpireHash(k) \/ ExpireResults(k)
      PROVE  GoodStep(k)
  BY <1>7, RequestIsGood, ProcessIsGood, ExpiryIsGood
<1> QED
  BY <1>1, <1>2, <1>3, <1>4, <1>5, <1>6, <1>7 DEF Next, StreamStep, PollStep

(* What a poller was told of its job's verdict still holds. *)
Remembers(p) ==
  /\ poll[p].at \in {"reading", "done", "no_results"} => WasDone(poll[p].job)
  /\ poll[p].at = "failed" => HasFailed(poll[p].job)

(* A poller is told of a verdict only when there is one. *)
LEMMA AnswerIsRemembered ==
  ASSUME IInv, NEW j \in Jobs
  PROVE  /\ Answer(hash[j]) \in {"reading", "not_found", "progress", "failed"}
         /\ Answer(hash[j]) = "reading" => WasDone(j)
         /\ Answer(hash[j]) = "failed" => HasFailed(j)
         /\ WasDone(j) => Answer(hash[j]) # "progress"
         /\ HasFailed(j) => Answer(hash[j]) \in {"failed", "not_found"}
<1>1. JobInv(j)
  BY DEF IInv
<1>2. /\ hash[j].status = "done" =>
           task[j] \in {"announcing", "failing", "ended", "abandoned", "lost"}
      /\ hash[j].status = "failed" => task[j] \in {"ended", "abandoned"}
  BY <1>1 DEF JobInv, Fits, KeysFollow
<1>3. CASE ~hash[j].exists
  <2>1. Answer(hash[j]) = "not_found"
    BY <1>3 DEF Answer
  <2> QED
    BY <2>1
<1>4. CASE hash[j].exists /\ hash[j].status = "done"
  <2>1. Answer(hash[j]) = "reading"
    BY <1>4 DEF Answer
  <2> QED
    BY <1>2, <1>4, <2>1 DEF WasDone, HasFailed
<1>5. CASE hash[j].exists /\ hash[j].status = "failed"
  <2>1. Answer(hash[j]) = "failed"
    BY <1>5 DEF Answer
  <2> QED
    BY <1>2, <1>5, <2>1 DEF WasDone, HasFailed
<1>6. CASE hash[j].exists /\ hash[j].status \notin {"done", "failed"}
  <2>1. Answer(hash[j]) = "progress"
    BY <1>6 DEF Answer
  <2> QED
    BY <1>6, <2>1 DEF WasDone, HasFailed
<1> QED
  BY <1>3, <1>4, <1>5, <1>6

(* Pollers remember from one step to the next. *)
LEMMA RememberedStep ==
  ASSUME IInv, [Next]_vars, \A p \in Pollers : Remembers(p)
  PROVE  \A p \in Pollers : Remembers(p)'
<1> SUFFICES ASSUME NEW p \in Pollers PROVE Remembers(p)'
  OBVIOUS
<1>1. poll \in [Pollers -> PollType] /\ poll[p].job \in Jobs
  BY DEF IInv, Typed, PollType
<1>2. CASE poll'[p] = poll[p]
  BY <1>1, <1>2, VerdictsStay DEF Remembers
<1>3. CASE poll'[p].at = "closed"
  BY <1>3 DEF Remembers
<1>4. ASSUME PollStep, poll'[p] # poll[p]
      PROVE  Remembers(p)'
  <2>1. UNCHANGED <<hash, task>>
    BY <1>4, PollStepKeeps
  <2>2. ASSUME NEW q \in Pollers, NEW j \in Jobs, GetState(q, j) \/ GetStateError(q, j)
        PROVE  Remembers(p)'
    <3>1. PICK a : Tell(q, a, j) /\ (a = Answer(hash[j]) \/ a = "redis_error")
      BY <2>2 DEF GetState, GetStateError
    <3>2. p = q /\ poll'[p].at = a /\ poll'[p].job = j
      BY <1>4, <3>1, Told
    <3> QED
      BY <2>1, <3>1, <3>2, AnswerIsRemembered DEF Remembers, WasDone, HasFailed
  <2>3. ASSUME NEW q \in Pollers, GetResults(q) \/ GetResultsError(q)
        PROVE  Remembers(p)'
    <3>1. poll[q].job \in Jobs /\ poll[q].at = "reading"
      BY <2>3 DEF GetResults, GetResultsError, IInv, Typed, PollType
    <3>2. PICK a \in {"done", "no_results", "redis_error"} : Tell(q, a, poll[q].job)
      BY <2>3 DEF GetResults, GetResultsError
    <3>3. p = q /\ poll'[p].at = a /\ poll'[p].job = poll[p].job
      BY <1>4, <3>1, <3>2, Told
    <3> QED
      BY <2>1, <3>1, <3>3 DEF Remembers, WasDone, HasFailed
  <2> QED
    BY <1>4, <2>2, <2>3 DEF PollStep
<1>5. CASE Crash
  <2>1. poll'[p] = poll[p] \/ poll'[p].at = "closed"
    BY <1>1, <1>5 DEF Crash, PollType
  <2> QED
    BY <1>2, <1>3, <2>1
<1>6. StreamStep \/ UNCHANGED vars \/ (\E j \in Jobs : GoodStep(j)) => poll' = poll
  BY StreamStepKeeps DEF vars, GoodStep, Becomes
<1> QED
  BY <1>2, <1>4, <1>5, <1>6, EveryStep

(* What a poller is told next is not behind what it was told last. *)
THEOREM AnswersDoMoveOn == Spec => AnswersMoveOn
<1> DEFINE Memory == \A p \in Pollers : Remembers(p)
           OnwardStep ==
             \A p \in Pollers : poll'[p].job = poll[p].job =>
               /\ poll[p].at \in {"reading", "done", "no_results"} => poll'[p].at # "progress"
               /\ poll[p].at = "failed" =>
                    poll'[p].at \in {"failed", "not_found", "redis_error"}
<1>1. Init => Memory
  BY DEF Init, Remembers
<1>2. IInv /\ Memory /\ [Next]_vars => Memory'
  BY RememberedStep
<1>3. ASSUME IInv, Memory, [Next]_vars PROVE OnwardStep
  <2> SUFFICES ASSUME NEW p \in Pollers, poll'[p].job = poll[p].job
               PROVE  /\ poll[p].at \in {"reading", "done", "no_results"} =>
                           poll'[p].at # "progress"
                      /\ poll[p].at = "failed" =>
                           poll'[p].at \in {"failed", "not_found", "redis_error"}
    OBVIOUS
  <2>1. Remembers(p) /\ poll[p] \in PollType /\ poll \in [Pollers -> PollType]
    BY <1>3 DEF IInv, Typed
  <2>2. CASE poll'[p] = poll[p]
    BY <2>2
  <2>3. CASE Crash
    BY <2>1, <2>3 DEF Crash, PollType
  <2>4. CASE PollStep /\ poll'[p] # poll[p]
    <3>1. CASE \E q \in Pollers, j \in Jobs : GetState(q, j) \/ GetStateError(q, j)
      <4>1. PICK q \in Pollers, j \in Jobs :
              \E a : Tell(q, a, j) /\ (a = Answer(hash[j]) \/ a = "redis_error")
        BY <3>1 DEF GetState, GetStateError
      <4>2. PICK a : Tell(q, a, j) /\ (a = Answer(hash[j]) \/ a = "redis_error")
        BY <4>1
      <4>3. p = q /\ poll'[p].at = a /\ poll'[p].job = j
        BY <1>3, <2>4, <4>2, Told
      <4> QED
        BY <1>3, <2>1, <4>2, <4>3, AnswerIsRemembered DEF Remembers
    <3>2. CASE \E q \in Pollers : GetResults(q) \/ GetResultsError(q)
      <4>1. PICK q \in Pollers : GetResults(q) \/ GetResultsError(q)
        BY <3>2
      <4>2. poll[q].job \in Jobs /\ poll[q].at = "reading"
        BY <1>3, <4>1 DEF GetResults, GetResultsError, IInv, Typed, PollType
      <4>3. PICK a \in {"done", "no_results", "redis_error"} : Tell(q, a, poll[q].job)
        BY <4>1 DEF GetResults, GetResultsError
      <4>4. p = q /\ poll'[p].at = a
        BY <1>3, <2>4, <4>2, <4>3, Told
      <4> QED
        BY <4>2, <4>4
    <3> QED
      BY <2>4, <3>1, <3>2 DEF PollStep
  <2>5. StreamStep \/ UNCHANGED vars \/ (\E j \in Jobs : GoodStep(j)) => poll' = poll
    BY <1>3, StreamStepKeeps DEF vars, GoodStep, Becomes
  <2> QED
    BY <1>3, <2>2, <2>3, <2>4, <2>5, EveryStep
<1>4. IInv /\ Memory /\ [Next]_vars => [OnwardStep]_vars
  BY <1>3
<1> HIDE DEF Memory
<1> QED
  BY <1>1, <1>2, <1>4, Invariant, PTL DEF Spec, AnswersMoveOn

-----------------------------------------------------------------------------
(* The contract of JobLifecycle.  What its state is for a hash.            *)
Seen(h) == [status |-> h.status, total |-> h.total, accounted |-> Accounted(h)]
SeenState == [j \in Jobs |-> Seen(hash[j])]
SeenKept == [j \in Jobs |-> stored[j].exists]

(* A good step of one job is a step of the contract, or none. *)
LEMMA GoodStepRefines ==
  ASSUME IInv, NEW j \in Jobs, GoodStep(j)
  PROVE  Lifecycle!Next \/ UNCHANGED Lifecycle!vars
<1>1. PICK h, s, r, t, b :
         /\ Becomes(j, h, s, r, t, b) /\ Contract(hash[j], stored[j], h, s)
  BY DEF GoodStep
<1>2. Numbers(hash[j], job[j]) /\ Typed
  BY JobAtRest DEF IInv
<1> DEFINE x == Seen(hash[j])
           y == Seen(h)
<1>3. /\ SeenState' = [SeenState EXCEPT ![j] = y] /\ SeenState[j] = x
      /\ SeenKept' = [SeenKept EXCEPT ![j] = s.exists] /\ SeenKept[j] = stored[j].exists
  BY <1>1, <1>2 DEF Becomes, Typed, SeenState, SeenKept
<1>4. /\ x.status = hash[j].status /\ x.total = hash[j].total
      /\ x.accounted = Accounted(hash[j])
      /\ y = [status |-> h.status, total |-> h.total, accounted |-> Accounted(h)]
      /\ x = [status |-> hash[j].status, total |-> hash[j].total,
              accounted |-> Accounted(hash[j])]
  BY DEF Seen
<1>5. s.exists = stored[j].exists => SeenKept' = SeenKept
  BY <1>3 DEF SeenKept
<1>6. y = x => SeenState' = SeenState
  BY <1>3 DEF SeenState
<1> HIDE DEF x, y
<1>7. CASE Stutters(hash[j], stored[j], h, s)
  <2>1. y = x
    BY <1>4, <1>7 DEF Stutters, SameState
  <2>2. UNCHANGED <<SeenState, SeenKept>>
    BY <1>5, <1>6, <1>7, <2>1 DEF Stutters
  <2> QED
    BY <2>2 DEF Lifecycle!vars, SeenState, SeenKept, Seen, Accounted
<1>8. CASE Accepts(hash[j], stored[j], h, s)
  <2>1. x = Lifecycle!Unknown
    BY <1>4, <1>8 DEF Accepts, NoState, Lifecycle!Unknown
  <2>2. PICK n \in 1 .. MaxTickets : y = [status |-> "pending", total |-> n, accounted |-> 0]
    BY <1>4, <1>8 DEF Accepts
  <2>3. UNCHANGED SeenKept
    BY <1>5, <1>8 DEF Accepts
  <2>4. Lifecycle!Accept(j)
    BY <1>3, <2>1, <2>2, <2>3
    DEF Lifecycle!Accept, Lifecycle!Become, SeenState, SeenKept, Seen, Accounted
  <2> QED
    BY <2>4 DEF Lifecycle!Next
<1>9. CASE Accounts(hash[j], stored[j], h, s)
  <2>1. /\ x.status \notin {"done", "failed"}
        /\ Accounted(h) \in x.accounted .. MaxTickets
        /\ x.total > 0 => Accounted(h) <= x.total
    BY <1>4, <1>9 DEF Accounts
  <2>2. y = [x EXCEPT !.accounted = Accounted(h)]
    BY <1>4, <1>9 DEF Accounts
  <2>3. UNCHANGED SeenKept
    BY <1>5, <1>9 DEF Accounts
  <2>4. Lifecycle!Account(j)
    BY <1>3, <2>1, <2>2, <2>3
    DEF Lifecycle!Account, Lifecycle!Become, SeenState, SeenKept, Seen, Accounted
  <2> QED
    BY <2>4 DEF Lifecycle!Next
<1>10. CASE Proceeds(hash[j], stored[j], h, s)
  <2>1. h.total = hash[j].total /\ Accounted(h) = Accounted(hash[j])
    BY <1>10 DEF Proceeds
  <2>2. y = [x EXCEPT !.status = h.status]
    BY <1>4, <2>1
  <2>3. CASE /\ hash[j].status \in {"", "pending"} /\ h.status = "processing"
             /\ s.exists = stored[j].exists
    <3>1. Lifecycle!Start(j)
      BY <1>3, <2>2, <2>3
      DEF Lifecycle!Start, Lifecycle!Become, SeenState, SeenKept, Seen, Accounted
    <3> QED
      BY <3>1 DEF Lifecycle!Next
  <2>4. CASE /\ hash[j].status \in {"", "processing"} /\ h.status = "done" /\ s.exists
             /\ hash[j].total > 0 => Accounted(hash[j]) = hash[j].total
    <3>1. Lifecycle!Complete(j)
      BY <1>3, <2>2, <2>4
      DEF Lifecycle!Complete, Lifecycle!Become, SeenState, SeenKept, Seen, Accounted
    <3> QED
      BY <3>1 DEF Lifecycle!Next
  <2>5. CASE /\ hash[j].status \in {"", "processing", "done"} /\ h.status = "failed"
             /\ s.exists = stored[j].exists
    <3>1. Lifecycle!Fail(j)
      BY <1>3, <2>2, <2>5
      DEF Lifecycle!Fail, Lifecycle!Become, SeenState, SeenKept, Seen, Accounted
    <3> QED
      BY <3>1 DEF Lifecycle!Next
  <2> QED
    BY <1>10, <2>3, <2>4, <2>5 DEF Proceeds
<1>11. CASE IsForgotten(hash[j], stored[j], h, s)
  <2>1. y = Lifecycle!Unknown
    BY <1>4, <1>11 DEF IsForgotten, NoState, Lifecycle!Unknown
  <2>2. UNCHANGED SeenKept
    BY <1>5, <1>11 DEF IsForgotten
  <2>3. Lifecycle!Forget(j)
    BY <1>3, <2>1, <2>2
    DEF Lifecycle!Forget, Lifecycle!Become, SeenState, SeenKept, Seen, Accounted
  <2> QED
    BY <2>3 DEF Lifecycle!Next
<1>12. CASE DropsResults(hash[j], stored[j], h, s)
  <2>1. y = x /\ x.total = 0
    BY <1>4, <1>12 DEF DropsResults, SameState
  <2>2. SeenKept' = [SeenKept EXCEPT ![j] = FALSE]
    BY <1>1, <1>3, <1>12 DEF Becomes, DropsResults
  <2>3. Lifecycle!DropResults(j)
    BY <1>3, <2>1, <2>2 DEF Lifecycle!DropResults, SeenState, SeenKept, Seen, Accounted
  <2> QED
    BY <2>3 DEF Lifecycle!Next
<1> QED
  BY <1>1, <1>7, <1>8, <1>9, <1>10, <1>11, <1>12 DEF Contract

(* A job starts unknown and without results. *)
LEMMA InitRefines == Init => Lifecycle!Init
<1> SUFFICES ASSUME Init PROVE Lifecycle!Init
  OBVIOUS
<1>1. \A j \in Jobs : hash[j] = NoHash /\ stored[j] = NoResults
  BY DEF Init
<1>2. NoHash.status = "" /\ NoHash.total = 0 /\ NoHash.completed + NoHash.failed = 0
  BY DEF NoHash
<1>3. NoResults.exists = FALSE
  BY DEF NoResults
<1> QED
  BY <1>1, <1>2, <1>3 DEF Lifecycle!Init, Lifecycle!Unknown

(* The jobs implement the contract of JobLifecycle, whichever commands     *)
(* fail, are lost on the way back, or find their key gone, and whenever    *)
(* the worker crashes.                                                     *)
THEOREM JobsImplementLifecycle == Spec => ImplementsLifecycle
<1>1. IInv /\ [Next]_vars => [Lifecycle!Next]_(Lifecycle!vars)
  <2> SUFFICES ASSUME IInv, [Next]_vars
               PROVE  Lifecycle!Next \/ UNCHANGED Lifecycle!vars
    OBVIOUS
  <2>1. CASE StreamStep \/ PollStep \/ Crash \/ UNCHANGED vars
    <3>1. UNCHANGED <<hash, stored>>
      BY <2>1, StreamStepKeeps, PollStepKeeps, CrashKeeps DEF vars
    <3> QED
      BY <3>1 DEF Lifecycle!vars
  <2> QED
    BY <2>1, EveryStep, GoodStepRefines
<1> QED
  BY <1>1, InitRefines, Invariant, PTL DEF Spec, ImplementsLifecycle, Lifecycle!Spec

=============================================================================
