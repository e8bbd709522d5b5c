--------------------------- MODULE EnrichPipeline ---------------------------
(***************************************************************************)
(* The ai.enrich pipeline: ingest sweeps and the digest endpoint publish   *)
(* enrichment jobs, RabbitMQ hands them to the enrichment worker, and the  *)
(* worker writes the card text of a CVE.  Postgres holds the inflight      *)
(* claims, the idempotency keys and the enrichment rows; Redis holds the   *)
(* finished texts.                                                         *)
(*                                                                         *)
(* One action is one stretch of code between two awaits, so that the       *)
(* publishers and the prefetched handlers interleave as the event loops    *)
(* and the broker let them.                                                *)
(***************************************************************************)
EXTENDS Integers, FiniteSets

CONSTANTS
  Cve,          \* vulnerabilities
  Job,          \* identities of messages in the broker, reused once freed
  Producer,     \* concurrent publisher activities (timers, requests)
  Sweeps,       \* the publishers the configuration switches on
  Faults,       \* the failures that may happen
  TextEngine,   \* "llm" or "translate": the engines worth queueing for
  NoKey,        \* "nothing", where a work key is expected
  HoursPerDay,  \* hour buckets in a day bucket (24 in the code)
  MaxPrefetch,  \* AI_ENRICH_PREFETCH
  MaxRetries,   \* AI_ENRICH_MAX_RETRIES
  MaxHour,      \* bound: hours that pass
  MaxFaults,    \* bound: failures in a behaviour
  MaxReplays,   \* bound: dead letters replayed in a behaviour
  MaxExtra      \* bound: unclaimed jobs and lapsed claims per CVE

Kinds == {"hot24h", "backlog", "fanout", "digest"}
FaultKinds == {"workerCrash", "producerAbort", "transient", "fatal", "stub",
               "keyDeleteFails", "releaseFails"}

(* A work key: the idempotencyKey of a message.  `gen` stands for the uuid *)
(* that a dead-letter replay appends (0: never replayed), `retry` for the  *)
(* trailing :retry:n.                                                      *)
Key == [cve : Cve, kind : Kinds, bucket : 0..MaxHour,
        gen : 0..MaxReplays, retry : 0..MaxRetries]

ASSUME FiniteAssumption == IsFiniteSet(Job) /\ IsFiniteSet(Producer)
ASSUME SwitchAssumption == /\ Sweeps \subseteq Kinds
                           /\ Faults \subseteq FaultKinds
                           /\ TextEngine \in {"llm", "translate"}
                           /\ NoKey \notin Key
ASSUME BoundAssumption == /\ HoursPerDay \in Nat \ {0}
                          /\ MaxPrefetch \in Nat \ {0}
                          /\ {MaxRetries, MaxHour, MaxFaults, MaxReplays, MaxExtra}
                                \subseteq Nat

VARIABLES
  hour,     \* hours since the start
  hot,      \* CVEs published within the last 24 hours
  claim,    \* CVEs with an unexpired enrich:inflight row
  keys,     \* work keys in idempotency_key
  latest,   \* the newest enrichment_ai row of a CVE: "none", "stub", "mature"
  mature,   \* CVEs with some mature enrichment_ai row
  cached,   \* CVEs whose finished text is in Redis
  todo,     \* what a publisher still has to go through
  pend,     \* the key a publisher has claimed and not published yet
  place,    \* where a message is: "free", "ready", "unacked", "dlq"
  key,      \* the work key a message carries
  pc,       \* where the handler of an unacked message stands
  own,      \* idempotencyInserted: the handler inserted its work key
  owing,    \* handlers past their ack or nack that still run `finally`
  replays,  \* dead letters replayed so far
  faults,   \* failures so far
  extra     \* history: jobs that no claim accounts for, and lapsed claims

dbVars == <<claim, keys, latest, mature, cached>>
producerVars == <<todo, pend>>
messageVars == <<place, key, pc, own>>
clockVars == <<hour, hot>>
vars == <<hour, hot, claim, keys, latest, mature, cached, todo, pend,
          place, key, pc, own, owing, replays, faults, extra>>

-----------------------------------------------------------------------------
(* Keys and messages. *)

Day == hour \div HoursPerDay

SweepBucket(kind) == IF kind = "hot24h" THEN hour ELSE Day

SweepKey(kind, c, b) ==
  [cve |-> c, kind |-> kind, bucket |-> b, gen |-> 0, retry |-> 0]

RetryKey(k) == [k EXCEPT !.retry = @ + 1]

ReplayKey(k, n) == [k EXCEPT !.gen = n, !.retry = 0]

(* publish() passes no priority for a retry. *)
Priority(k) == IF k.retry > 0 THEN 0
               ELSE IF k.gen = 0 /\ k.kind = "backlog" THEN 6 ELSE 9

AppliesPublishedWindow(k) == k.gen = 0 /\ k.kind \notin {"backlog", "digest"}

Free(j) == place[j] = "free"
Unacked == {j \in Job : place[j] = "unacked"}
At(j, step) == place[j] = "unacked" /\ pc[j] = step

(* The broker takes message j with key k. *)
Send(j, k) == /\ Free(j)
              /\ place' = [place EXCEPT ![j] = "ready"]
              /\ key' = [key EXCEPT ![j] = k]

(* The broker forgets message j (an ack). *)
Drop(j) == /\ place' = [place EXCEPT ![j] = "free"]
           /\ key' = [key EXCEPT ![j] = NoKey]
           /\ pc' = [pc EXCEPT ![j] = "idle"]
           /\ own' = [own EXCEPT ![j] = FALSE]

Owe(c) == owing' = [owing EXCEPT ![c] = @ + 1]

(* ack, after which `finally` will release the claim. *)
AckThenRelease(j) == Drop(j) /\ Owe(key[j].cve)

Step(j, step) == pc' = [pc EXCEPT ![j] = step]

Fault(f) == /\ f \in Faults
            /\ faults < MaxFaults
            /\ faults' = faults + 1

Extra(c) == /\ extra[c] < MaxExtra
            /\ extra' = [extra EXCEPT ![c] = @ + 1]

(* Messages of c that still have to be worked on. *)
Live(c) == {j \in Job : /\ place[j] \in {"ready", "unacked"}
                        /\ key[j].cve = c
                        /\ pc[j] # "handoff"}

Publishing(c) == {p \in Producer : pend[p] # NoKey /\ pend[p].cve = c}

Outstanding(c) == Cardinality(Live(c)) + Cardinality(Publishing(c)) + owing[c]

-----------------------------------------------------------------------------
Init == /\ hour = 0
        /\ hot \in SUBSET Cve
        /\ claim = {} /\ keys = {}
        /\ latest = [c \in Cve |-> "none"]
        /\ mature = {} /\ cached = {}
        /\ todo = [p \in Producer |-> {}]
        /\ pend = [p \in Producer |-> NoKey]
        /\ place = [j \in Job |-> "free"]
        /\ key = [j \in Job |-> NoKey]
        /\ pc = [j \in Job |-> "idle"]
        /\ own = [j \in Job |-> FALSE]
        /\ owing = [c \in Cve |-> 0]
        /\ replays = 0 /\ faults = 0
        /\ extra = [c \in Cve |-> 0]

-----------------------------------------------------------------------------
(* Publishers. *)

Idle(p) == todo[p] = {} /\ pend[p] = NoKey

(* The WHERE clause of a sweep: in its age range, not tried in this bucket, *)
(* not inflight, and the newest row is no finished text.                    *)
Eligible(kind, c) == /\ (c \in hot) <=> (kind = "hot24h")
                     /\ SweepKey(kind, c, SweepBucket(kind)) \notin keys
                     /\ c \notin claim
                     /\ latest[c] # "mature"

SweepSelect(p, kind) ==
  /\ Idle(p)
  /\ kind \in Sweeps \cap {"hot24h", "backlog"}
  /\ \E c \in Cve : Eligible(kind, c)
  /\ todo' = [todo EXCEPT ![p] =
                {SweepKey(kind, c, SweepBucket(kind)) : c \in {d \in Cve : Eligible(kind, d)}}]
  /\ UNCHANGED <<dbVars, pend, messageVars, clockVars, owing, replays, faults, extra>>

(* upsertCveAndFanout of a hot CVE; m is the hour of its modifiedAt. *)
FanoutSelect(p, c, m) ==
  /\ Idle(p)
  /\ "fanout" \in Sweeps
  /\ c \in hot
  /\ m <= hour
  /\ todo' = [todo EXCEPT ![p] = {SweepKey("fanout", c, m)}]
  /\ UNCHANGED <<dbVars, pend, messageVars, clockVars, owing, replays, faults, extra>>

(* threatDigestPrepare queues for the llm engine only. *)
DigestSelect(p) ==
  /\ Idle(p)
  /\ "digest" \in Sweeps /\ TextEngine = "llm"
  /\ Cve \ mature # {}
  /\ todo' = [todo EXCEPT ![p] = {SweepKey("digest", c, Day) : c \in Cve \ mature}]
  /\ UNCHANGED <<dbVars, pend, messageVars, clockVars, owing, replays, faults, extra>>

(* claimEnrichInflight: one INSERT ... ON CONFLICT that succeeds when there *)
(* is no unexpired row.                                                     *)
ClaimInflight(c) == c \notin claim /\ claim' = claim \cup {c}

ClaimItem(p, k) ==
  /\ pend[p] = NoKey /\ k \in todo[p] /\ k.kind # "digest"
  /\ \/ ClaimInflight(k.cve) /\ pend' = [pend EXCEPT ![p] = k]
     \/ k.cve \in claim /\ UNCHANGED <<claim, pend>>
  /\ todo' = [todo EXCEPT ![p] = @ \ {k}]
  /\ UNCHANGED <<keys, latest, mature, cached, messageVars, clockVars,
                 owing, replays, faults, extra>>

(* canPublishEnrich says no (its depth may be five seconds old): the rest  *)
(* of the batch is left for the next sweep.                                *)
Backpressure(p) ==
  /\ pend[p] = NoKey
  /\ \E k \in todo[p] : k.kind # "digest"
  /\ todo' = [todo EXCEPT ![p] = {}]
  /\ UNCHANGED <<dbVars, pend, messageVars, clockVars, owing, replays, faults, extra>>

PublishItem(p, j) ==
  /\ pend[p] # NoKey
  /\ Send(j, pend[p])
  /\ pend' = [pend EXCEPT ![p] = NoKey]
  /\ UNCHANGED <<dbVars, todo, pc, own, clockVars, owing, replays, faults, extra>>

(* The digest endpoint publishes without a claim. *)
PublishDigest(p, k, j) ==
  /\ k \in todo[p] /\ k.kind = "digest"
  /\ Send(j, k)
  /\ Extra(k.cve)
  /\ todo' = [todo EXCEPT ![p] = @ \ {k}]
  /\ UNCHANGED <<dbVars, pend, pc, own, clockVars, owing, replays, faults>>

(* The publisher's process restarts, or an await of its loop throws. *)
ProducerAbort(p) ==
  /\ ~Idle(p)
  /\ Fault("producerAbort")
  /\ todo' = [todo EXCEPT ![p] = {}]
  /\ pend' = [pend EXCEPT ![p] = NoKey]
  /\ UNCHANGED <<dbVars, messageVars, clockVars, owing, replays, extra>>

-----------------------------------------------------------------------------
(* The worker's handler of one message. *)

Deliver(j) ==
  /\ place[j] = "ready"
  /\ Cardinality(Unacked) < MaxPrefetch
  /\ \A i \in Job : place[i] = "ready" => Priority(key[i]) <= Priority(key[j])
  /\ place' = [place EXCEPT ![j] = "unacked"]
  /\ Step(j, "window")
  /\ UNCHANGED <<dbVars, producerVars, key, own, clockVars, owing, replays, faults, extra>>

CheckWindow(j) ==
  /\ At(j, "window")
  /\ IF AppliesPublishedWindow(key[j]) /\ key[j].cve \notin hot
     THEN AckThenRelease(j)
     ELSE Step(j, "mature") /\ UNCHANGED <<place, key, own, owing>>
  /\ UNCHANGED <<dbVars, producerVars, clockVars, replays, faults, extra>>

CheckMature(j) ==
  /\ At(j, "mature")
  /\ IF key[j].cve \in mature
     THEN AckThenRelease(j)
     ELSE Step(j, "insert") /\ UNCHANGED <<place, key, own, owing>>
  /\ UNCHANGED <<dbVars, producerVars, clockVars, replays, faults, extra>>

(* Deviation: the handler goes on with a key that is already there. *)
InsertKeyUnchecked(j) ==
  /\ At(j, "insert")
  /\ keys' = keys \cup {key[j]}
  /\ own' = [own EXCEPT ![j] = TRUE]
  /\ Step(j, "cache")
  /\ UNCHANGED <<place, key, claim, latest, mature, cached, producerVars,
                 clockVars, owing, replays, faults, extra>>

(* INSERT ... ON CONFLICT DO NOTHING: a known key is acked and its claim is *)
(* kept.                                                                    *)
InsertKey(j) ==
  /\ At(j, "insert")
  /\ \/ /\ key[j] \in keys
        /\ Drop(j)
        /\ UNCHANGED keys
     \/ /\ key[j] \notin keys
        /\ keys' = keys \cup {key[j]}
        /\ own' = [own EXCEPT ![j] = TRUE]
        /\ Step(j, "cache")
        /\ UNCHANGED <<place, key>>
  /\ UNCHANGED <<claim, latest, mature, cached, producerVars, clockVars,
                 owing, replays, faults, extra>>

CheckCache(j) ==
  /\ At(j, "cache")
  /\ IF key[j].cve \in cached
     THEN AckThenRelease(j)
     ELSE Step(j, "generate") /\ UNCHANGED <<place, key, own, owing>>
  /\ UNCHANGED <<dbVars, producerVars, clockVars, replays, faults, extra>>

PersistMature(c) == /\ mature' = mature \cup {c}
                    /\ latest' = [latest EXCEPT ![c] = "mature"]

(* llm: the answer is stored and then cached.  translate: a baseline text  *)
(* is stored at once, and the translation follows.                         *)
Generate(j) ==
  /\ At(j, "generate")
  /\ PersistMature(key[j].cve)
  /\ Step(j, IF TextEngine = "llm" THEN "remember" ELSE "upgrade")
  /\ UNCHANGED <<claim, keys, cached, producerVars, place, key, own, clockVars,
                 owing, replays, faults, extra>>

(* llm: an error or not-configured row is stored, and never cached. *)
GenerateStub(j) ==
  /\ At(j, "generate") /\ TextEngine = "llm"
  /\ Fault("stub")
  /\ latest' = [latest EXCEPT ![key[j].cve] = "stub"]
  /\ Step(j, "ack")
  /\ UNCHANGED <<claim, keys, mature, cached, producerVars, place, key, own,
                 clockVars, owing, replays, extra>>

(* A translation is cached; a text that stayed baseline is not. *)
Upgrade(j) ==
  /\ At(j, "upgrade")
  /\ PersistMature(key[j].cve)
  /\ \E step \in {"remember", "ack"} : Step(j, step)
  /\ UNCHANGED <<claim, keys, cached, producerVars, place, key, own, clockVars,
                 owing, replays, faults, extra>>

Remember(j) ==
  /\ At(j, "remember")
  /\ cached' = cached \cup {key[j].cve}
  /\ Step(j, "ack")
  /\ UNCHANGED <<claim, keys, latest, mature, producerVars, place, key, own,
                 clockVars, owing, replays, faults, extra>>

Ack(j) ==
  /\ At(j, "ack")
  /\ AckThenRelease(j)
  /\ UNCHANGED <<dbVars, producerVars, clockVars, replays, faults, extra>>

(* An await of the handler throws; f says whether the error text looks     *)
(* like a transport error.                                                 *)
Throw(j, f) ==
  /\ f \in {"transient", "fatal"}
  /\ place[j] = "unacked"
  /\ pc[j] \in {"window", "mature", "insert", "cache", "generate", "upgrade", "remember"}
  /\ Fault(f)
  /\ Step(j, f)
  /\ UNCHANGED <<dbVars, producerVars, place, key, own, clockVars, owing, replays, extra>>

(* The catch block: give the work key back, then retry or reject. *)
CatchBlock(j, retries, returned) ==
  /\ place[j] = "unacked" /\ pc[j] \in {"transient", "fatal"}
  /\ \/ /\ keys' = IF own[j] THEN keys \ returned ELSE keys
        /\ UNCHANGED faults
     \/ /\ own[j] /\ Fault("keyDeleteFails")
        /\ UNCHANGED keys
  /\ own' = [own EXCEPT ![j] = FALSE]
  /\ Step(j, IF pc[j] = "transient" /\ key[j].retry < retries
             THEN "backoff" ELSE "reject")
  /\ UNCHANGED <<claim, latest, mature, cached, producerVars, place, key,
                 clockVars, owing, replays, extra>>

(* Deviations: one retry too many; a failed key is never given back. *)
CleanUpOffByOne(j) == CatchBlock(j, MaxRetries + 1, {key[j]})
CleanUpKeepsKey(j) == CatchBlock(j, MaxRetries, {})

CleanUp(j) == CatchBlock(j, MaxRetries, {key[j]})

(* After the back-off the retry is published as a message of its own ... *)
PublishRetry(j, i) ==
  /\ At(j, "backoff")
  /\ Send(i, RetryKey(key[j]))
  /\ Step(j, "handoff")
  /\ UNCHANGED <<dbVars, producerVars, own, clockVars, owing, replays, faults, extra>>

(* Deviation: keepInflightForRetry is forgotten. *)
AckRetriedReleases(j) ==
  /\ At(j, "handoff")
  /\ AckThenRelease(j)
  /\ UNCHANGED <<dbVars, producerVars, clockVars, replays, faults, extra>>

(* ... and only then the old one is acked, keeping the claim for the retry. *)
AckRetried(j) ==
  /\ At(j, "handoff")
  /\ Drop(j)
  /\ UNCHANGED <<dbVars, producerVars, clockVars, owing, replays, faults, extra>>

Reject(j) ==
  /\ At(j, "reject")
  /\ place' = [place EXCEPT ![j] = "dlq"]
  /\ Step(j, "idle")
  /\ Owe(key[j].cve)
  /\ UNCHANGED <<dbVars, producerVars, key, own, clockVars, replays, faults, extra>>

(* `finally`: releaseEnrichInflight deletes the row whoever claimed it. *)
Release(c) ==
  /\ owing[c] > 0
  /\ owing' = [owing EXCEPT ![c] = @ - 1]
  /\ \/ claim' = claim \ {c} /\ UNCHANGED faults
     \/ Fault("releaseFails") /\ UNCHANGED claim
  /\ UNCHANGED <<keys, latest, mature, cached, producerVars, messageVars,
                 clockVars, replays, extra>>

HandedOff(c) == {j \in Job : At(j, "handoff") /\ key[j].cve = c}

(* The worker dies: the broker takes every unacked message back. *)
WorkerCrash ==
  /\ Unacked # {} \/ \E c \in Cve : owing[c] > 0
  /\ Fault("workerCrash")
  /\ place' = [j \in Job |-> IF place[j] = "unacked" THEN "ready" ELSE place[j]]
  /\ pc' = [j \in Job |-> "idle"]
  /\ own' = [j \in Job |-> FALSE]
  /\ owing' = [c \in Cve |-> 0]
  /\ extra' = [c \in Cve |-> extra[c] + Cardinality(HandedOff(c))]
  /\ UNCHANGED <<dbVars, producerVars, key, clockVars, replays>>

-----------------------------------------------------------------------------
(* Operators and time. *)

(* A dead letter goes back to the exchange under a fresh key. *)
Replay(j) ==
  /\ place[j] = "dlq"
  /\ replays < MaxReplays
  /\ replays' = replays + 1
  /\ place' = [place EXCEPT ![j] = "ready"]
  /\ key' = [key EXCEPT ![j] = ReplayKey(@, replays + 1)]
  /\ Extra(key[j].cve)
  /\ UNCHANGED <<dbVars, producerVars, pc, own, clockVars, owing, faults>>

(* The connection is lost between the publish and the ack of a replay. *)
ReplayUnacked(j, i) ==
  /\ place[j] = "dlq"
  /\ replays < MaxReplays
  /\ replays' = replays + 1
  /\ Send(i, ReplayKey(key[j], replays + 1))
  /\ Extra(key[j].cve)
  /\ UNCHANGED <<dbVars, producerVars, pc, own, clockVars, owing, faults>>

ClearDeadLetter(j) ==
  /\ place[j] = "dlq"
  /\ Drop(j)
  /\ UNCHANGED <<dbVars, producerVars, clockVars, owing, replays, faults, extra>>

(* Deviation: an expired row blocks the next claim like a live one. *)
ExpiredClaimStays(c) == c \in claim /\ UNCHANGED vars

(* The claim of c outlives AI_ENRICH_INFLIGHT_TTL_HOURS; an expired row is  *)
(* the same as none to every reader.  It is counted when a job was left    *)
(* behind, and only then is it bounded.                                    *)
ExpireClaim(c) ==
  /\ c \in claim
  /\ claim' = claim \ {c}
  /\ IF Outstanding(c) > 0 THEN Extra(c) ELSE UNCHANGED extra
  /\ UNCHANGED <<keys, latest, mature, cached, producerVars, messageVars,
                 clockVars, owing, replays, faults>>

Tick == /\ hour < MaxHour
        /\ hour' = hour + 1
        /\ UNCHANGED <<dbVars, producerVars, messageVars, hot, owing, replays, faults, extra>>

Cool(c) == /\ c \in hot
           /\ hot' = hot \ {c}
           /\ UNCHANGED <<dbVars, producerVars, messageVars, hour, owing, replays,
                          faults, extra>>

-----------------------------------------------------------------------------
Publish(p) == \/ \E kind \in Kinds : SweepSelect(p, kind)
              \/ \E c \in Cve, m \in 0..MaxHour : FanoutSelect(p, c, m)
              \/ DigestSelect(p)
              \/ \E k \in todo[p] : ClaimItem(p, k)
              \/ Backpressure(p)
              \/ \E j \in Job : PublishItem(p, j)
              \/ \E k \in todo[p], j \in Job : PublishDigest(p, k, j)
              \/ ProducerAbort(p)

Handle(j) == \/ CheckWindow(j) \/ CheckMature(j) \/ InsertKey(j) \/ CheckCache(j)
             \/ Generate(j) \/ GenerateStub(j) \/ Upgrade(j) \/ Remember(j) \/ Ack(j)
             \/ CleanUp(j) \/ \E i \in Job : PublishRetry(j, i)
             \/ AckRetried(j) \/ Reject(j)

Operate(j) == \/ Replay(j)
              \/ \E i \in Job : ReplayUnacked(j, i)
              \/ ClearDeadLetter(j)

Next == \/ \E p \in Producer : Publish(p)
        \/ \E j \in Job : Deliver(j) \/ Handle(j) \/ Operate(j)
        \/ \E j \in Job, f \in FaultKinds : Throw(j, f)
        \/ \E c \in Cve : Release(c) \/ ExpireClaim(c) \/ Cool(c)
        \/ WorkerCrash
        \/ Tick

Spec == Init /\ [][Next]_vars

(* Timers keep firing, the event loops keep running and time keeps passing; *)
(* fairness among messages, publishers or CVEs is not assumed.  Only the   *)
(* claim is strongly fair: the depth check that stands before it passes in *)
(* the end, because the consumers drain the queue below its cap.           *)
Fairness ==
  /\ WF_vars(\E p \in Producer, kind \in Kinds : SweepSelect(p, kind))
  /\ SF_vars(\E p \in Producer : \E k \in todo[p] : ClaimItem(p, k))
  /\ WF_vars(\E p \in Producer, j \in Job : PublishItem(p, j))
  /\ WF_vars(\E j \in Job : Deliver(j))
  /\ WF_vars(\E j \in Job : Handle(j))
  /\ WF_vars(\E c \in Cve : Release(c))
  /\ WF_vars(\E c \in Cve : ExpireClaim(c))
  /\ WF_vars(Tick)

FairSpec == Spec /\ Fairness
-----------------------------------------------------------------------------
(* Correctness. *)

Pcs == {"idle", "window", "mature", "insert", "cache", "generate", "upgrade",
        "remember", "ack", "transient", "fatal", "backoff", "handoff", "reject"}

(* Type invariant: the shape of every variable; a message has a key unless *)
(* its identity is free, and a handler only while it is unacked.           *)
TypeOK == /\ hour \in 0..MaxHour
          /\ hot \subseteq Cve /\ claim \subseteq Cve
          /\ keys \subseteq Key
          /\ latest \in [Cve -> {"none", "stub", "mature"}]
          /\ mature \subseteq Cve /\ cached \subseteq Cve
          /\ todo \in [Producer -> SUBSET Key]
          /\ pend \in [Producer -> Key \cup {NoKey}]
          /\ place \in [Job -> {"free", "ready", "unacked", "dlq"}]
          /\ key \in [Job -> Key \cup {NoKey}]
          /\ pc \in [Job -> Pcs]
          /\ own \in [Job -> BOOLEAN]
          /\ owing \in [Cve -> Nat]
          /\ replays \in 0..MaxReplays /\ faults \in 0..MaxFaults
          /\ extra \in [Cve -> Nat]
          /\ \A j \in Job : /\ place[j] = "free" <=> key[j] = NoKey
                            /\ place[j] = "unacked" <=> pc[j] # "idle"

(* Two handlers never work on the same work key at the same time: not on a *)
(* redelivery after a crash, not on a second publish of the same bucket,   *)
(* and not while one of them fails and gives the key back                  *)
(* (enrichment.worker.ts, the idempotency insert and the catch block).     *)
KeyExclusive ==
  \A i, j \in Job : own[i] /\ own[j] /\ key[i] = key[j] => i = j

(* The duplicate-storm bound: beyond the one job its claim stands for, a   *)
(* CVE has no more jobs under way than were published without a claim      *)
(* (digest, dead-letter replay), were left behind by a lapsed claim, or    *)
(* were doubled by a crash between a retry and its ack - however the       *)
(* sweeps overlap and whoever deletes whose inflight row.                  *)
StormBound ==
  \A c \in Cve : Outstanding(c) <= (IF c \in claim THEN 1 ELSE 0) + extra[c]

(* A message the worker drops as a duplicate is covered: another copy owns *)
(* its work key, or a row was already written for the CVE.                 *)
DuplicateIsCovered ==
  \A j \in Job : At(j, "insert") /\ key[j] \in keys =>
     \/ \E i \in Job : own[i] /\ key[i] = key[j]
     \/ latest[key[j].cve] # "none"

(* Every CVE gets its card text in the end, or the behaviour has used up   *)
(* its bounded hours with the last bucket already tried.                   *)
LastBucketTried(c) ==
  /\ hour = MaxHour
  /\ \E kind \in {"hot24h", "backlog"} : SweepKey(kind, c, SweepBucket(kind)) \in keys

EventuallyMature == \A c \in Cve : <>(c \in mature \/ LastBucketTried(c))
=============================================================================
