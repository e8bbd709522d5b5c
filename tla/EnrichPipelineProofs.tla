------------------------ MODULE EnrichPipelineProofs ------------------------
(***************************************************************************)
(* Type correctness, exclusive work keys, the duplicate-storm bound and    *)
(* covered duplicates of EnrichPipeline, for any number of CVEs, messages, *)
(* publishers and any bounds.                                              *)
(***************************************************************************)
EXTENDS EnrichPipeline, FiniteSetTheorems, TLAPS

(* Only a retry that is still allowed backs off. *)
BackoffHasRetry ==
  \A j \in Job : At(j, "backoff") => key[j].retry < MaxRetries

(* A handler that inserted its key is at work on it or has just failed, and *)
(* the key is still there.                                                 *)
OwnerHasKey ==
  \A j \in Job : own[j] => /\ place[j] = "unacked"
                           /\ pc[j] \notin {"backoff", "handoff", "reject"}
                           /\ key[j] \in keys

Inv == TypeOK /\ BackoffHasRetry /\ OwnerHasKey /\ KeyExclusive

-----------------------------------------------------------------------------
(* A day has passed no more hours than have passed. *)
LEMMA DayBound ==
  ASSUME NEW h \in 0..MaxHour
  PROVE  h \div HoursPerDay \in 0..MaxHour
  BY BoundAssumption

LEMMA SweepKeyType ==
  ASSUME NEW kind \in Kinds, NEW c \in Cve, NEW b \in 0..MaxHour
  PROVE  SweepKey(kind, c, b) \in Key
  BY BoundAssumption DEF SweepKey, Key

LEMMA RetryKeyType ==
  ASSUME NEW k \in Key, k.retry < MaxRetries
  PROVE  RetryKey(k) \in Key
  BY BoundAssumption DEF RetryKey, Key

LEMMA ReplayKeyType ==
  ASSUME NEW k \in Key, NEW n \in 0..MaxReplays
  PROVE  ReplayKey(k, n) \in Key
<1>1. 0 \in 0..MaxRetries
  BY BoundAssumption
<1>2. QED
  BY <1>1 DEF ReplayKey, Key

(* Inv holds at the start. *)
LEMMA InitInv == Init => Inv
  BY BoundAssumption
  DEF Init, Inv, TypeOK, Pcs, BackoffHasRetry, OwnerHasKey, KeyExclusive, At

(* The publishers leave messages, handlers and work keys alone, except for *)
(* the message they send.                                                  *)
LEMMA PublishInv ==
  ASSUME Inv, NEW p \in Producer, Publish(p)
  PROVE  Inv'
<1> USE DEF Inv, BackoffHasRetry, OwnerHasKey, KeyExclusive, At,
            dbVars, producerVars, messageVars, clockVars
<1>1. ASSUME NEW kind \in Kinds, SweepSelect(p, kind) PROVE Inv'
  <2>1. SweepBucket(kind) \in 0..MaxHour
    BY DayBound DEF SweepBucket, Day, TypeOK
  <2>2. todo' \in [Producer -> SUBSET Key]
    BY <1>1, <2>1, SweepKeyType DEF SweepSelect, TypeOK
  <2>3. QED
    BY <1>1, <2>2 DEF SweepSelect, TypeOK
<1>2. ASSUME NEW c \in Cve, NEW m \in 0..MaxHour, FanoutSelect(p, c, m) PROVE Inv'
  <2>1. SweepKey("fanout", c, m) \in Key
    BY SweepKeyType DEF Kinds
  <2>2. QED
    BY <1>2, <2>1 DEF FanoutSelect, TypeOK
<1>3. ASSUME DigestSelect(p) PROVE Inv'
  <2>1. Day \in 0..MaxHour
    BY DayBound DEF Day, TypeOK
  <2>2. \A c \in Cve : SweepKey("digest", c, Day) \in Key
    BY <2>1, SweepKeyType DEF Kinds
  <2>3. QED
    BY <1>3, <2>2 DEF DigestSelect, TypeOK
<1>4. ASSUME NEW k \in todo[p], ClaimItem(p, k) PROVE Inv'
  <2>1. k \in Key
    BY DEF TypeOK
  <2>2. k.cve \in Cve
    BY <2>1 DEF Key
  <2>3. QED
    BY <1>4, <2>1, <2>2 DEF ClaimItem, ClaimInflight, TypeOK
<1>5. ASSUME Backpressure(p) PROVE Inv'
  BY <1>5 DEF Backpressure, TypeOK
<1>6. ASSUME NEW j \in Job, PublishItem(p, j) PROVE Inv'
  BY <1>6, SwitchAssumption DEF PublishItem, Send, Free, TypeOK
<1>7. ASSUME NEW k \in todo[p], NEW j \in Job, PublishDigest(p, k, j) PROVE Inv'
  <2>1. k \in Key /\ k.cve \in Cve
    BY DEF TypeOK, Key
  <2>2. QED
    BY <1>7, <2>1, SwitchAssumption DEF PublishDigest, Send, Free, Extra, TypeOK
<1>8. ASSUME ProducerAbort(p) PROVE Inv'
  BY <1>8, BoundAssumption DEF ProducerAbort, Fault, TypeOK
<1>9. QED
  BY <1>1, <1>2, <1>3, <1>4, <1>5, <1>6, <1>7, <1>8 DEF Publish

(* A handler works on a message that has a key. *)
LEMMA UnackedKey ==
  ASSUME TypeOK, NEW j \in Job, place[j] # "free"
  PROVE  key[j] \in Key /\ key[j].cve \in Cve
  BY SwitchAssumption DEF TypeOK, Key

(* A handler that acks its message gives its key to nobody. *)
LEMMA AckInv ==
  ASSUME Inv, NEW j \in Job, place[j] = "unacked", AckThenRelease(j),
         UNCHANGED <<dbVars, producerVars, clockVars, replays, faults, extra>>
  PROVE  Inv'
<1>1. key[j].cve \in Cve
  BY UnackedKey DEF Inv
<1>2. QED
  BY <1>1 DEF AckThenRelease, Drop, Owe, Inv, BackoffHasRetry, OwnerHasKey,
     KeyExclusive, At, TypeOK, Pcs, dbVars, producerVars, clockVars

(* A handler that only moves on, away from the back-off. *)
LEMMA MoveInv ==
  ASSUME Inv, NEW j \in Job, place[j] = "unacked",
         NEW step \in Pcs \ {"idle", "backoff", "handoff", "reject"}, Step(j, step),
         UNCHANGED <<keys, place, key, own, producerVars, clockVars, replays>>,
         claim' \subseteq Cve, latest' \in [Cve -> {"none", "stub", "mature"}],
         mature' \subseteq Cve, cached' \subseteq Cve,
         owing' = owing, faults' \in 0..MaxFaults, extra' = extra
  PROVE  Inv'
  BY DEF Step, Inv, BackoffHasRetry, OwnerHasKey, KeyExclusive, At, TypeOK, Pcs,
     producerVars, clockVars

(* No step of a handler breaks Inv. *)
LEMMA HandleInv ==
  ASSUME Inv, NEW j \in Job, Handle(j)
  PROVE  Inv'
<1> USE DEF dbVars, producerVars, messageVars, clockVars
<1>0. ASSUME place[j] = "unacked" PROVE key[j] \in Key /\ key[j].cve \in Cve
  BY <1>0, UnackedKey DEF Inv
<1>1. CASE CheckWindow(j)
  <2>1. CASE AckThenRelease(j)
    BY <1>1, <2>1, AckInv DEF CheckWindow, At
  <2>2. CASE Step(j, "mature") /\ UNCHANGED <<place, key, own, owing>>
    BY <1>1, <2>2, MoveInv DEF CheckWindow, At, Pcs, Inv, TypeOK
  <2>3. QED
    BY <1>1, <2>1, <2>2 DEF CheckWindow
<1>2. CASE CheckMature(j)
  <2>1. CASE AckThenRelease(j)
    BY <1>2, <2>1, AckInv DEF CheckMature, At
  <2>2. CASE Step(j, "insert") /\ UNCHANGED <<place, key, own, owing>>
    BY <1>2, <2>2, MoveInv DEF CheckMature, At, Pcs, Inv, TypeOK
  <2>3. QED
    BY <1>2, <2>1, <2>2 DEF CheckMature
<1>3. CASE InsertKey(j)
  <2>1. CASE key[j] \in keys /\ Drop(j) /\ UNCHANGED keys
    BY <1>3, <2>1 DEF InsertKey, Drop, Inv, BackoffHasRetry, OwnerHasKey,
       KeyExclusive, At, TypeOK, Pcs
  <2>2. CASE /\ key[j] \notin keys
             /\ keys' = keys \cup {key[j]}
             /\ own' = [own EXCEPT ![j] = TRUE]
             /\ Step(j, "cache")
             /\ UNCHANGED <<place, key>>
    BY <1>0, <1>3, <2>2 DEF InsertKey, Step, Inv, BackoffHasRetry, OwnerHasKey,
       KeyExclusive, At, TypeOK, Pcs
  <2>3. QED
    BY <1>3, <2>1, <2>2 DEF InsertKey
<1>4. CASE CheckCache(j)
  <2>1. CASE AckThenRelease(j)
    BY <1>4, <2>1, AckInv DEF CheckCache, At
  <2>2. CASE Step(j, "generate") /\ UNCHANGED <<place, key, own, owing>>
    BY <1>4, <2>2, MoveInv DEF CheckCache, At, Pcs, Inv, TypeOK
  <2>3. QED
    BY <1>4, <2>1, <2>2 DEF CheckCache
<1>5. CASE Generate(j)
  <2>1. PICK step \in {"remember", "upgrade"} : Step(j, step)
    BY <1>5 DEF Generate
  <2>2. QED
    BY <1>0, <1>5, <2>1, MoveInv DEF Generate, PersistMature, At, Pcs, Inv, TypeOK
<1>6. CASE GenerateStub(j)
  BY <1>0, <1>6, MoveInv, BoundAssumption DEF GenerateStub, Fault, At, Pcs, Inv, TypeOK
<1>7. CASE Upgrade(j)
  <2>1. PICK step \in {"remember", "ack"} : Step(j, step)
    BY <1>7 DEF Upgrade
  <2>2. QED
    BY <1>0, <1>7, <2>1, MoveInv DEF Upgrade, PersistMature, At, Pcs, Inv, TypeOK
<1>8. CASE Remember(j)
  BY <1>0, <1>8, MoveInv DEF Remember, At, Pcs, Inv, TypeOK
<1>9. CASE Ack(j)
  BY <1>9, AckInv DEF Ack, At
<1>10. CASE CleanUp(j)
  <2>1. keys' \subseteq keys /\ faults' \in 0..MaxFaults
    BY <1>10, BoundAssumption DEF CleanUp, CatchBlock, Fault, Inv, TypeOK
  <2>2. \A i \in Job : own'[i] => own[i] /\ i # j /\ key[i] \in keys'
    BY <1>10 DEF CleanUp, CatchBlock, Inv, TypeOK, OwnerHasKey, KeyExclusive
  <2>3. PICK step \in {"backoff", "reject"} :
          /\ Step(j, step)
          /\ step = "backoff" => key[j].retry < MaxRetries
    BY <1>10 DEF CleanUp, CatchBlock
  <2>4. TypeOK'
    BY <1>10, <2>1, <2>3 DEF CleanUp, CatchBlock, Step, Inv, TypeOK, Pcs
  <2>5. BackoffHasRetry'
    BY <1>10, <2>3 DEF CleanUp, CatchBlock, Step, Inv, BackoffHasRetry, At, TypeOK
  <2>6. OwnerHasKey' /\ KeyExclusive'
    BY <1>10, <2>2 DEF CleanUp, CatchBlock, Step, Inv, TypeOK, OwnerHasKey, KeyExclusive
  <2>7. QED
    BY <2>4, <2>5, <2>6 DEF Inv
<1>11. ASSUME NEW i \in Job, PublishRetry(j, i) PROVE Inv'
  <2>1. RetryKey(key[j]) \in Key
    BY <1>0, <1>11, RetryKeyType DEF PublishRetry, At, Inv, BackoffHasRetry
  <2>2. QED
    <3>1. i # j /\ ~own[i] /\ pc[i] = "idle"
      BY <1>11 DEF PublishRetry, Send, Free, At, Inv, TypeOK, OwnerHasKey
    <3>2. /\ place' = [place EXCEPT ![i] = "ready"]
          /\ key' = [key EXCEPT ![i] = RetryKey(key[j])]
          /\ pc' = [pc EXCEPT ![j] = "handoff"]
          /\ RetryKey(key[j]) # NoKey
          /\ place[j] = "unacked"
      BY <1>11, <2>1, SwitchAssumption DEF PublishRetry, Send, Step, At
    <3>6. /\ place' \in [Job -> {"free", "ready", "unacked", "dlq"}]
          /\ key' \in [Job -> Key \cup {NoKey}]
          /\ pc' \in [Job -> Pcs]
      BY <2>1, <3>2 DEF Inv, TypeOK, Pcs
    <3>7. \A l \in Job : /\ place'[l] = "free" <=> key'[l] = NoKey
                         /\ place'[l] = "unacked" <=> pc'[l] # "idle"
      BY <3>1, <3>2 DEF Inv, TypeOK
    <3>8. TypeOK'
      BY <1>11, <3>6, <3>7 DEF PublishRetry, Inv, TypeOK
    <3>3. BackoffHasRetry'
      BY <1>11, <3>1 DEF PublishRetry, Send, Step, Inv, TypeOK, BackoffHasRetry, At
    <3>4. OwnerHasKey' /\ KeyExclusive'
      <4>1. ~own[j] /\ keys' = keys /\ own' = own
        BY <1>11 DEF PublishRetry, At, Inv, OwnerHasKey
      <4>2. \A l \in Job : own[l] => /\ place'[l] = place[l] /\ pc'[l] = pc[l]
                                     /\ key'[l] = key[l]
        BY <3>1, <3>2, <4>1 DEF Inv, TypeOK
      <4>3. QED
        BY <4>1, <4>2 DEF Inv, OwnerHasKey, KeyExclusive
    <3>5. QED
      BY <3>3, <3>4, <3>8 DEF Inv
<1>12. CASE AckRetried(j)
  BY <1>12 DEF AckRetried, Drop, Inv, TypeOK, Pcs, BackoffHasRetry, OwnerHasKey,
     KeyExclusive, At
<1>13. CASE Reject(j)
  <2>1. key[j].cve \in Cve
    BY <1>0, <1>13 DEF Reject, At
  <2>2. QED
    BY <1>13, <2>1 DEF Reject, Owe, Step, Inv, TypeOK, Pcs, BackoffHasRetry, OwnerHasKey,
       KeyExclusive, At
<1>14. QED
  BY <1>1, <1>2, <1>3, <1>4, <1>5, <1>6, <1>7, <1>8, <1>9, <1>10, <1>11, <1>12, <1>13
  DEF Handle

(* Neither does a throw, a release, an operator or the passing of time. *)
LEMMA OtherInv ==
  ASSUME Inv,
         \/ \E j \in Job : Deliver(j) \/ Operate(j)
         \/ \E j \in Job, f \in FaultKinds : Throw(j, f)
         \/ \E c \in Cve : Release(c) \/ ExpireClaim(c) \/ Cool(c)
         \/ WorkerCrash
         \/ Tick
  PROVE  Inv'
<1> USE DEF dbVars, producerVars, messageVars, clockVars
<1>1. ASSUME NEW j \in Job, Deliver(j) PROVE Inv'
  BY <1>1 DEF Deliver, Step, Inv, TypeOK, Pcs, BackoffHasRetry, OwnerHasKey,
     KeyExclusive, At
<1>2. ASSUME NEW j \in Job, NEW f \in FaultKinds, Throw(j, f) PROVE Inv'
  BY <1>2, BoundAssumption DEF Throw, Fault, Step, Inv, TypeOK, Pcs, BackoffHasRetry,
     OwnerHasKey, KeyExclusive, At
<1>3. ASSUME NEW c \in Cve, Release(c) PROVE Inv'
  BY <1>3, BoundAssumption DEF Release, Fault, Inv, TypeOK, BackoffHasRetry, OwnerHasKey,
     KeyExclusive, At
<1>4. ASSUME NEW c \in Cve, ExpireClaim(c) PROVE Inv'
  <2>1. claim' \subseteq Cve /\ extra' \in [Cve -> Nat]
    BY <1>4 DEF ExpireClaim, Extra, Inv, TypeOK
  <2>2. QED
    BY <1>4, <2>1 DEF ExpireClaim, Inv, TypeOK, BackoffHasRetry, OwnerHasKey,
       KeyExclusive, At
<1>5. ASSUME NEW c \in Cve, Cool(c) PROVE Inv'
  BY <1>5 DEF Cool, Inv, TypeOK, BackoffHasRetry, OwnerHasKey, KeyExclusive, At
<1>6. ASSUME WorkerCrash PROVE Inv'
  <2>1. \A c \in Cve : Cardinality(HandedOff(c)) \in Nat
    BY FiniteAssumption, FS_Subset, FS_CardinalityType DEF HandedOff
  <2>2. extra' \in [Cve -> Nat]
    BY <1>6, <2>1 DEF WorkerCrash, Inv, TypeOK
  <2>3. QED
    BY <1>6, <2>2, BoundAssumption DEF WorkerCrash, Fault, Inv, TypeOK, Pcs,
       BackoffHasRetry, OwnerHasKey, KeyExclusive, At
<1>7. ASSUME Tick PROVE Inv'
  BY <1>7, BoundAssumption
  DEF Tick, Inv, TypeOK, BackoffHasRetry, OwnerHasKey, KeyExclusive, At
<1>8. ASSUME NEW j \in Job, Replay(j) PROVE Inv'
  <2>1. key[j] \in Key /\ key[j].cve \in Cve
    BY <1>8, UnackedKey DEF Replay, Inv
  <2>2. ReplayKey(key[j], replays + 1) \in Key
    BY <1>8, <2>1, ReplayKeyType, BoundAssumption DEF Replay, Inv, TypeOK
  <2>3. QED
    BY <1>8, <2>1, <2>2, BoundAssumption, SwitchAssumption DEF Replay, Extra, Inv, TypeOK,
       Pcs, BackoffHasRetry, OwnerHasKey, KeyExclusive, At
<1>9. ASSUME NEW j \in Job, NEW i \in Job, ReplayUnacked(j, i) PROVE Inv'
  <2>1. key[j] \in Key /\ key[j].cve \in Cve
    BY <1>9, UnackedKey DEF ReplayUnacked, Inv
  <2>2. ReplayKey(key[j], replays + 1) \in Key
    BY <1>9, <2>1, ReplayKeyType, BoundAssumption DEF ReplayUnacked, Inv, TypeOK
  <2>3. QED
    BY <1>9, <2>1, <2>2, BoundAssumption, SwitchAssumption DEF ReplayUnacked, Send, Free,
       Extra, Inv, TypeOK, Pcs, BackoffHasRetry, OwnerHasKey, KeyExclusive, At
<1>10. ASSUME NEW j \in Job, ClearDeadLetter(j) PROVE Inv'
  BY <1>10 DEF ClearDeadLetter, Drop, Inv, TypeOK, Pcs, BackoffHasRetry, OwnerHasKey,
     KeyExclusive, At
<1>11. QED
  BY <1>1, <1>2, <1>3, <1>4, <1>5, <1>6, <1>7, <1>8, <1>9, <1>10 DEF Operate

LEMMA NextInv == Inv /\ [Next]_vars => Inv'
<1>1. ASSUME Inv, UNCHANGED vars PROVE Inv'
  BY <1>1 DEF vars, Inv, TypeOK, BackoffHasRetry, OwnerHasKey, KeyExclusive, At
<1>2. ASSUME Inv, Next PROVE Inv'
  BY <1>2, PublishInv, HandleInv, OtherInv DEF Next
<1>3. QED
  BY <1>1, <1>2

LEMMA AlwaysInv == Spec => []Inv
  BY InitInv, NextInv, PTL DEF Spec

(* Every variable keeps its type, and a message has a handler exactly      *)
(* while it is unacked, in every run of the pipeline.                      *)
THEOREM TypeCorrect == Spec => []TypeOK
  BY AlwaysInv, PTL DEF Inv

(* Two handlers never work on the same idempotency key, whatever crashes,  *)
(* redeliveries, replays and overlapping sweeps there are.                 *)
THEOREM ExclusiveKeys == Spec => []KeyExclusive
  BY AlwaysInv, PTL DEF Inv

-----------------------------------------------------------------------------
(* The duplicate-storm bound.  Each step is weighed for one CVE: what it   *)
(* adds to the messages, publishers and handlers of that CVE, it also adds *)
(* to its claim or to its history.                                         *)

Bit(c) == IF c \in claim THEN 1 ELSE 0

Bound(c) == Outstanding(c) <= Bit(c) + extra[c]

(* The sets that Outstanding counts are finite. *)
LEMMA Finite ==
  ASSUME NEW c \in Cve
  PROVE  /\ IsFiniteSet(Live(c)) /\ Cardinality(Live(c)) \in Nat
         /\ IsFiniteSet(Publishing(c)) /\ Cardinality(Publishing(c)) \in Nat
         /\ IsFiniteSet(HandedOff(c)) /\ Cardinality(HandedOff(c)) \in Nat
<1>1. Live(c) \subseteq Job /\ Publishing(c) \subseteq Producer /\ HandedOff(c) \subseteq Job
  BY DEF Live, Publishing, HandedOff
<1>2. QED
  BY <1>1, FiniteAssumption, FS_Subset, FS_CardinalityType

(* The same sets after a step. *)
LEMMA FiniteNext ==
  ASSUME NEW c \in Cve
  PROVE  /\ IsFiniteSet(Live(c)') /\ Cardinality(Live(c)') \in Nat
         /\ IsFiniteSet(Publishing(c)') /\ Cardinality(Publishing(c)') \in Nat
<1>1. Live(c)' \subseteq Job /\ Publishing(c)' \subseteq Producer
  BY DEF Live, Publishing
<1>2. QED
  BY <1>1, FiniteAssumption, FS_Subset, FS_CardinalityType

(* A subset counts no more, *)
LEMMA CountSubset ==
  ASSUME NEW S, IsFiniteSet(S), NEW T, T \subseteq S
  PROVE  Cardinality(T) <= Cardinality(S)
  BY FS_Subset

(* one more element counts at most one more, *)
LEMMA CountAdd ==
  ASSUME NEW S, IsFiniteSet(S), NEW x, NEW T, T \subseteq S \cup {x}
  PROVE  Cardinality(T) <= Cardinality(S) + 1
<1>1. IsFiniteSet(S \cup {x}) /\ Cardinality(S \cup {x}) <= Cardinality(S) + 1
  <2>1. Cardinality(S) \in Nat
    BY FS_CardinalityType
  <2>2. QED
    BY <2>1, FS_AddElement
<1>2. Cardinality(T) <= Cardinality(S \cup {x}) /\ IsFiniteSet(T)
  BY <1>1, FS_Subset
<1>3. QED
  BY <1>1, <1>2, FS_CardinalityType

(* and one element less counts one less. *)
LEMMA CountRemove ==
  ASSUME NEW S, IsFiniteSet(S), NEW x \in S, NEW T, T \subseteq S \ {x}
  PROVE  Cardinality(T) <= Cardinality(S) - 1
<1>1. IsFiniteSet(S \ {x}) /\ Cardinality(S \ {x}) = Cardinality(S) - 1
  BY FS_RemoveElement
<1>2. QED
  BY <1>1, FS_Subset

(* A step that adds no job of c and takes no claim of c away keeps Bound. *)
LEMMA QuietBound ==
  ASSUME TypeOK, TypeOK', NEW c \in Cve, Bound(c),
         Live(c)' \subseteq Live(c), Publishing(c)' \subseteq Publishing(c),
         owing'[c] <= owing[c], c \in claim => c \in claim', extra[c] <= extra'[c]
  PROVE  Bound(c)'
<1>1. /\ Cardinality(Live(c)') <= Cardinality(Live(c))
      /\ Cardinality(Publishing(c)') <= Cardinality(Publishing(c))
  BY Finite, CountSubset
<1>2. owing[c] \in Nat /\ owing'[c] \in Nat /\ extra[c] \in Nat /\ extra'[c] \in Nat
  BY DEF TypeOK
<1>3. QED
  BY <1>1, <1>2, Finite, FiniteNext DEF Bound, Bit, Outstanding

(* Acking a live message of c makes its handler owe a release. *)
LEMMA OweBound ==
  ASSUME TypeOK, TypeOK', NEW j \in Job, NEW c \in Cve, Bound(c),
         c = key[j].cve => j \in Live(c),
         Live(c)' \subseteq Live(c) \ {j}, Publishing(c)' \subseteq Publishing(c),
         owing' = [owing EXCEPT ![key[j].cve] = @ + 1], claim' = claim, extra' = extra
  PROVE  Bound(c)'
<1>1. CASE c # key[j].cve
  BY <1>1, QuietBound DEF TypeOK
<1>2. CASE c = key[j].cve
  <2>1. /\ Cardinality(Live(c)') <= Cardinality(Live(c)) - 1
        /\ Cardinality(Publishing(c)') <= Cardinality(Publishing(c))
    BY <1>2, Finite, CountSubset, CountRemove
  <2>2. owing[c] \in Nat /\ owing'[c] = owing[c] + 1 /\ extra[c] \in Nat
    BY <1>2 DEF TypeOK
  <2>3. QED
    BY <2>1, <2>2, Finite, FiniteNext DEF Bound, Bit, Outstanding
<1>3. QED
  BY <1>1, <1>2

(* An unclaimed message of d is accounted for by the history of d. *)
LEMMA ExtraBound ==
  ASSUME TypeOK, TypeOK', NEW j \in Job, NEW d \in Cve, NEW c \in Cve, Bound(c),
         Live(c)' \subseteq (IF c = d THEN Live(c) \cup {j} ELSE Live(c)),
         Publishing(c)' \subseteq Publishing(c),
         owing' = owing, claim' = claim, extra' = [extra EXCEPT ![d] = @ + 1]
  PROVE  Bound(c)'
<1>1. CASE c # d
  BY <1>1, QuietBound DEF TypeOK
<1>2. CASE c = d
  <2>1. /\ Cardinality(Live(c)') <= Cardinality(Live(c)) + 1
        /\ Cardinality(Publishing(c)') <= Cardinality(Publishing(c))
    BY <1>2, Finite, CountSubset, CountAdd
  <2>2. owing[c] \in Nat /\ extra[c] \in Nat /\ extra'[c] = extra[c] + 1
    BY <1>2 DEF TypeOK
  <2>3. QED
    BY <2>1, <2>2, Finite, FiniteNext DEF Bound, Bit, Outstanding
<1>3. QED
  BY <1>1, <1>2

(* What a publisher does. *)
LEMMA PublishBound ==
  ASSUME Inv, Inv', NEW p \in Producer, Publish(p), NEW c \in Cve, Bound(c)
  PROVE  Bound(c)'
<1> USE DEF dbVars, producerVars, messageVars, clockVars
<1>0. TypeOK /\ TypeOK'
  BY DEF Inv
<1>1. ASSUME UNCHANGED <<place, key, pc, owing, claim, extra>>, Publishing(c)' \subseteq Publishing(c)
      PROVE  Bound(c)'
  BY <1>0, <1>1, QuietBound DEF Live, TypeOK
<1>2. CASE (\E kind \in Kinds : SweepSelect(p, kind)) \/ DigestSelect(p) \/ Backpressure(p)
           \/ \E d \in Cve, m \in 0..MaxHour : FanoutSelect(p, d, m)
  BY <1>1, <1>2 DEF SweepSelect, DigestSelect, Backpressure, FanoutSelect, Publishing
<1>3. CASE ProducerAbort(p)
  BY <1>0, <1>1, <1>3 DEF ProducerAbort, Publishing, TypeOK
<1>4. ASSUME NEW k \in todo[p], ClaimItem(p, k) PROVE Bound(c)'
  <2>1. CASE k.cve \in claim /\ UNCHANGED <<claim, pend>>
    BY <1>1, <1>4, <2>1 DEF ClaimItem, Publishing
  <2>2. CASE ClaimInflight(k.cve) /\ pend' = [pend EXCEPT ![p] = k]
    <3>1. Live(c)' \subseteq Live(c) /\ owing' = owing /\ extra' = extra
      BY <1>4 DEF ClaimItem, Live
    <3>2. CASE c # k.cve
      <4>1. Publishing(c)' \subseteq Publishing(c)
        BY <1>0, <2>2, <3>2 DEF Publishing, TypeOK
      <4>2. c \in claim => c \in claim'
        BY <2>2 DEF ClaimInflight
      <4>3. QED
        BY <1>0, <3>1, <4>1, <4>2, QuietBound DEF TypeOK
    <3>3. CASE c = k.cve
      <4>1. Publishing(c)' \subseteq Publishing(c) \cup {p}
        BY <1>0, <2>2 DEF Publishing, TypeOK
      <4>2. /\ Cardinality(Live(c)') <= Cardinality(Live(c))
            /\ Cardinality(Publishing(c)') <= Cardinality(Publishing(c)) + 1
        BY <3>1, <4>1, Finite, CountSubset, CountAdd
      <4>3. c \notin claim /\ c \in claim'
        BY <2>2, <3>3 DEF ClaimInflight
      <4>4. owing[c] \in Nat /\ extra[c] \in Nat
        BY <1>0 DEF TypeOK
      <4>5. QED
        BY <3>1, <4>2, <4>3, <4>4, Finite, FiniteNext DEF Bound, Bit, Outstanding
    <3>4. QED
      BY <3>2, <3>3
  <2>3. QED
    BY <1>4, <2>1, <2>2 DEF ClaimItem
<1>5. ASSUME NEW j \in Job, PublishItem(p, j) PROVE Bound(c)'
  <2>1. /\ place' = [place EXCEPT ![j] = "ready"]
        /\ key' = [key EXCEPT ![j] = pend[p]]
        /\ pend[p] # NoKey
        /\ pend' = [pend EXCEPT ![p] = NoKey]
        /\ UNCHANGED <<pc, owing, claim, extra>>
    BY <1>5 DEF PublishItem, Send
  <2>2. CASE c # pend[p].cve
    <3>1. Live(c)' \subseteq Live(c) /\ Publishing(c)' \subseteq Publishing(c)
      BY <1>0, <2>1, <2>2 DEF Live, Publishing, TypeOK
    <3>2. QED
      BY <1>0, <2>1, <3>1, QuietBound DEF TypeOK
  <2>3. CASE c = pend[p].cve
    <3>1. /\ Live(c)' \subseteq Live(c) \cup {j}
          /\ p \in Publishing(c)
          /\ Publishing(c)' \subseteq Publishing(c) \ {p}
      BY <1>0, <2>1, <2>3 DEF Live, Publishing, TypeOK
    <3>2. /\ Cardinality(Live(c)') <= Cardinality(Live(c)) + 1
          /\ Cardinality(Publishing(c)') <= Cardinality(Publishing(c)) - 1
      BY <3>1, Finite, CountAdd, CountRemove
    <3>3. owing[c] \in Nat /\ extra[c] \in Nat
      BY <1>0 DEF TypeOK
    <3>4. QED
      BY <2>1, <3>2, <3>3, Finite, FiniteNext DEF Bound, Bit, Outstanding
  <2>4. QED
    BY <2>2, <2>3
<1>6. ASSUME NEW k \in todo[p], NEW j \in Job, PublishDigest(p, k, j) PROVE Bound(c)'
  <2>1. k.cve \in Cve
    BY <1>0 DEF TypeOK, Key
  <2>2. /\ place' = [place EXCEPT ![j] = "ready"]
        /\ key' = [key EXCEPT ![j] = k]
        /\ extra' = [extra EXCEPT ![k.cve] = @ + 1]
        /\ UNCHANGED <<pend, pc, owing, claim>>
    BY <1>6 DEF PublishDigest, Send, Extra
  <2>3. /\ Live(c)' \subseteq (IF c = k.cve THEN Live(c) \cup {j} ELSE Live(c))
        /\ Publishing(c)' \subseteq Publishing(c)
    BY <1>0, <2>2 DEF Live, Publishing, TypeOK
  <2>4. QED
    BY <1>0, <2>1, <2>2, <2>3, ExtraBound
<1>7. QED
  BY <1>2, <1>3, <1>4, <1>5, <1>6 DEF Publish

(* What a handler does. *)
LEMMA HandleBound ==
  ASSUME Inv, Inv', NEW j \in Job, Handle(j), NEW c \in Cve, Bound(c)
  PROVE  Bound(c)'
<1> USE DEF dbVars, producerVars, messageVars, clockVars
<1>0. TypeOK /\ TypeOK'
  BY DEF Inv
<1>1. ASSUME place[j] = "unacked", pc[j] # "handoff", NEW step \in Pcs, Step(j, step),
             UNCHANGED <<place, key, pend, owing, claim, extra>>
      PROVE  Bound(c)'
  <2>1. Live(c)' \subseteq Live(c) /\ Publishing(c)' \subseteq Publishing(c)
    BY <1>0, <1>1 DEF Step, Live, Publishing, TypeOK
  <2>2. QED
    BY <1>0, <1>1, <2>1, QuietBound DEF TypeOK
<1>2. ASSUME place[j] = "unacked", Drop(j), UNCHANGED <<pend, owing, claim, extra>>
      PROVE  Bound(c)'
  <2>1. Live(c)' \subseteq Live(c) /\ Publishing(c)' \subseteq Publishing(c)
    BY <1>0, <1>2 DEF Drop, Live, Publishing, TypeOK
  <2>2. QED
    BY <1>0, <1>2, <2>1, QuietBound DEF TypeOK
<1>3. ASSUME place[j] = "unacked", pc[j] # "handoff", AckThenRelease(j),
             UNCHANGED <<pend, claim, extra>>
      PROVE  Bound(c)'
  <2>1. c = key[j].cve => j \in Live(c)
    BY <1>3 DEF Live
  <2>2. Live(c)' \subseteq Live(c) \ {j} /\ Publishing(c)' \subseteq Publishing(c)
    BY <1>0, <1>3 DEF AckThenRelease, Drop, Live, Publishing, TypeOK
  <2>3. QED
    BY <1>0, <1>3, <2>1, <2>2, OweBound DEF AckThenRelease, Owe
<1>4. CASE CheckWindow(j)
  BY <1>1, <1>3, <1>4 DEF CheckWindow, At, Pcs
<1>5. CASE CheckMature(j)
  BY <1>1, <1>3, <1>5 DEF CheckMature, At, Pcs
<1>6. CASE InsertKey(j)
  BY <1>1, <1>2, <1>6 DEF InsertKey, At, Pcs
<1>7. CASE CheckCache(j)
  BY <1>1, <1>3, <1>7 DEF CheckCache, At, Pcs
<1>8. CASE Generate(j)
  BY <1>1, <1>8 DEF Generate, At, Pcs
<1>9. CASE GenerateStub(j)
  BY <1>1, <1>9 DEF GenerateStub, At, Pcs
<1>10. CASE Upgrade(j)
  BY <1>1, <1>10 DEF Upgrade, At, Pcs
<1>11. CASE Remember(j)
  BY <1>1, <1>11 DEF Remember, At, Pcs
<1>12. CASE Ack(j)
  BY <1>3, <1>12 DEF Ack, At
<1>13. CASE CleanUp(j)
  BY <1>1, <1>13 DEF CleanUp, CatchBlock, Pcs
<1>14. ASSUME NEW i \in Job, PublishRetry(j, i) PROVE Bound(c)'
  <2>1. /\ place' = [place EXCEPT ![i] = "ready"]
        /\ key' = [key EXCEPT ![i] = RetryKey(key[j])]
        /\ pc' = [pc EXCEPT ![j] = "handoff"]
        /\ place[i] = "free" /\ place[j] = "unacked" /\ pc[j] = "backoff"
        /\ UNCHANGED <<pend, owing, claim, extra>>
    BY <1>14 DEF PublishRetry, Send, Free, Step, At
  <2>2. key[j] \in Key
    BY <1>0, <2>1, UnackedKey
  <2>3. RetryKey(key[j]).cve = key[j].cve
    BY <2>2 DEF RetryKey, Key
  <2>4. i # j /\ Publishing(c)' \subseteq Publishing(c)
    BY <2>1 DEF Publishing
  <2>5. CASE c # key[j].cve
    <3>1. Live(c)' \subseteq Live(c)
      BY <1>0, <2>1, <2>3, <2>5 DEF Live, TypeOK
    <3>2. QED
      BY <1>0, <2>1, <2>4, <3>1, QuietBound DEF TypeOK
  <2>6. CASE c = key[j].cve
    <3>1. j \in Live(c) /\ Live(c)' \subseteq (Live(c) \ {j}) \cup {i}
      BY <1>0, <2>1, <2>4, <2>6 DEF Live, TypeOK
    <3>2. IsFiniteSet(Live(c) \ {j}) /\ Cardinality(Live(c) \ {j}) = Cardinality(Live(c)) - 1
      BY <3>1, Finite, FS_RemoveElement
    <3>3. /\ Cardinality(Live(c)') <= Cardinality(Live(c) \ {j}) + 1
          /\ Cardinality(Publishing(c)') <= Cardinality(Publishing(c))
      BY <2>4, <3>1, <3>2, Finite, CountSubset, CountAdd
    <3>4. owing[c] \in Nat /\ extra[c] \in Nat
      BY <1>0 DEF TypeOK
    <3>5. QED
      BY <2>1, <3>2, <3>3, <3>4, Finite, FiniteNext DEF Bound, Bit, Outstanding
  <2>7. QED
    BY <2>5, <2>6
<1>15. CASE AckRetried(j)
  BY <1>2, <1>15 DEF AckRetried, At
<1>16. CASE Reject(j)
  <2>1. c = key[j].cve => j \in Live(c)
    BY <1>16 DEF Reject, At, Live
  <2>2. Live(c)' \subseteq Live(c) \ {j} /\ Publishing(c)' \subseteq Publishing(c)
    BY <1>0, <1>16 DEF Reject, Step, At, Live, Publishing, TypeOK
  <2>3. QED
    BY <1>0, <1>16, <2>1, <2>2, OweBound DEF Reject, Owe
<1>17. QED
  BY <1>4, <1>5, <1>6, <1>7, <1>8, <1>9, <1>10, <1>11, <1>12, <1>13, <1>14, <1>15, <1>16
  DEF Handle

(* What the broker, the operators, crashes and time do. *)
LEMMA OtherBound ==
  ASSUME Inv, Inv', NEW c \in Cve, Bound(c),
         \/ \E j \in Job : Deliver(j) \/ Operate(j)
         \/ \E j \in Job, f \in FaultKinds : Throw(j, f)
         \/ \E d \in Cve : Release(d) \/ ExpireClaim(d) \/ Cool(d)
         \/ WorkerCrash
         \/ Tick
  PROVE  Bound(c)'
<1> USE DEF dbVars, producerVars, messageVars, clockVars
<1>0. TypeOK /\ TypeOK'
  BY DEF Inv
<1>1. ASSUME Live(c)' \subseteq Live(c), UNCHANGED <<pend, owing, claim, extra>>
      PROVE  Bound(c)'
  BY <1>0, <1>1, QuietBound DEF Publishing, TypeOK
<1>2. ASSUME NEW j \in Job, Deliver(j) PROVE Bound(c)'
  <2>1. Live(c)' \subseteq Live(c)
    BY <1>0, <1>2 DEF Deliver, Step, Live, TypeOK
  <2>2. QED
    BY <1>1, <1>2, <2>1 DEF Deliver
<1>3. ASSUME NEW j \in Job, NEW f \in FaultKinds, Throw(j, f) PROVE Bound(c)'
  <2>1. Live(c)' \subseteq Live(c)
    BY <1>0, <1>3 DEF Throw, Step, Live, TypeOK
  <2>2. QED
    BY <1>1, <1>3, <2>1 DEF Throw
<1>4. ASSUME NEW d \in Cve, Release(d) PROVE Bound(c)'
  <2>1. Live(c)' = Live(c) /\ Publishing(c)' = Publishing(c) /\ extra' = extra
    BY <1>4 DEF Release, Live, Publishing
  <2>2. CASE c # d
    <3>1. owing'[c] = owing[c] /\ (c \in claim => c \in claim')
      BY <1>0, <1>4, <2>2 DEF Release, TypeOK
    <3>2. QED
      BY <1>0, <2>1, <3>1, QuietBound DEF TypeOK
  <2>3. CASE c = d
    <3>1. owing'[c] = owing[c] - 1 /\ owing[c] \in Nat /\ extra[c] \in Nat
      BY <1>0, <1>4, <2>3 DEF Release, TypeOK
    <3>2. QED
      BY <2>1, <3>1, Finite DEF Bound, Bit, Outstanding
  <2>4. QED
    BY <2>2, <2>3
<1>5. ASSUME NEW d \in Cve, ExpireClaim(d) PROVE Bound(c)'
  <2>1. Live(c)' = Live(c) /\ Publishing(c)' = Publishing(c) /\ owing' = owing
    BY <1>5 DEF ExpireClaim, Live, Publishing
  <2>2. owing[c] \in Nat /\ extra[c] \in Nat /\ extra'[c] \in Nat
    BY <1>0 DEF TypeOK
  <2>3. CASE c # d
    <3>1. extra'[c] = extra[c] /\ (c \in claim => c \in claim')
      BY <1>0, <1>5, <2>3 DEF ExpireClaim, Extra, TypeOK
    <3>2. QED
      BY <1>0, <2>1, <2>2, <3>1, QuietBound
  <2>4. CASE c = d /\ Outstanding(c) > 0
    <3>1. extra'[c] = extra[c] + 1
      BY <1>0, <1>5, <2>4 DEF ExpireClaim, Extra, TypeOK
    <3>2. QED
      BY <2>1, <2>2, <3>1, Finite DEF Bound, Bit, Outstanding
  <2>5. CASE c = d /\ ~(Outstanding(c) > 0)
    BY <2>1, <2>2, <2>5, Finite DEF Bound, Bit, Outstanding
  <2>6. QED
    BY <2>3, <2>4, <2>5
<1>6. ASSUME NEW d \in Cve, Cool(d) PROVE Bound(c)'
  BY <1>1, <1>6 DEF Cool, Live
<1>7. ASSUME WorkerCrash PROVE Bound(c)'
  <2>1. /\ Live(c)' \subseteq Live(c) \cup HandedOff(c)
        /\ Publishing(c)' = Publishing(c)
        /\ claim' = claim
    BY <1>0, <1>7 DEF WorkerCrash, Live, HandedOff, At, Publishing, TypeOK
  <2>2. owing'[c] = 0 /\ extra'[c] = extra[c] + Cardinality(HandedOff(c))
    BY <1>7 DEF WorkerCrash
  <2>3. /\ IsFiniteSet(Live(c) \cup HandedOff(c))
        /\ Cardinality(Live(c) \cup HandedOff(c))
             <= Cardinality(Live(c)) + Cardinality(HandedOff(c))
    <3>1. /\ IsFiniteSet(Live(c) \cup HandedOff(c))
          /\ IsFiniteSet(Live(c) \cap HandedOff(c))
          /\ Cardinality(Live(c) \cup HandedOff(c)) = Cardinality(Live(c))
               + Cardinality(HandedOff(c)) - Cardinality(Live(c) \cap HandedOff(c))
      BY Finite, FS_Union, FS_Intersection
    <3>2. Cardinality(Live(c) \cap HandedOff(c)) \in Nat
      BY <3>1, FS_CardinalityType
    <3>3. QED
      BY <3>1, <3>2, Finite
  <2>4. Cardinality(Live(c)') <= Cardinality(Live(c)) + Cardinality(HandedOff(c))
    <3>1. Cardinality(Live(c)') <= Cardinality(Live(c) \cup HandedOff(c))
      BY <2>1, <2>3, CountSubset
    <3>2. Cardinality(Live(c) \cup HandedOff(c)) \in Nat
      BY <2>3, FS_CardinalityType
    <3>3. QED
      BY <2>3, <3>1, <3>2, Finite, FiniteNext
  <2>5. owing[c] \in Nat /\ extra[c] \in Nat
    BY <1>0 DEF TypeOK
  <2>6. QED
    BY <2>1, <2>2, <2>4, <2>5, Finite, FiniteNext DEF Bound, Bit, Outstanding
<1>8. ASSUME Tick PROVE Bound(c)'
  BY <1>1, <1>8 DEF Tick, Live
<1>9. ASSUME NEW j \in Job, Replay(j) PROVE Bound(c)'
  <2>1. key[j] \in Key /\ key[j].cve \in Cve
    BY <1>0, <1>9, UnackedKey DEF Replay
  <2>2. ReplayKey(key[j], replays + 1).cve = key[j].cve
    BY <2>1 DEF ReplayKey, Key
  <2>3. /\ Live(c)' \subseteq (IF c = key[j].cve THEN Live(c) \cup {j} ELSE Live(c))
        /\ Publishing(c)' \subseteq Publishing(c)
    BY <1>0, <1>9, <2>2 DEF Replay, Live, Publishing, TypeOK
  <2>4. QED
    BY <1>0, <1>9, <2>1, <2>3, ExtraBound DEF Replay, Extra
<1>10. ASSUME NEW j \in Job, NEW i \in Job, ReplayUnacked(j, i) PROVE Bound(c)'
  <2>1. key[j] \in Key /\ key[j].cve \in Cve
    BY <1>0, <1>10, UnackedKey DEF ReplayUnacked
  <2>2. ReplayKey(key[j], replays + 1).cve = key[j].cve
    BY <2>1 DEF ReplayKey, Key
  <2>3. /\ Live(c)' \subseteq (IF c = key[j].cve THEN Live(c) \cup {i} ELSE Live(c))
        /\ Publishing(c)' \subseteq Publishing(c)
    BY <1>0, <1>10, <2>2 DEF ReplayUnacked, Send, Live, Publishing, TypeOK
  <2>4. QED
    BY <1>0, <1>10, <2>1, <2>3, ExtraBound DEF ReplayUnacked, Extra
<1>11. ASSUME NEW j \in Job, ClearDeadLetter(j) PROVE Bound(c)'
  <2>1. Live(c)' \subseteq Live(c)
    BY <1>0, <1>11 DEF ClearDeadLetter, Drop, Live, TypeOK
  <2>2. QED
    BY <1>1, <1>11, <2>1 DEF ClearDeadLetter
<1>12. QED
  BY <1>2, <1>3, <1>4, <1>5, <1>6, <1>7, <1>8, <1>9, <1>10, <1>11 DEF Operate

(* The number of jobs under way for a CVE never exceeds its claim plus what *)
(* was published without one, left behind by a lapsed claim, or doubled by  *)
(* a crash inside a retry.                                                  *)
THEOREM DuplicatesBounded == Spec => []StormBound
<1>1. Init => StormBound
  <2>1. SUFFICES ASSUME Init, NEW c \in Cve PROVE Bound(c)
    BY DEF StormBound, Bound, Bit
  <2>2. Live(c) = {} /\ Publishing(c) = {} /\ owing[c] = 0 /\ extra[c] = 0 /\ c \notin claim
    BY <2>1 DEF Init, Live, Publishing
  <2>3. QED
    BY <2>2, FS_EmptySet DEF Bound, Bit, Outstanding
<1>2. Inv /\ Inv' /\ StormBound /\ [Next]_vars => StormBound'
  <2>1. SUFFICES ASSUME Inv, Inv', StormBound, [Next]_vars, NEW c \in Cve PROVE Bound(c)'
    BY DEF StormBound, Bound, Bit
  <2>2. Bound(c)
    BY <2>1 DEF StormBound, Bound, Bit
  <2>3. CASE UNCHANGED vars
    BY <2>2, <2>3 DEF vars, Bound, Bit, Outstanding, Live, Publishing
  <2>4. CASE Next
    BY <2>1, <2>2, <2>4, PublishBound, HandleBound, OtherBound DEF Next
  <2>5. QED
    BY <2>1, <2>3, <2>4
<1>3. QED
  BY <1>1, <1>2, AlwaysInv, PTL DEF Spec

-----------------------------------------------------------------------------
(* Dropped duplicates are covered, as long as the worker does not die and  *)
(* gives back the keys of failed work: then a key that is there belongs to *)
(* a handler at work, or to a CVE that has a row.                          *)

HasRow(c) == latest[c] # "none"
HasRowNext(c) == latest'[c] # "none"
Early == {"window", "mature", "insert"}
Late == {"upgrade", "remember", "ack"}

KeyCovered == \A k \in keys : (\E i \in Job : own[i] /\ key[i] = k) \/ HasRow(k.cve)
OwnsLate == \A j \in Job : own[j] => pc[j] \notin Early
LateHasRow == \A j \in Job : pc[j] \in Late => HasRow(key[j].cve)
CachedHasRow == \A c \in cached : HasRow(c)
Covered == KeyCovered /\ OwnsLate /\ LateHasRow /\ CachedHasRow

(* What a step may do: no row is lost, a key is new only with its handler, *)
(* and each handler keeps its key, or leaves a row or no key behind.       *)
RowsStay == \A c \in Cve : HasRow(c) => HasRowNext(c)
Keeps(i) ==
  /\ own'[i] => pc'[i] \notin Early
  /\ pc'[i] \in Late => \/ pc[i] \in Late /\ key'[i] = key[i]
                        \/ HasRowNext(key'[i].cve)
  /\ own[i] /\ key[i] \in keys' => \/ own'[i] /\ key'[i] = key[i]
                                   \/ HasRowNext(key[i].cve)

LEMMA KeepsCovered ==
  ASSUME Inv, Covered, RowsStay, \A i \in Job : Keeps(i),
         \A k \in keys' \ keys : \E i \in Job : own'[i] /\ key'[i] = k,
         \A c \in cached' \ cached : HasRowNext(c)
  PROVE  Covered'
<1>1. KeyCovered'
  <2> SUFFICES ASSUME NEW k \in keys'
               PROVE (\E i \in Job : own'[i] /\ key'[i] = k) \/ HasRowNext(k.cve)
    BY DEF KeyCovered, HasRow, HasRowNext
  <2>1. CASE k \notin keys
    BY <2>1
  <2>2. CASE k \in keys /\ HasRow(k.cve)
    BY <2>2 DEF RowsStay, Inv, TypeOK, Key
  <2>3. CASE k \in keys /\ ~HasRow(k.cve)
    <3>1. PICK i \in Job : own[i] /\ key[i] = k
      BY <2>3 DEF Covered, KeyCovered
    <3>2. QED
      BY <3>1 DEF Keeps
  <2>4. QED
    BY <2>1, <2>2, <2>3
<1>2. OwnsLate'
  BY DEF Keeps, OwnsLate
<1>3. LateHasRow'
  <2> SUFFICES ASSUME NEW i \in Job, pc'[i] \in Late PROVE HasRowNext(key'[i].cve)
    BY DEF LateHasRow, HasRow, HasRowNext
  <2>1. pc[i] \in Late => key[i].cve \in Cve
    BY UnackedKey DEF Inv, TypeOK, Late
  <2>2. QED
    BY <2>1 DEF Keeps, RowsStay, Covered, LateHasRow
<1>4. CachedHasRow'
  <2> SUFFICES ASSUME NEW c \in cached' PROVE HasRowNext(c)
    BY DEF CachedHasRow, HasRow, HasRowNext
  <2>1. QED
    BY DEF RowsStay, Covered, CachedHasRow, Inv, TypeOK
<1>5. QED
  BY <1>1, <1>2, <1>3, <1>4 DEF Covered

(* Steps that leave rows, keys and handlers alone. *)
LEMMA AsideCovered ==
  ASSUME Inv, Covered, UNCHANGED <<keys, latest, cached, pc, own>>,
         \A i \in Job : own[i] \/ pc[i] \in Late => key'[i] = key[i]
  PROVE  Covered'
<1>1. RowsStay /\ \A i \in Job : Keeps(i)
  BY DEF RowsStay, HasRow, HasRowNext, Keeps, Covered, OwnsLate
<1>2. QED
  BY <1>1, KeepsCovered

(* A message that is sent has no handler. *)
LEMMA SendAside ==
  ASSUME Inv, NEW i \in Job, NEW k, Send(i, k), UNCHANGED <<keys, latest, cached, pc, own>>
  PROVE  Covered => Covered'
<1>1. ~own[i] /\ pc[i] = "idle" /\ \A l \in Job \ {i} : key'[l] = key[l]
  BY DEF Send, Free, Inv, TypeOK, OwnerHasKey
<1>2. \A l \in Job : own[l] \/ pc[l] \in Late => key'[l] = key[l]
  BY <1>1 DEF Late
<1>3. QED
  BY <1>2, AsideCovered

LEMMA PublishCovered ==
  ASSUME Inv, Covered, NEW p \in Producer, Publish(p)
  PROVE  Covered'
<1> USE DEF dbVars, producerVars, messageVars, clockVars
<1>1. UNCHANGED <<keys, latest, cached, pc, own>>
  BY DEF Publish, SweepSelect, FanoutSelect, DigestSelect, ClaimItem, Backpressure,
     PublishItem, PublishDigest, ProducerAbort
<1>2. key' = key \/ \E i \in Job : \E k : Send(i, k)
  BY DEF Publish, SweepSelect, FanoutSelect, DigestSelect, ClaimItem, Backpressure,
     PublishItem, PublishDigest, ProducerAbort
<1>3. QED
  BY <1>1, <1>2, AsideCovered, SendAside

(* A handler that only moves on, and what it needs to come to its end. *)
LEMMA MoveCovered ==
  ASSUME Inv, Covered, NEW j \in Job, NEW step \in Pcs \ Early, Step(j, step),
         UNCHANGED <<keys, key, own>>, RowsStay,
         step \in Late => HasRowNext(key[j].cve),
         \A c \in cached' \ cached : HasRowNext(c)
  PROVE  Covered'
<1>1. pc' = [i \in Job |-> IF i = j THEN step ELSE pc[i]]
  BY DEF Step, Inv, TypeOK
<1>2. \A i \in Job : Keeps(i)
  BY <1>1 DEF Keeps, Covered, OwnsLate
<1>3. QED
  BY <1>2, KeepsCovered

(* A message that is dropped leaves a row, or no key. *)
LEMMA DropCovered ==
  ASSUME Inv, Covered, NEW j \in Job, Drop(j), UNCHANGED <<keys, latest, cached>>,
         own[j] => HasRow(key[j].cve)
  PROVE  Covered'
<1>1. /\ pc' = [i \in Job |-> IF i = j THEN "idle" ELSE pc[i]]
      /\ own' = [i \in Job |-> IF i = j THEN FALSE ELSE own[i]]
      /\ \A i \in Job \ {j} : key'[i] = key[i]
  BY DEF Drop, Inv, TypeOK
<1>2. RowsStay
  BY DEF RowsStay, HasRow, HasRowNext
<1>3. \A i \in Job : Keeps(i)
  BY <1>1 DEF Keeps, Covered, OwnsLate, Early, Late, HasRow, HasRowNext
<1>4. QED
  BY <1>2, <1>3, KeepsCovered

(* A row for c. *)
LEMMA RowWritten ==
  ASSUME Inv, NEW c \in Cve, NEW w \in {"stub", "mature"}, latest' = [latest EXCEPT ![c] = w]
  PROVE  RowsStay /\ HasRowNext(c)
  BY DEF RowsStay, HasRow, HasRowNext, Inv, TypeOK

LEMMA HandleCovered ==
  ASSUME Inv, Covered, NEW j \in Job, Handle(j), "keyDeleteFails" \notin Faults
  PROVE  Covered'
<1> USE DEF dbVars, producerVars, messageVars, clockVars
<1>0. ASSUME UNCHANGED latest PROVE RowsStay
  BY <1>0 DEF RowsStay, HasRow, HasRowNext
<1>1. ASSUME CheckWindow(j) \/ CheckMature(j) \/ InsertKey(j) PROVE ~own[j]
  BY <1>1 DEF CheckWindow, CheckMature, InsertKey, At, Covered, OwnsLate, Early
<1>2. CASE CheckWindow(j)
  <2>1. CASE AckThenRelease(j)
    BY <1>1, <1>2, <2>1, DropCovered DEF CheckWindow, AckThenRelease
  <2>2. CASE Step(j, "mature") /\ UNCHANGED <<place, key, own, owing>>
    <3>1. pc' = [i \in Job |-> IF i = j THEN "mature" ELSE pc[i]]
      BY <2>2 DEF Step, Inv, TypeOK
    <3>2. \A i \in Job : Keeps(i)
      BY <1>1, <1>2, <2>2, <3>1 DEF Keeps, Covered, OwnsLate, Late
    <3>3. QED
      BY <1>0, <1>2, <2>2, <3>2, KeepsCovered DEF CheckWindow
  <2>3. QED
    BY <1>2, <2>1, <2>2 DEF CheckWindow
<1>3. CASE CheckMature(j)
  <2>1. CASE AckThenRelease(j)
    BY <1>1, <1>3, <2>1, DropCovered DEF CheckMature, AckThenRelease
  <2>2. CASE Step(j, "insert") /\ UNCHANGED <<place, key, own, owing>>
    <3>1. pc' = [i \in Job |-> IF i = j THEN "insert" ELSE pc[i]]
      BY <2>2 DEF Step, Inv, TypeOK
    <3>2. \A i \in Job : Keeps(i)
      BY <1>1, <1>3, <2>2, <3>1 DEF Keeps, Covered, OwnsLate, Late
    <3>3. QED
      BY <1>0, <1>3, <2>2, <3>2, KeepsCovered DEF CheckMature
  <2>3. QED
    BY <1>3, <2>1, <2>2 DEF CheckMature
<1>4. CASE InsertKey(j)
  <2>1. CASE Drop(j) /\ UNCHANGED keys
    BY <1>1, <1>4, <2>1, DropCovered DEF InsertKey
  <2>2. CASE /\ keys' = keys \cup {key[j]}
             /\ own' = [own EXCEPT ![j] = TRUE]
             /\ Step(j, "cache")
             /\ UNCHANGED <<place, key>>
    <3>1. /\ pc' = [i \in Job |-> IF i = j THEN "cache" ELSE pc[i]]
          /\ own' = [i \in Job |-> IF i = j THEN TRUE ELSE own[i]]
      BY <2>2 DEF Step, Inv, TypeOK
    <3>2. \A i \in Job : Keeps(i)
      BY <1>1, <1>4, <2>2, <3>1 DEF Keeps, Covered, OwnsLate, Early, Late
    <3>3. \A k \in keys' \ keys : \E i \in Job : own'[i] /\ key'[i] = k
      BY <2>2, <3>1
    <3>4. QED
      BY <1>0, <1>4, <3>2, <3>3, KeepsCovered DEF InsertKey
  <2>3. QED
    BY <1>4, <2>1, <2>2 DEF InsertKey
<1>5. CASE CheckCache(j)
  <2>1. CASE key[j].cve \in cached
    BY <1>5, <2>1, DropCovered DEF CheckCache, AckThenRelease, Covered, CachedHasRow
  <2>2. CASE key[j].cve \notin cached
    BY <1>0, <1>5, <2>2, MoveCovered DEF CheckCache, Pcs, Early, Late
  <2>3. QED
    BY <2>1, <2>2
<1>6. CASE Generate(j) \/ Upgrade(j)
  <2>1. PICK step \in {"remember", "upgrade", "ack"} : Step(j, step)
    BY <1>6 DEF Generate, Upgrade
  <2>2. key[j].cve \in Cve
    BY <1>6, UnackedKey DEF Generate, Upgrade, At, Inv
  <2>3. RowsStay /\ HasRowNext(key[j].cve)
    BY <1>6, <2>2, RowWritten DEF Generate, Upgrade, PersistMature
  <2>4. QED
    BY <1>6, <2>1, <2>3, MoveCovered DEF Generate, Upgrade, Pcs, Early
<1>7. CASE GenerateStub(j)
  <2>1. key[j].cve \in Cve
    BY <1>7, UnackedKey DEF GenerateStub, At, Inv
  <2>2. RowsStay /\ HasRowNext(key[j].cve)
    BY <1>7, <2>1, RowWritten DEF GenerateStub
  <2>3. QED
    BY <1>7, <2>2, MoveCovered DEF GenerateStub, Pcs, Early
<1>8. CASE Remember(j)
  <2>1. HasRow(key[j].cve)
    BY <1>8 DEF Remember, At, Covered, LateHasRow, Late
  <2>2. HasRowNext(key[j].cve)
    BY <1>8, <2>1 DEF Remember, HasRow, HasRowNext
  <2>3. QED
    BY <1>0, <1>8, <2>2, MoveCovered DEF Remember, Pcs, Early
<1>9. CASE Ack(j)
  <2>1. HasRow(key[j].cve)
    BY <1>9 DEF Ack, At, Covered, LateHasRow, Late
  <2>2. QED
    BY <1>9, <2>1, DropCovered DEF Ack, AckThenRelease
<1>10. CASE CleanUp(j)
  <2>1. keys' = IF own[j] THEN keys \ {key[j]} ELSE keys
    BY <1>10 DEF CleanUp, CatchBlock, Fault
  <2>2. PICK step \in {"backoff", "reject"} : Step(j, step)
    BY <1>10 DEF CleanUp, CatchBlock
  <2>3. /\ pc' = [i \in Job |-> IF i = j THEN step ELSE pc[i]]
        /\ own' = [i \in Job |-> IF i = j THEN FALSE ELSE own[i]]
        /\ key' = key
    BY <1>10, <2>2 DEF CleanUp, CatchBlock, Step, Inv, TypeOK
  <2>4. \A i \in Job : Keeps(i)
    BY <2>1, <2>2, <2>3 DEF Keeps, Covered, OwnsLate, Early, Late
  <2>5. RowsStay /\ keys' \subseteq keys /\ cached' = cached
    BY <1>0, <1>10, <2>1 DEF CleanUp, CatchBlock
  <2>6. QED
    BY <2>4, <2>5, KeepsCovered
<1>11. ASSUME NEW i \in Job, PublishRetry(j, i) PROVE Covered'
  <2>1. ~own[j] /\ ~own[i] /\ pc[i] = "idle" /\ i # j
    BY <1>11 DEF PublishRetry, Send, Free, At, Inv, TypeOK, OwnerHasKey
  <2>2. /\ pc' = [l \in Job |-> IF l = j THEN "handoff" ELSE pc[l]]
        /\ \A l \in Job \ {i} : key'[l] = key[l]
        /\ UNCHANGED <<own, keys, latest, cached>>
    BY <1>11 DEF PublishRetry, Send, Step, Inv, TypeOK
  <2>3. \A l \in Job : Keeps(l)
    BY <2>1, <2>2 DEF Keeps, Covered, OwnsLate, Late
  <2>4. QED
    BY <1>0, <2>2, <2>3, KeepsCovered
<1>12. CASE AckRetried(j)
  <2>1. ~own[j]
    BY <1>12 DEF AckRetried, At, Inv, OwnerHasKey
  <2>2. QED
    BY <1>12, <2>1, DropCovered DEF AckRetried
<1>13. CASE Reject(j)
  BY <1>0, <1>13, MoveCovered DEF Reject, Pcs, Early, Late
<1>14. QED
  BY <1>2, <1>3, <1>4, <1>5, <1>6, <1>7, <1>8, <1>9, <1>10, <1>11, <1>12, <1>13 DEF Handle

LEMMA OtherCovered ==
  ASSUME Inv, Covered, "workerCrash" \notin Faults,
         \/ \E j \in Job : Deliver(j) \/ Operate(j)
         \/ \E j \in Job, f \in FaultKinds : Throw(j, f)
         \/ \E c \in Cve : Release(c) \/ ExpireClaim(c) \/ Cool(c)
         \/ WorkerCrash
         \/ Tick
  PROVE  Covered'
<1> USE DEF dbVars, producerVars, messageVars, clockVars
<1>1. ASSUME NEW j \in Job, Deliver(j) PROVE Covered'
  <2>1. pc' = [i \in Job |-> IF i = j THEN "window" ELSE pc[i]] /\ ~own[j]
    BY <1>1 DEF Deliver, Step, Inv, TypeOK, OwnerHasKey
  <2>2. RowsStay /\ \A i \in Job : Keeps(i)
    BY <1>1, <2>1 DEF Deliver, RowsStay, HasRow, HasRowNext, Keeps, Covered, OwnsLate, Late
  <2>3. QED
    BY <1>1, <2>2, KeepsCovered DEF Deliver
<1>2. ASSUME NEW j \in Job, NEW f \in FaultKinds, Throw(j, f) PROVE Covered'
  <2>1. RowsStay
    BY <1>2 DEF Throw, RowsStay, HasRow, HasRowNext
  <2>2. QED
    BY <1>2, <2>1, MoveCovered DEF Throw, Pcs, Early, Late
<1>3. ASSUME NEW c \in Cve, Release(c) \/ ExpireClaim(c) \/ Cool(c) PROVE Covered'
  <2>1. UNCHANGED <<keys, latest, cached, pc, own, key>>
    BY <1>3 DEF Release, ExpireClaim, Cool
  <2>2. QED
    BY <2>1, AsideCovered
<1>4. ~WorkerCrash
  BY DEF WorkerCrash, Fault
<1>5. CASE Tick
  BY <1>5, AsideCovered DEF Tick
<1>6. ASSUME NEW j \in Job, Replay(j) PROVE Covered'
  <2>1. ~own[j] /\ pc[j] = "idle" /\ \A l \in Job \ {j} : key'[l] = key[l]
    BY <1>6 DEF Replay, Inv, TypeOK, OwnerHasKey
  <2>2. \A l \in Job : own[l] \/ pc[l] \in Late => key'[l] = key[l]
    BY <2>1 DEF Late
  <2>3. QED
    BY <1>6, <2>2, AsideCovered DEF Replay
<1>7. ASSUME NEW j \in Job, NEW i \in Job, ReplayUnacked(j, i) PROVE Covered'
  BY <1>7, SendAside DEF ReplayUnacked
<1>8. ASSUME NEW j \in Job, ClearDeadLetter(j) PROVE Covered'
  <2>1. ~own[j]
    BY <1>8 DEF ClearDeadLetter, Inv, OwnerHasKey
  <2>2. QED
    BY <1>8, <2>1, DropCovered DEF ClearDeadLetter
<1>9. QED
  BY <1>1, <1>2, <1>3, <1>4, <1>5, <1>6, <1>7, <1>8 DEF Operate

(* While the worker does not die and gives back the keys of failed work,   *)
(* no duplicate is dropped before another copy of it has written a row or  *)
(* is at work on one.                                                      *)
THEOREM DropsCovered ==
  ASSUME Faults \cap {"workerCrash", "keyDeleteFails"} = {}
  PROVE  Spec => []DuplicateIsCovered
<1>1. Init => Covered
  BY DEF Init, Covered, KeyCovered, OwnsLate, LateHasRow, CachedHasRow, Late
<1>2. Inv /\ Covered /\ [Next]_vars => Covered'
  <2>1. ASSUME Inv, Covered, UNCHANGED vars PROVE Covered'
    BY <2>1, AsideCovered DEF vars
  <2>2. ASSUME Inv, Covered, Next PROVE Covered'
    BY <2>2, PublishCovered, HandleCovered, OtherCovered DEF Next
  <2>3. QED
    BY <2>1, <2>2
<1>3. Covered => DuplicateIsCovered
  BY DEF Covered, KeyCovered, HasRow, DuplicateIsCovered
<1>4. QED
  BY <1>1, <1>2, <1>3, AlwaysInv, PTL DEF Spec

=============================================================================
