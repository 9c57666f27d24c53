------------------------- MODULE TailSamplingProofs -------------------------
(***************************************************************************)
(* Proofs about TailSampling, for any number of traces, payloads, batches, *)
(* policies and updates, and for every configuration: every action keeps   *)
(* the invariant IInv of TailSamplingTraces, and what the processor        *)
(* promises follows from it.                                               *)
(***************************************************************************)
EXTENDS TailSamplingTraces, FiniteSetTheorems

\* The leaves are first-order, except for those that cite SMT.
USE ZenonT(30)

-----------------------------------------------------------------------------
(* The next spans *)

\* What the lemmas about the parts of a step ask for.
LEMMA IInvFacts ==
  ASSUME IInv
  PROVE  /\ Sound /\ ShardInv(shard, deciding, Passed) /\ cfg \in Configs
         /\ cfg.block \in BOOLEAN /\ cfg.fallible \in BOOLEAN
         /\ IsShard(shard) /\ \A x \in Traces : TraceInv(shard, x, deciding, Passed)
<1>1. IsShard(shard) /\ cfg \in Configs
  BY DEF IInv, TypeOK, IsShard, Held
<1>. QED BY <1>1, CfgFacts DEF IInv, Sound, ShardInv, TraceInv

\* A shard that holds fewer traces is within the limit.
LEMMA SmallerFits ==
  ASSUME NEW s, NEW t, SizeInv(s), DOMAIN t.traces \subseteq DOMAIN s.traces
  PROVE  SizeInv(t)
<1>1. /\ IsFiniteSet(DOMAIN s.traces) /\ IsFiniteSet(DOMAIN t.traces)
      /\ Cardinality(DOMAIN t.traces) <= Cardinality(DOMAIN s.traces)
  BY FS_Subset DEF SizeInv
<1>2. Cardinality(DOMAIN s.traces) \in Nat /\ Cardinality(DOMAIN t.traces) \in Nat /\ NumTraces \in Nat
  BY <1>1, FS_CardinalityType, SamplingAssumption
<1>. QED BY <1>1, <1>2, SMTT(30) DEF SizeInv

\* The next spans of the payload in hand, whether the decision on their trace is
\* remembered, the trace is held, or there is room or not.
LEMMA ProcessNextStep ==
  ASSUME IInv, ProcessNext
  PROVE  /\ ShardInv(shard', {}, Passed) /\ Moved({Head(work)}) /\ shard'.left = -1
         /\ SizeInv(shard')
<1>. DEFINE b == Head(work)
            id == TraceOf[b]
<1>0. /\ Sound /\ ShardInv(shard, {}, Passed) /\ cfg \in Configs /\ IsShard(shard)
      /\ cfg.block \in BOOLEAN /\ cfg.fallible \in BOOLEAN /\ SizeInv(shard)
      /\ \A x \in Traces : TraceInv(shard, x, {}, Passed)
  <2>1. deciding = {}
    BY DEF ProcessNext
  <2>. QED BY <2>1, IInvFacts DEF IInv
<1>1. shard.left = -1
  BY DEF IInv, PhaseInv, ProcessNext
<1>2. b \in Spans /\ fate[b] = "none" /\ id \in Traces
  <2>1. work \in Seq(Spans) /\ work # <<>>
    BY DEF IInv, TypeOK, ProcessNext
  <2>2. b \in Spans /\ b \in Range(work)
    BY <2>1, TailFacts, SMTT(30)
  <2>. QED BY <2>2, SamplingAssumption DEF IInv, WorkInv
<1>3. CASE processCachedTrace(b)
  <2>1. /\ ShardInv(shard', {}, Passed) /\ Moved({b}) /\ shard'.left = shard.left
        /\ DOMAIN shard'.traces = DOMAIN shard.traces
    BY <1>0, <1>2, <1>3, CachedStep
  <2>. QED BY <1>0, <1>1, <2>1, SmallerFits
<1>4. CASE /\ ~Cached(shard, id) /\ (cfg.block => ~Full(shard, id))
           /\ \E s \in IF ~Full(shard, id) THEN {shard}
                       ELSE { waitForSpace(shard, fails) : fails \in Failing({"delete"}) } :
                \E t \in {Received(s, b)} : processTrace(t, b)
  <2>1. PICK s \in IF ~Full(shard, id) THEN {shard}
                   ELSE { waitForSpace(shard, fails) : fails \in Failing({"delete"}) } :
          processTrace(Received(s, b), b)
    BY <1>4
  <2>. DEFINE t == Received(s, b)
  <2>. HIDE DEF id
  <2>2. /\ ShardInv(s, {}, Passed) /\ s.left = -1 /\ ~Cached(s, id)
        /\ DOMAIN s.traces \subseteq DOMAIN shard.traces
        /\ \A x \in Traces : s.storage[x] \subseteq shard.storage[x]
        /\ id \in DOMAIN shard.traces => s = shard
    <3>1. CASE ~Full(shard, id)
      <4>1. s = shard
        BY <2>1, <3>1
      <4>. QED BY <1>0, <1>1, <1>4, <4>1
    <3>2. CASE Full(shard, id)
      <4>1. PICK fails \in Failing({"delete"}) : s = waitForSpace(shard, fails)
        BY <2>1, <3>2
      <4>2. ~cfg.fallible => fails = {}
        BY <1>0, FailFacts
      <4>3. ~cfg.block /\ (~cfg.fallible => "delete" \notin fails)
        BY <1>4, <3>2, <4>2
      <4>4. ShardInv(s, {}, Passed) /\ Waited(shard, s)
        BY <1>0, <4>1, <4>3, WaitOutcome
      <4>5. id \notin DOMAIN shard.traces
        BY <3>2 DEF Full
      <4>. QED BY <1>1, <1>4, <4>4, <4>5 DEF Waited, Cached
    <3>. QED BY <3>1, <3>2
  <2>. HIDE DEF t
  <2>3. Arriving(t, id, Passed) /\ Came(s, t, id)
    BY <1>0, <1>2, <2>2, ReceiveOutcome DEF t, id
  <2>4. t.traces[id].decision = Known(shard, id)
    <3>1. CASE id \in DOMAIN shard.traces
      BY <1>4, <2>2, <2>3, <3>1 DEF Came, Known, Cached
    <3>2. CASE id \notin DOMAIN shard.traces
      BY <1>4, <2>2, <2>3, <3>2 DEF Came, Known, Cached
    <3>. QED BY <3>1, <3>2
  <2>5. Entered(t, b, id)
    BY <1>0, <1>2, <2>2, <2>3, <2>4 DEF Entered, Came, id
  <2>6. /\ ShardInv(shard', {}, Passed) /\ Moved({b}) /\ shard'.left = t.left
        /\ DOMAIN shard'.traces \subseteq DOMAIN t.traces
    BY <2>1, <2>5, ProcessStep DEF t
  <2>7. SizeInv(t)
    <3>. DEFINE H == DOMAIN shard.traces
                S == DOMAIN s.traces
    <3>1. DOMAIN t.traces = S \cup {id} /\ S \subseteq H
      BY <2>2, <2>3 DEF Came
    <3>2. /\ IsFiniteSet(H) /\ ((cfg.fallible /\ ~cfg.block) \/ Cardinality(H) <= NumTraces)
      BY <1>0 DEF SizeInv
    <3>3. CASE cfg.fallible /\ ~cfg.block
      <4>1. IsFiniteSet(S)
        BY <3>1, <3>2, FS_Subset
      <4>2. IsFiniteSet(S \cup {id})
        BY <4>1, FS_AddElement
      <4>. QED BY <3>1, <3>3, <4>2 DEF SizeInv
    <3>4. CASE ~(cfg.fallible /\ ~cfg.block) /\ ~Full(shard, id)
      <4>1. s = shard
        BY <2>1, <3>4
      <4>. HIDE DEF H
      <4>2. IsFiniteSet(H \cup {id}) /\ Cardinality(H \cup {id}) <= NumTraces
        <5>1. Cardinality(H) \in Nat /\ NumTraces \in Nat
          BY <3>2, FS_CardinalityType, SamplingAssumption
        <5>2. /\ IsFiniteSet(H \cup {id})
              /\ Cardinality(H \cup {id}) = IF id \in H THEN Cardinality(H) ELSE Cardinality(H) + 1
          BY <3>2, FS_AddElement
        <5>3. id \in H \/ ~(Cardinality(H) >= NumTraces)
          BY <3>4 DEF Full, H
        <5>. QED BY <3>2, <3>4, <5>1, <5>2, <5>3, SMTT(30)
      <4>. QED BY <3>1, <4>1, <4>2 DEF SizeInv, H
    <3>5. CASE ~(cfg.fallible /\ ~cfg.block) /\ Full(shard, id)
      <4>1. PICK fails \in Failing({"delete"}) : s = waitForSpace(shard, fails)
        BY <2>1, <3>5
      <4>2. ~cfg.block /\ ~cfg.fallible
        BY <1>4, <3>5
      <4>3. "delete" \notin fails
        <5>1. fails = {}
          BY <1>0, <4>2, FailFacts
        <5>. QED BY <5>1
      <4>4. Waited(shard, s)
        BY <1>0, <4>1, <4>2, <4>3, WaitOutcome
      <4>5. Cardinality(H) >= NumTraces /\ Cardinality(H) \in Nat /\ NumTraces \in Nat \ {0} /\ id \notin H
        BY <3>2, <3>5, FS_CardinalityType, SamplingAssumption DEF Full
      <4>6. H # {}
        BY <4>5, FS_EmptySet, SMTT(30)
      <4>7. PICK y \in H : S = H \ {y}
        BY <4>2, <4>4, <4>6 DEF Waited
      <4>. HIDE DEF H, S
      <4>8. IsFiniteSet(S) /\ Cardinality(S) = Cardinality(H) - 1
        BY <3>2, <4>7, FS_RemoveElement
      <4>9. /\ IsFiniteSet(S \cup {id})
            /\ Cardinality(S \cup {id}) = Cardinality(S) + 1
        BY <3>1, <4>5, <4>8, FS_AddElement
      <4>10. Cardinality(S \cup {id}) <= NumTraces
        BY <3>2, <4>2, <4>5, <4>8, <4>9, SMTT(30)
      <4>. QED BY <3>1, <4>9, <4>10 DEF SizeInv
    <3>. QED BY <3>3, <3>4, <3>5
  <2>8. t.left = -1
    BY <2>3 DEF Arriving
  <2>. QED BY <2>6, <2>7, <2>8, SmallerFits
<1>5. CASE pc = "wait" /\ ~Blocked /\ \E t \in {Received(shard, b)} : processTrace(t, b)
  <2>1. ~Cached(shard, id)
    BY <1>5 DEF IInv, WaitInv
  <2>2. ~Full(shard, id)
    BY <1>5 DEF Blocked, Full, Held
  <2>. QED BY <1>4, <1>5, <2>1, <2>2
<1>. QED BY <1>3, <1>4, <1>5 DEF ProcessNext

-----------------------------------------------------------------------------
(* Decisions *)

\* A step that leaves the storage and the fates alone.
LEMMA StayMoved ==
  ASSUME Sound, shard'.storage = shard.storage, fate' = fate
  PROVE  Moved({})
<1>1. fate \in [Spans -> {"none", "stored", "forwarded", "gone"}]
  BY DEF Sound, TypeOK
<1>2. FateInv'
  BY DEF Sound, FateInv
<1>3. FollowStep
  BY DEF FollowStep
<1>. QED BY <1>1, <1>2, <1>3 DEF Moved

\* Settling a trace in two parts.
LEMMA SettledTwice ==
  ASSUME NEW s, NEW t, NEW u, NEW id, Settled(s, t, id), Settled(t, u, id)
  PROVE  Settled(s, u, id)
<1>1. \A x \in Traces \ {id} : Same(s, u, x)
  BY SameTwice DEF Settled
<1>. QED BY <1>1 DEF Settled

\* The decision on a trace of the batch in hand, pending traces included, keeps
\* the invariant of the shard.
LEMMA DecideStep ==
  ASSUME IInv, NEW id \in Traces, Decide(id)
  PROVE  /\ ShardInv(shard', deciding', Passed) /\ Moved({}) /\ SizeInv(shard')
         /\ shard'.left = shard.left /\ shard'.current = shard.current
         /\ Held' \subseteq Held /\ \A x \in Traces \ Held : Cached(shard', x) => Cached(shard, x)
<1>. DEFINE E == deciding \ {id}
<1>0. /\ Sound /\ ShardInv(shard, deciding, Passed) /\ cfg \in Configs /\ IsShard(shard)
      /\ QueueInv(shard) /\ SizeInv(shard) /\ applied \in Versions
      /\ \A x \in Traces : TraceInv(shard, x, deciding, Passed)
  BY IInvFacts DEF IInv, TypeOK
<1>1. id \in deciding /\ deciding' = E
  BY DEF Decide
<1>2. TraceInv(shard, id, deciding, Passed) /\ Others(shard, id, deciding, Passed) /\ Fresher(id, {})
  BY <1>0 DEF Others, Fresher
<1>3. id \in Pending <=> Open(shard, id)
  BY DEF Pending, Open, Held
<1>4. ASSUME id \in Pending PROVE Ready(shard, id, deciding)
  <2>1. Strict => Unbatched(shard, id)
    BY <1>1, <1>2 DEF TraceInv, OnceInv, Unbatched
  <2>2. Known(shard, id) = "none"
    BY <1>2, <1>3, <1>4 DEF Open, Known, TraceInv, RememberInv, Cached
  <2>3. id \in DOMAIN shard.traces /\ RememberInv(shard, id) /\ SpanInv(shard, id)
    BY <1>2, <1>3, <1>4 DEF TraceInv, Open
  <2>. QED BY <1>0, <1>2, <2>1, <2>2, <2>3 DEF Ready
<1>5. ASSUME UNCHANGED <<shard, fate>>, Open(shard, id) => ~FindsSpans
      PROVE  Ends(shard, E, {})
  <2>1. shard' = shard /\ Moved({})
    BY <1>0, <1>5, StayMoved
  <2>2. TraceInv(shard, id, E, Passed)
    BY <1>2, <1>5 DEF TraceInv, BatchInv, OnceInv
  <2>3. ASSUME NEW x \in Traces, x # id PROVE TraceInv(shard, x, E, Passed)
    <3>1. TraceInv(shard, x, deciding, Passed) /\ (x \in deciding <=> x \in E) /\ Same(shard, shard, x)
      BY <1>0, <2>3, SameSelf
    <3>. QED BY <1>0, <3>1, SameKeeps
  <2>4. ShardInv(shard, E, Passed)
    BY <1>0, <2>2, <2>3 DEF ShardInv
  <2>. QED BY <2>1, <2>4 DEF Ends
<1>6. Ends(shard, E, {})
  <2>0. deciding \ {id} = E \ {id}
    OBVIOUS
  <2>1. CASE id \notin Pending /\ UNCHANGED <<shard, fate>>
    BY <1>3, <1>5, <2>1
  <2>2. CASE \E fails \in Failing({"delete"}) : id \in Pending /\
               Become(dropTrace(Release(shard, id, "not", fails), id, fails), {}, {})
    <3>1. PICK fails \in Failing({"delete"}) : id \in Pending /\
               Become(dropTrace(Release(shard, id, "not", fails), id, fails), {}, {})
      BY <2>2
    <3>. DEFINE v == Release(shard, id, "not", fails)
                u == dropTrace(v, id, fails)
    <3>2. ~cfg.fallible => "delete" \notin fails
      <4>1. ~cfg.fallible => fails = {}
        BY <1>0, FailFacts
      <4>. QED BY <4>1
    <3>3. Ready(shard, id, deciding) /\ id \in DOMAIN shard.traces /\ RememberInv(shard, id)
          /\ (\A b \in shard.storage[id] : TraceOf[b] = id) /\ "not" # "sampled"
          /\ "not" \in {"sampled", "not", "dropped"}
      BY <1>4, <3>1 DEF Ready, SpanInv
    <3>. HIDE DEF v
    <3>4. Settled(shard, v, id)
      BY <1>0, <3>2, <3>3, ReleaseOutcome DEF v
    <3>5. IsShard(v) /\ QueueInv(v) /\ RememberInv(v, id) /\ \A b \in v.storage[id] : TraceOf[b] = id
      BY <3>4 DEF Settled, SpanInv
    <3>6. Settled(shard, u, id)
      <4>1. CASE id \in DOMAIN v.traces
        BY <3>2, <3>4, <3>5, <4>1, DropOutcome, SettledTwice
      <4>2. CASE id \notin DOMAIN v.traces
        BY <3>4, <4>2 DEF dropTrace
      <4>. QED BY <4>1, <4>2
    <3>7. Become(u, {}, {})
      BY <3>1 DEF v
    <3>. HIDE DEF u
    <3>. QED BY <1>0, <1>2, <2>0, <3>3, <3>6, <3>7, SettleStep
  <2>3. CASE \E found \in readByTracePrefix(shard, id) : \E d \in Decisions :
               id \in Pending /\ ~cfg.ingest /\ Conclude(shard, id, found, d, {})
    <3>1. PICK found \in readByTracePrefix(shard, id), d \in Decisions :
               id \in Pending /\ ~cfg.ingest /\ Conclude(shard, id, found, d, {})
      BY <2>3
    <3>2. d \in {"sampled", "not", "dropped"}
      BY <1>0, <3>1, DecisionFacts
    <3>. HIDE DEF E
    <3>. QED BY <1>0, <1>2, <1>4, <2>0, <3>1, <3>2, ConcludeStep
  <2>4. CASE /\ {} \in readByTracePrefix(shard, id)
             /\ id \in Pending /\ ~cfg.ingest /\ UNCHANGED <<shard, fate>>
    <3>1. ~cfg.fallible => shard.storage[id] = {}
      BY <2>4 DEF readByTracePrefix
    <3>2. cfg.fallible
      BY <1>2, <1>3, <2>4, <3>1 DEF TraceInv, StoredInv
    <3>. QED BY <1>5, <2>4, <3>2 DEF FindsSpans
  <2>. QED BY <2>1, <2>2, <2>3, <2>4 DEF Decide
<1>. QED BY <1>0, <1>1, <1>6, SmallerFits DEF Ends, Held

-----------------------------------------------------------------------------
(* Ticks *)

\* The slot after a, modulo the size of the ring.
LEMMA NextSlot ==
  ASSUME NEW n \in Nat \ {0}, NEW a \in 0 .. n - 1
  PROVE  /\ (a + 1) % n \in 0 .. n - 1
         /\ a + 1 < n => (a + 1) % n = a + 1
         /\ ~(a + 1 < n) => (a + 1) % n = 0
<1>1. CASE a + 1 < n
  BY <1>1, SMTT(30)
<1>2. CASE ~(a + 1 < n)
  <2>1. a + 1 = n /\ n % n = 0
    BY <1>2, SMTT(30)
  <2>. QED BY <1>2, <2>1, SMTT(30)
<1>. QED BY <1>1, <1>2

\* After a tick each distance is one less.
LEMMA SlotsShift ==
  ASSUME NEW s, NEW t, s.take \in Slots, t.take = (s.take + 1) % NumBatches
  PROVE  /\ t.take \in Slots /\ SlotOf(s, 0) = s.take /\ SlotOf(t, NumBatches - 1) = s.take
         /\ \A r \in Slots : r + 1 \in Slots =>
              SlotOf(t, r) = SlotOf(s, r + 1) /\ SlotOf(s, r + 1) # s.take /\ SlotOf(s, r + 1) \in Slots
<1>. DEFINE a == s.take
            e == t.take
            N == NumBatches
<1>0. N \in Nat \ {0} /\ a \in 0 .. N - 1 /\ 0 \in Slots /\ N - 1 \in Slots
  BY SamplingAssumption, SMTT(30) DEF Slots
<1>1. e \in 0 .. N - 1 /\ (a + 1 < N => e = a + 1) /\ (~(a + 1 < N) => e = 0)
  BY <1>0, NextSlot
<1>2. t.take \in Slots
  BY <1>1 DEF Slots
<1>3. SlotOf(s, 0) = s.take
  <2>1. (s.take + 0 < NumBatches => SlotOf(s, 0) = s.take + 0)
    BY <1>0, SlotFacts
  <2>. QED BY <1>0, <2>1, SMTT(30)
<1>4. SlotOf(t, N - 1) = a
  <2>1. /\ e + (N - 1) < N => SlotOf(t, N - 1) = e + (N - 1)
        /\ ~(e + (N - 1) < N) => SlotOf(t, N - 1) = e + (N - 1) - N
    BY <1>0, <1>2, SlotFacts
  <2>. HIDE DEF a, e, N
  <2>. QED BY <1>0, <1>1, <2>1, SMTT(30)
<1>5. ASSUME NEW r \in Slots, r + 1 \in Slots
      PROVE  SlotOf(t, r) = SlotOf(s, r + 1) /\ SlotOf(s, r + 1) # a /\ SlotOf(s, r + 1) \in Slots
  <2>1. /\ e + r < N => SlotOf(t, r) = e + r
        /\ ~(e + r < N) => SlotOf(t, r) = e + r - N
        /\ a + (r + 1) < N => SlotOf(s, r + 1) = a + (r + 1)
        /\ ~(a + (r + 1) < N) => SlotOf(s, r + 1) = a + (r + 1) - N
        /\ SlotOf(s, r + 1) \in Slots
    BY <1>2, <1>5, SlotFacts
  <2>2. r \in 0 .. N - 2
    BY <1>0, <1>5, SMTT(30) DEF Slots
  <2>. HIDE DEF a, e, N
  <2>. QED BY <1>0, <1>1, <2>1, <2>2, SMTT(30)
<1>. QED BY <1>2, <1>3, <1>4, <1>5

\* Between s and t, the first batch was taken and there are more.
Ticked(s, t) ==
  /\ IsShard(t) /\ QueueInv(t) /\ DOMAIN t.traces = DOMAIN s.traces /\ t.storage = s.storage
  /\ \A x \in Traces : Kept(s, t, x)
  /\ \A x \in DOMAIN s.traces :
       /\ s.traces[x].due \in Nat => t.traces[x].due = s.traces[x].due - 1
       /\ s.traces[x].due = -1 => t.traces[x].due = -1
  /\ IF s.left = -1 THEN t.left = -1 ELSE t.left = s.left - 1

\* A tick before the batcher has run out: the fields it changes.
LEMMA TakeFields ==
  ASSUME NEW s, IsShard(s), QueueInv(s), s.left # 0, NEW t, t = CloseCurrentAndTakeFirstBatch(s)
  PROVE  /\ Ticked(s, t) /\ t.take = (s.take + 1) % NumBatches
         /\ t.current = (IF s.left = -1 THEN {} ELSE s.current)
         /\ \A i \in Slots : t.slots[i] = IF i = s.take /\ s.left = -1 THEN s.current ELSE s.slots[i]
<1>. DEFINE m == [ id \in DOMAIN s.traces |->
                     [s.traces[id] EXCEPT !.due = IF @ = -1 THEN -1 ELSE @ - 1] ]
            n == [s.slots EXCEPT ![s.take] = IF s.left = -1 THEN s.current ELSE @]
            c == IF s.left = -1 THEN {} ELSE s.current
            e == (s.take + 1) % NumBatches
            l == IF s.left = -1 THEN -1 ELSE s.left - 1
<1>0. /\ s.traces \in [DOMAIN s.traces -> TraceType] /\ DOMAIN s.traces \subseteq Traces
      /\ s.slots \in [Slots -> SUBSET Traces] /\ s.take \in Slots /\ s.current \subseteq Traces
      /\ s.left \in -1 .. NumBatches /\ NumBatches \in Nat \ {0}
  BY ShardFields, SamplingAssumption
<1>1. t = [s EXCEPT !.slots[s.take] = IF s.left = -1 THEN s.current ELSE @,
                    !.current = IF s.left = -1 THEN {} ELSE @, !.traces = m,
                    !.take = (@ + 1) % NumBatches, !.left = IF @ = -1 THEN -1 ELSE @ - 1]
  BY DEF CloseCurrentAndTakeFirstBatch, HasMore
<1>2. t = [s EXCEPT !.slots = n, !.current = c, !.traces = m, !.take = e, !.left = l]
  BY <1>0, <1>1
<1>3. /\ DOMAIN m = DOMAIN s.traces
      /\ \A x \in DOMAIN s.traces : /\ m[x] \in TraceType /\ m[x].decision = s.traces[x].decision
                                    /\ s.traces[x].due \in Nat => m[x].due = s.traces[x].due - 1
                                    /\ s.traces[x].due = -1 => m[x].due = -1
  BY <1>0, SMTT(30) DEF TraceType
<1>4. m \in [DOMAIN s.traces -> TraceType]
  BY <1>3
<1>5. /\ n \in [Slots -> SUBSET Traces]
      /\ \A i \in Slots : n[i] = IF i = s.take /\ s.left = -1 THEN s.current ELSE s.slots[i]
  BY <1>0
<1>6. c \subseteq Traces /\ l \in -1 .. NumBatches
  BY <1>0, SMTT(30)
<1>7. e \in Slots
  BY <1>0, NextSlot DEF Slots
<1>. HIDE DEF m, n, c, e, l
<1>8. /\ t.slots = n /\ t.current = c /\ t.traces = m /\ t.take = e /\ t.left = l
      /\ t.storage = s.storage /\ t.queue = s.queue
      /\ t.sampled = s.sampled /\ t.nonSampled = s.nonSampled /\ IsShard(t)
  <2>1. s \in ShardType(DOMAIN s.traces)
    BY DEF IsShard
  <2>2. /\ t.slots = n /\ t.current = c /\ t.traces = m /\ t.take = e /\ t.left = l
        /\ t.storage = s.storage /\ t.queue = s.queue
        /\ t.sampled = s.sampled /\ t.nonSampled = s.nonSampled
    BY ONLY <1>2, <2>1, ZenonT(30) DEF ShardType
  <2>3. t \in ShardType(DOMAIN s.traces)
    BY ONLY <1>2, <1>4, <1>5, <1>6, <1>7, <2>1, ZenonT(30) DEF ShardType, Slots
  <2>. QED BY <1>3, <2>2, <2>3 DEF IsShard
<1>9. \A x \in Traces : Kept(s, t, x)
  BY ONLY <1>3, <1>8, ZenonT(30) DEF Kept
<1>10. QueueInv(t)
  BY <1>3, <1>8 DEF QueueInv
<1>. QED BY <1>3, <1>5, <1>8, <1>9, <1>10 DEF Ticked, c, e, l

\* A tick brings every batch one step nearer and opens an empty one.
LEMMA TickBatches ==
  ASSUME NEW s, IsShard(s), QueueInv(s), s.left # 0, NEW t, t = CloseCurrentAndTakeFirstBatch(s)
  PROVE  /\ Ticked(s, t) /\ FirstBatch(s) = BatchOf(s, 0)
         /\ CurrentDue(s) \in Nat \ {0} /\ CurrentDue(t) \in Nat /\ CurrentDue(s) - 1 <= CurrentDue(t)
         /\ \A r \in 0 .. CurrentDue(s) - 1 : BatchOf(t, r) = BatchOf(s, r + 1)
         /\ \A r \in 0 .. CurrentDue(t) : r \notin 0 .. CurrentDue(s) - 1 => BatchOf(t, r) = {}
<1>0. /\ s.take \in Slots /\ s.left \in -1 .. NumBatches /\ NumBatches \in Nat \ {0}
  BY ShardFields, SamplingAssumption
<1>1. /\ Ticked(s, t) /\ t.take = (s.take + 1) % NumBatches
      /\ t.current = (IF s.left = -1 THEN {} ELSE s.current)
      /\ \A i \in Slots : t.slots[i] = IF i = s.take /\ s.left = -1 THEN s.current ELSE s.slots[i]
  BY TakeFields
<1>2. IF s.left = -1 THEN t.left = -1 ELSE t.left = s.left - 1
  BY <1>1 DEF Ticked
<1>3. /\ t.take \in Slots /\ SlotOf(s, 0) = s.take /\ SlotOf(t, NumBatches - 1) = s.take
      /\ \A r \in Slots : r + 1 \in Slots =>
           SlotOf(t, r) = SlotOf(s, r + 1) /\ SlotOf(s, r + 1) # s.take /\ SlotOf(s, r + 1) \in Slots
  BY <1>0, <1>1, SlotsShift, SMTT(30)
<1>4. /\ CurrentDue(s) = IF s.left = -1 THEN NumBatches ELSE s.left
      /\ CurrentDue(t) = IF s.left = -1 THEN NumBatches ELSE s.left - 1
      /\ CurrentDue(s) \in 1 .. NumBatches
  BY <1>0, <1>2, SMTT(30) DEF CurrentDue
<1>5. FirstBatch(s) = BatchOf(s, 0)
  <2>1. CurrentDue(s) # 0
    BY <1>0, <1>4
  <2>. QED BY <1>3, <2>1 DEF FirstBatch, BatchOf, HasMore
<1>6. ASSUME NEW r \in 0 .. CurrentDue(s) - 1 PROVE BatchOf(t, r) = BatchOf(s, r + 1)
  <2>1. CASE r + 1 = CurrentDue(s) /\ s.left = -1
    <3>1. r = NumBatches - 1 /\ r # CurrentDue(t)
      BY <1>0, <1>4, <2>1, SMTT(30)
    <3>2. t.slots[s.take] = s.current
      BY <1>0, <1>1, <2>1
    <3>. QED BY <1>3, <2>1, <3>1, <3>2 DEF BatchOf
  <2>2. CASE r + 1 = CurrentDue(s) /\ s.left # -1
    <3>1. r = CurrentDue(t) /\ t.current = s.current
      BY <1>0, <1>1, <1>4, <2>2, SMTT(30)
    <3>. QED BY <2>2, <3>1 DEF BatchOf
  <2>3. CASE r + 1 # CurrentDue(s)
    <3>1. r \in Slots /\ r + 1 \in Slots /\ r # CurrentDue(t)
      BY <1>0, <1>4, <2>3, SMTT(30) DEF Slots
    <3>2. t.slots[SlotOf(s, r + 1)] = s.slots[SlotOf(s, r + 1)] /\ SlotOf(t, r) = SlotOf(s, r + 1)
      BY <1>1, <1>3, <3>1
    <3>. QED BY <2>3, <3>1, <3>2 DEF BatchOf
  <2>. QED BY <2>1, <2>2, <2>3
<1>7. ASSUME NEW r \in 0 .. CurrentDue(t), r \notin 0 .. CurrentDue(s) - 1 PROVE BatchOf(t, r) = {}
  <2>1. r = CurrentDue(t) /\ s.left = -1
    BY <1>0, <1>4, <1>7, SMTT(30)
  <2>. QED BY <1>1, <2>1 DEF BatchOf
<1>8. CurrentDue(s) \in Nat \ {0} /\ CurrentDue(t) \in Nat /\ CurrentDue(s) - 1 <= CurrentDue(t)
  BY <1>0, <1>4, SMTT(30)
<1>. QED BY <1>1, <1>5, <1>6, <1>7, <1>8

\* The tick that takes the current batch of a stopped batcher.
LEMMA LastFields ==
  ASSUME NEW s, IsShard(s), QueueInv(s), s.left = 0, NEW t, t = CloseCurrentAndTakeFirstBatch(s)
  PROVE  /\ IsShard(t) /\ QueueInv(t) /\ DOMAIN t.traces = DOMAIN s.traces /\ t.storage = s.storage
         /\ t.left = 0 /\ t.current = {} /\ FirstBatch(s) = s.current
         /\ \A x \in Traces : Kept(s, t, x)
         /\ t.traces = s.traces
<1>1. t = [s EXCEPT !.current = {}] /\ FirstBatch(s) = s.current
  BY DEF CloseCurrentAndTakeFirstBatch, FirstBatch, HasMore
<1>2. /\ t.traces = s.traces /\ t.storage = s.storage /\ t.queue = s.queue /\ t.left = 0
      /\ t.sampled = s.sampled /\ t.nonSampled = s.nonSampled /\ t.current = {} /\ IsShard(t)
  BY <1>1 DEF IsShard, ShardType
<1>3. QueueInv(t) /\ \A x \in Traces : Kept(s, t, x)
  BY ONLY <1>2, QueueInv(s), ZenonT(30) DEF QueueInv, Kept
<1>. QED BY ONLY <1>1, <1>2, <1>3, ZenonT(30)

\* The traces that are due now go to the batch being worked on, and the others
\* stay where their batch IDs say.
LEMMA TickTrace ==
  ASSUME NEW s, IsShard(s), QueueInv(s), NEW t, t = CloseCurrentAndTakeFirstBatch(s),
         NEW x \in Traces, NEW L, NEW M, TraceInv(s, x, {}, L), L \subseteq M,
         s.left = 0 => x \in M
  PROVE  TraceInv(t, x, FirstBatch(s), M)
<1>1. Kept(s, t, x) => /\ RememberInv(t, x) /\ SpanInv(t, x) /\ (Open(t, x) <=> Open(s, x))
                       /\ StoredInv(t, x)
  BY KeptKeeps DEF TraceInv
<1>2. BatchInv(s, x, {}, L) /\ OnceInv(s, x, {})
  BY DEF TraceInv
<1>3. CASE s.left = 0
  <2>1. /\ t.left = 0 /\ t.current = {} /\ FirstBatch(s) = s.current /\ Kept(s, t, x)
        /\ x \in M
    BY <1>3, LastFields
  <2>2. CurrentDue(s) = 0 /\ CurrentDue(t) = 0 /\ 0 .. 0 = {0}
    BY <1>3, <2>1, SMTT(30) DEF CurrentDue
  <2>3. BatchOf(s, 0) = s.current /\ BatchOf(t, 0) = {}
    BY <2>1, <2>2 DEF BatchOf
  <2>4. BatchInv(t, x, FirstBatch(s), M)
    BY ONLY <1>1, <1>2, <2>1, <2>2, <2>3, ZenonT(30) DEF BatchInv, Batched
  <2>5. OnceInv(t, x, FirstBatch(s))
    <3>1. \A r \in 0 .. CurrentDue(t) : x \notin BatchOf(t, r)
      BY ONLY <2>2, <2>3, SMTT(30)
    <3>. QED BY ONLY <3>1, ZenonT(30) DEF OnceInv
  <2>. QED BY ONLY <1>1, <2>1, <2>4, <2>5, ZenonT(30) DEF TraceInv
<1>4. CASE s.left # 0
  <2>. DEFINE c == CurrentDue(s)
              e == CurrentDue(t)
  <2>1. /\ Ticked(s, t) /\ FirstBatch(s) = BatchOf(s, 0)
        /\ c \in Nat \ {0} /\ e \in Nat /\ c - 1 <= e
        /\ \A r \in 0 .. c - 1 : BatchOf(t, r) = BatchOf(s, r + 1)
        /\ \A r \in 0 .. e : r \notin 0 .. c - 1 => BatchOf(t, r) = {}
    BY <1>4, TickBatches, SMTT(30)
  <2>2. /\ Kept(s, t, x)
        /\ x \in DOMAIN s.traces => /\ s.traces[x].due \in Nat => t.traces[x].due = s.traces[x].due - 1
                                    /\ s.traces[x].due = -1 => t.traces[x].due = -1
    BY <2>1 DEF Ticked
  <2>. HIDE DEF c, e
  <2>3. ASSUME Open(t, x)
        PROVE  \/ Batched(t, x)
               \/ (t.traces[x].due = -1 \/ x \in M) /\ (x \in FirstBatch(s) \/ ~FindsSpans)
    <3>1. Open(s, x) /\ x \in DOMAIN s.traces
      BY ONLY <1>1, <2>2, <2>3, ZenonT(30) DEF Open
    <3>2. CASE Batched(s, x)
      <4>. DEFINE d == s.traces[x].due
      <4>1. d \in 0 .. c /\ x \in BatchOf(s, d)
        BY ONLY <3>2, ZenonT(30) DEF Batched, c
      <4>2. CASE d = 0
        <5>1. d \in Nat /\ d - 1 = -1
          BY <4>2, SMTT(30)
        <5>2. t.traces[x].due = -1
          BY ONLY <2>2, <3>1, <5>1, ZenonT(30)
        <5>. QED BY ONLY <2>1, <4>1, <4>2, <5>2, ZenonT(30)
      <4>3. CASE d # 0
        <5>. HIDE DEF d
        <5>1. d \in Nat /\ d - 1 \in 0 .. c - 1 /\ d - 1 \in 0 .. e /\ (d - 1) + 1 = d
          BY <2>1, <4>1, <4>3, SMTT(30)
        <5>2. BatchOf(t, d - 1) = BatchOf(s, d)
          BY ONLY <2>1, <5>1, ZenonT(30)
        <5>3. t.traces[x].due = d - 1
          BY ONLY <2>2, <3>1, <5>1, ZenonT(30) DEF d
        <5>. QED BY ONLY <4>1, <5>1, <5>2, <5>3, ZenonT(30) DEF Batched, e
      <4>. QED BY ONLY <4>2, <4>3, ZenonT(30)
    <3>3. CASE (s.traces[x].due = -1 \/ x \in L) /\ ~FindsSpans
      BY ONLY <2>2, <3>1, <3>3, L \subseteq M, ZenonT(30)
    <3>. QED BY ONLY <1>2, <3>1, <3>2, <3>3, ZenonT(30) DEF BatchInv
  <2>4. ASSUME Strict, NEW r \in 0 .. e, x \in BatchOf(t, r)
        PROVE  Open(t, x) /\ t.traces[x].due = r /\ x \notin FirstBatch(s)
    <3>1. r \in 0 .. c - 1 /\ x \in BatchOf(s, r + 1)
      BY ONLY <2>1, <2>4, ZenonT(30)
    <3>2. r + 1 \in 0 .. c /\ r + 1 \in Nat /\ (r + 1) - 1 = r /\ 0 \in 0 .. c /\ r + 1 # 0
      BY ONLY <2>1, <3>1, SMTT(30)
    <3>3. Open(s, x) /\ s.traces[x].due = r + 1 /\ (x \in BatchOf(s, 0) => s.traces[x].due = 0)
      BY ONLY <1>2, <2>4, <3>1, <3>2, ZenonT(30) DEF OnceInv, c
    <3>4. x \in DOMAIN s.traces /\ Open(t, x)
      BY ONLY <1>1, <2>2, <3>3, ZenonT(30) DEF Open
    <3>. QED BY ONLY <2>1, <2>2, <3>2, <3>3, <3>4, ZenonT(30)
  <2>5. BatchInv(t, x, FirstBatch(s), M) /\ OnceInv(t, x, FirstBatch(s))
    BY ONLY <2>3, <2>4, ZenonT(30) DEF BatchInv, OnceInv, e
  <2>. QED BY ONLY <1>1, <2>2, <2>5, ZenonT(30) DEF TraceInv
<1>. QED BY <1>3, <1>4

\* A tick moves the traces of the first batch into the one being worked on and
\* keeps the invariant of the shard.
LEMMA TickStep ==
  ASSUME IInv, Tick
  PROVE  /\ ShardInv(shard', deciding', Passed') /\ Moved({}) /\ SizeInv(shard')
         /\ (shard.left = -1 <=> shard'.left = -1)
         /\ shard.left = 0 => shard'.left = 0 /\ shard'.current = {}
         /\ Held' \subseteq Held /\ \A x \in Traces : Cached(shard', x) => Cached(shard, x)
<1>0. /\ Sound /\ IsShard(shard) /\ QueueInv(shard) /\ SizeInv(shard)
      /\ \A x \in Traces : TraceInv(shard, x, {}, Passed)
  <2>1. deciding = {}
    BY DEF Tick, Selecting
  <2>. QED BY <2>1, IInvFacts DEF IInv
<1>1. /\ shard' = CloseCurrentAndTakeFirstBatch(shard) /\ deciding' = FirstBatch(shard)
      /\ fate' = fate
  BY DEF Tick
<1>2. \A x \in Traces : TraceInv(shard', x, deciding', Passed')
  <2>1. Passed = {} /\ (shard.left = 0 => Passed' = Traces)
    BY DEF Tick, Selecting, Blocked, HasMore, Passed
  <2>2. ASSUME NEW x \in Traces PROVE TraceInv(shard', x, deciding', Passed')
    <3>1. /\ TraceInv(shard, x, {}, Passed) /\ Passed \subseteq Passed'
          /\ shard.left = 0 => x \in Passed'
      BY <1>0, <2>1
    <3>2. TraceInv(shard', x, FirstBatch(shard), Passed')
      BY ONLY <1>0, <1>1, <3>1, x \in Traces, TickTrace, ZenonT(30)
    <3>. QED BY <1>1, <3>2
  <2>. QED BY <2>2
<1>3. /\ IsShard(shard') /\ QueueInv(shard') /\ DOMAIN shard'.traces = DOMAIN shard.traces
      /\ shard'.storage = shard.storage /\ (\A x \in Traces : Kept(shard, shard', x))
      /\ shard.left = 0 => shard'.left = 0 /\ shard'.current = {}
      /\ shard.left # 0 => IF shard.left = -1 THEN shard'.left = -1 ELSE shard'.left = shard.left - 1
  <2>1. CASE shard.left = 0
    BY <1>0, <1>1, <2>1, LastFields
  <2>2. CASE shard.left # 0
    <3>1. Ticked(shard, shard')
      BY <1>0, <1>1, <2>2, TakeFields
    <3>. QED BY <2>2, <3>1 DEF Ticked
  <2>. QED BY <2>1, <2>2
<1>4. Moved({})
  BY <1>0, <1>1, <1>3, StayMoved
<1>5. SizeInv(shard')
  BY <1>0, <1>3 DEF SizeInv
<1>6. shard.left = -1 <=> shard'.left = -1
  <2>1. shard.left \in -1 .. NumBatches /\ NumBatches \in Nat
    BY <1>0, ShardFields, SamplingAssumption
  <2>. QED BY <1>3, <2>1, SMTT(30)
<1>7. Held' \subseteq Held /\ \A x \in Traces : Cached(shard', x) => Cached(shard, x)
  BY <1>3 DEF Kept, Cached, Held
<1>. QED BY <1>2, <1>3, <1>4, <1>5, <1>6, <1>7 DEF ShardInv

-----------------------------------------------------------------------------
(* The channels and the end *)

\* A step that does not touch the shard keeps its invariant.
LEMMA UntouchedStep ==
  ASSUME IInv, UNCHANGED <<shard, deciding, fate>>, Passed \subseteq Passed'
  PROVE  ShardInv(shard', deciding', Passed') /\ Moved({}) /\ SizeInv(shard')
<1>1. /\ Sound /\ IsShard(shard) /\ QueueInv(shard) /\ SizeInv(shard)
      /\ \A x \in Traces : TraceInv(shard, x, deciding, Passed)
  BY IInvFacts DEF IInv
<1>2. \A x \in Traces : TraceInv(shard, x, deciding, Passed')
  BY <1>1, SameSelf, SameKeeps
<1>3. Moved({})
  BY <1>1, StayMoved
<1>. QED BY <1>1, <1>2, <1>3 DEF ShardInv

\* Stop keeps the distances: the current batch is as far away as before.
LEMMA CloseStep ==
  ASSUME IInv, CloseWork
  PROVE  /\ ShardInv(shard', deciding', Passed') /\ Moved({}) /\ SizeInv(shard')
         /\ shard'.left = NumBatches
<1>. DEFINE s == shard
            t == shard'
<1>0. /\ Sound /\ IsShard(s) /\ QueueInv(s) /\ SizeInv(s)
      /\ \A x \in Traces : TraceInv(s, x, deciding, Passed)
  BY IInvFacts DEF IInv
<1>1. t = [s EXCEPT !.left = NumBatches] /\ fate' = fate /\ deciding' = deciding
  BY DEF CloseWork, Stop
<1>2. s.left = -1 /\ NumBatches \in Nat \ {0}
  BY SamplingAssumption DEF IInv, PhaseInv, CloseWork, Selecting, Blocked
<1>3. /\ t.traces = s.traces /\ t.storage = s.storage /\ t.queue = s.queue /\ t.left = NumBatches
      /\ t.sampled = s.sampled /\ t.nonSampled = s.nonSampled /\ t.current = s.current
      /\ t.slots = s.slots /\ t.take = s.take /\ IsShard(t)
  <2>1. NumBatches \in -1 .. NumBatches
    BY <1>2, SMTT(30)
  <2>. HIDE DEF s, t
  <2>. QED BY ONLY <1>0, <1>1, <2>1, ZenonT(30) DEF IsShard, ShardType
<1>4. CurrentDue(t) = CurrentDue(s)
  BY <1>2, <1>3 DEF CurrentDue
<1>5. Passed \subseteq Passed'
  BY DEF CloseWork, Selecting, Blocked, Passed
<1>6. Moved({})
  BY <1>0, <1>1, <1>3, StayMoved
<1>. HIDE DEF s, t
<1>7. QueueInv(t) /\ SizeInv(t) /\ \A x \in Traces : Same(s, t, x)
  BY ONLY <1>0, <1>3, <1>4, ZenonT(30) DEF QueueInv, SizeInv, Same, Kept, InPlace
<1>8. \A x \in Traces : TraceInv(t, x, deciding, Passed')
  BY ONLY <1>0, <1>5, <1>7, SameKeeps, ZenonT(30)
<1>. QED BY <1>1, <1>3, <1>6, <1>7, <1>8 DEF ShardInv, t

\* What holds of the shard holds after the step, for the same configuration.
LEMMA After ==
  ASSUME cfg' = cfg, ShardInv(shard', deciding', Passed'), SizeInv(shard')
  PROVE  /\ IsShard(shard)' /\ QueueInv(shard)' /\ SizeInv(shard)'
         /\ (\A x \in Traces : TraceInv(shard, x, deciding, Passed))'
BY DEF ShardInv, IsShard, QueueInv, SizeInv, TraceInv, RememberInv, SpanInv, StoredInv,
     BatchInv, OnceInv, Strict, SizeFor, Open, FindsSpans

\* Waiting spans are left alone.
LEMMA WorkKept ==
  ASSUME WorkInv, Moved({}), UNCHANGED <<work, workChan, sent>>
  PROVE  WorkInv'
<1>1. \A b \in Spans : fate'[b] = "none" <=> fate[b] = "none"
  BY DEF Moved
<1>. QED BY <1>1 DEF WorkInv

\* The tail of a list of distinct elements lacks its head.
LEMMA TailDistinct ==
  ASSUME NEW S, NEW l \in Seq(S), l # <<>>, \A i, j \in DOMAIN l : l[i] = l[j] => i = j
  PROVE  /\ \A i, j \in DOMAIN Tail(l) : Tail(l)[i] = Tail(l)[j] => i = j
         /\ Head(l) \notin Range(Tail(l))
<1>. DEFINE m == Tail(l)
<1>1. /\ Len(l) \in Nat \ {0} /\ DOMAIN l = 1 .. Len(l) /\ Head(l) = l[1] /\ 1 \in DOMAIN l
      /\ m \in Seq(S) /\ Len(m) = Len(l) - 1
      /\ \A i \in DOMAIN m : i + 1 \in DOMAIN l /\ m[i] = l[i + 1]
  BY EmptySeq, LenProperties, TailFacts, SMTT(30)
<1>2. DOMAIN m \subseteq Nat \ {0}
  BY <1>1, LenProperties, SMTT(30)
<1>. HIDE DEF m
<1>3. ASSUME NEW i \in DOMAIN m, NEW j \in DOMAIN m, m[i] = m[j] PROVE i = j
  <2>1. i + 1 = j + 1
    BY <1>1, <1>3, SMTT(30)
  <2>. QED BY <1>2, <2>1, SMTT(30)
<1>4. ASSUME NEW i \in DOMAIN m PROVE m[i] # Head(l)
  <2>1. m[i] = Head(l) => i + 1 = 1
    BY <1>1
  <2>. QED BY <1>2, <2>1, SMTT(30)
<1>. QED BY <1>3, <1>4 DEF Range, m

\* The spans in hand are processed once.
LEMMA WorkProcessed ==
  ASSUME WorkInv, work \in Seq(Spans), work # <<>>, Moved({Head(work)}),
         work' = Tail(work), UNCHANGED <<workChan, sent>>
  PROVE  WorkInv'
<1>1. /\ Range(work) = Range(work') \cup {Head(work)} /\ Head(work) \in Spans
      /\ Head(work) \notin Range(work')
      /\ \A i, j \in DOMAIN work' : work'[i] = work'[j] => i = j
  <2>1. \A i, j \in DOMAIN work : work[i] = work[j] => i = j
    BY DEF WorkInv
  <2>2. Range(work) = Range(Tail(work)) \cup {Head(work)} /\ Head(work) \in Spans
    BY TailFacts
  <2>. QED BY <2>1, <2>2, TailDistinct
<1>2. \A b \in Spans : fate'[b] = "none" <=> fate[b] = "none" /\ b # Head(work)
  BY DEF Moved
<1>. DEFINE W(b) == \E i \in DOMAIN workChan : b \in Range(workChan[i].spans)
<1>3. /\ \A i \in DOMAIN workChan : Range(work) \cap Range(workChan[i].spans) = {}
      /\ \A b \in Spans : /\ b \in sent /\ fate[b] = "none" <=> b \in Range(work) \/ W(b)
                          /\ b \notin sent => fate[b] = "none"
      /\ \A i, j \in DOMAIN workChan :
           Range(workChan[i].spans) \cap Range(workChan[j].spans) # {} => i = j
  BY DEF WorkInv
<1>4. ~W(Head(work)) /\ Head(work) \in sent
  BY <1>1, <1>3
<1>5. \A i \in DOMAIN workChan : Range(work') \cap Range(workChan[i].spans) = {}
  BY <1>1, <1>3
<1>. HIDE DEF W
<1>6. \A b \in Spans : /\ b \in sent /\ fate'[b] = "none" <=> b \in Range(work') \/ W(b)
                       /\ b \notin sent => fate'[b] = "none"
  BY <1>1, <1>2, <1>3, <1>4
<1>. QED BY <1>1, <1>3, <1>5, <1>6 DEF WorkInv, W

\* A payload of spans that were not sent yet joins the channel.
LEMMA WorkSent ==
  ASSUME WorkInv, work \in Seq(Spans), workChan \in Seq([spans : Payloads, since : Versions]),
         issued \in Versions, NEW p \in Payloads, Range(p) \cap sent = {},
         workChan' = Append(workChan, [spans |-> p, since |-> issued]),
         sent' = sent \cup Range(p), UNCHANGED <<work, fate>>
  PROVE  WorkInv'
<1>. DEFINE n == Len(workChan)
            W(b) == \E i \in DOMAIN workChan : b \in Range(workChan[i].spans)
            V(b) == \E i \in DOMAIN workChan' : b \in Range(workChan'[i].spans)
<1>1. /\ n \in Nat /\ DOMAIN workChan = 1 .. n /\ DOMAIN workChan' = 1 .. n + 1
      /\ workChan'[n + 1].spans = p /\ \A i \in 1 .. n : workChan'[i] = workChan[i]
  <2>. DEFINE e == [spans |-> p, since |-> issued]
  <2>1. e \in [spans : Payloads, since : Versions] /\ e.spans = p
    OBVIOUS
  <2>. HIDE DEF e
  <2>2. /\ workChan' \in Seq([spans : Payloads, since : Versions]) /\ Len(workChan') = n + 1
        /\ workChan'[n + 1] = e /\ \A i \in 1 .. n : workChan'[i] = workChan[i]
    BY <2>1, AppendProperties, SMTT(30) DEF e
  <2>. QED BY <2>1, <2>2, LenProperties
<1>2. /\ \A i \in DOMAIN workChan : Range(work) \cap Range(workChan[i].spans) = {}
      /\ \A b \in Spans : /\ b \in sent /\ fate[b] = "none" <=> b \in Range(work) \/ W(b)
                          /\ b \notin sent => fate[b] = "none"
      /\ \A i, j \in DOMAIN workChan :
           Range(workChan[i].spans) \cap Range(workChan[j].spans) # {} => i = j
      /\ \A i, j \in DOMAIN work : work[i] = work[j] => i = j
  BY DEF WorkInv
<1>3. Range(work) \subseteq Spans /\ Range(p) \subseteq Spans
  <2>1. p \in Seq(Spans)
    BY SamplingAssumption
  <2>. QED BY <2>1, RangeType
<1>4. \A b \in Range(p) : b \notin Range(work) /\ ~W(b)
  BY <1>2, <1>3
<1>5. DOMAIN workChan' = DOMAIN workChan \cup {n + 1} /\ n + 1 \notin DOMAIN workChan
  BY <1>1, SMTT(30)
<1>6. \A i \in DOMAIN workChan' :
        (i = n + 1 /\ workChan'[i].spans = p) \/ (i \in DOMAIN workChan /\ workChan'[i] = workChan[i])
  BY <1>1, SMTT(30)
<1>7. \A b : V(b) <=> W(b) \/ b \in Range(p)
  <2>. HIDE DEF n
  <2>. QED BY ONLY <1>1, <1>5, <1>6, ZenonT(30)
<1>8. \A i \in DOMAIN workChan' : Range(work) \cap Range(workChan'[i].spans) = {}
  BY <1>2, <1>4, <1>6
<1>9. ASSUME NEW i \in DOMAIN workChan', NEW j \in DOMAIN workChan',
             Range(workChan'[i].spans) \cap Range(workChan'[j].spans) # {}
      PROVE  i = j
  <2>1. PICK b : b \in Range(workChan'[i].spans) /\ b \in Range(workChan'[j].spans)
    BY <1>9
  <2>2. CASE b \in Range(p)
    <3>1. i \notin DOMAIN workChan /\ j \notin DOMAIN workChan
      BY <1>4, <1>6, <1>5, <2>1, <2>2
    <3>. QED BY <1>6, <3>1
  <2>3. CASE b \notin Range(p)
    <3>1. i \in DOMAIN workChan /\ j \in DOMAIN workChan
          /\ workChan'[i] = workChan[i] /\ workChan'[j] = workChan[j]
      BY <1>6, <2>1, <2>3
    <3>2. Range(workChan[i].spans) \cap Range(workChan[j].spans) # {}
      BY <1>9, <3>1
    <3>. QED BY <1>2, <3>1, <3>2
  <2>. QED BY <2>2, <2>3
<1>. HIDE DEF V, W, n
<1>10. \A b \in Spans : /\ b \in sent' /\ fate[b] = "none" <=> b \in Range(work) \/ V(b)
                        /\ b \notin sent' => fate[b] = "none"
  BY <1>2, <1>4, <1>7
<1>. QED BY <1>2, <1>8, <1>9, <1>10 DEF WorkInv, V

\* The loop takes the first payload of the channel in hand.
LEMMA WorkTaken ==
  ASSUME WorkInv, workChan \in Seq([spans : Payloads, since : Versions]), workChan # <<>>,
         work = <<>>, work' = Head(workChan).spans, workChan' = Tail(workChan),
         UNCHANGED <<sent, fate>>
  PROVE  WorkInv'
<1>. DEFINE W(b) == \E i \in DOMAIN workChan : b \in Range(workChan[i].spans)
            V(b) == \E i \in DOMAIN workChan' : b \in Range(workChan'[i].spans)
<1>1. /\ 1 \in DOMAIN workChan /\ Head(workChan) = workChan[1] /\ Head(workChan).spans \in Payloads
      /\ \A i \in DOMAIN workChan' : i + 1 \in DOMAIN workChan /\ workChan'[i] = workChan[i + 1]
      /\ \A i \in DOMAIN workChan : i = 1 \/ (i - 1 \in DOMAIN workChan' /\ workChan'[i - 1] = workChan[i])
      /\ DOMAIN workChan' \subseteq Nat \ {0}
  <2>1. /\ Len(workChan) \in Nat \ {0} /\ DOMAIN workChan = 1 .. Len(workChan)
        /\ Head(workChan) = workChan[1] /\ 1 \in DOMAIN workChan
    BY EmptySeq, LenProperties, SMTT(30)
  <2>2. /\ Head(workChan) \in [spans : Payloads, since : Versions]
        /\ workChan' \in Seq([spans : Payloads, since : Versions])
        /\ \A i \in DOMAIN workChan' : i + 1 \in DOMAIN workChan /\ workChan'[i] = workChan[i + 1]
        /\ \A i \in DOMAIN workChan : i = 1 \/ (i - 1 \in DOMAIN workChan' /\ workChan'[i - 1] = workChan[i])
    BY TailFacts
  <2>3. DOMAIN workChan' \subseteq Nat \ {0}
    BY <2>2, LenProperties, SMTT(30)
  <2>4. Head(workChan).spans \in Payloads
    BY <2>2
  <2>. QED BY <2>1, <2>2, <2>3, <2>4
<1>2. /\ \A b \in Spans : /\ b \in sent /\ fate[b] = "none" <=> b \in Range(work) \/ W(b)
                          /\ b \notin sent => fate[b] = "none"
      /\ \A i, j \in DOMAIN workChan :
           Range(workChan[i].spans) \cap Range(workChan[j].spans) # {} => i = j
  BY DEF WorkInv
<1>3. \A i, j \in DOMAIN work' : work'[i] = work'[j] => i = j
  BY <1>1, SamplingAssumption, SMTT(30)
<1>4. \A i \in DOMAIN workChan' : Range(work') \cap Range(workChan'[i].spans) = {}
  <2>1. ASSUME NEW i \in DOMAIN workChan' PROVE i + 1 # 1
    BY <1>1, SMTT(30)
  <2>. QED BY <1>1, <1>2, <2>1
<1>5. ASSUME NEW i \in DOMAIN workChan', NEW j \in DOMAIN workChan',
             Range(workChan'[i].spans) \cap Range(workChan'[j].spans) # {}
      PROVE  i = j
  <2>1. /\ i + 1 \in DOMAIN workChan /\ j + 1 \in DOMAIN workChan
        /\ Range(workChan[i + 1].spans) \cap Range(workChan[j + 1].spans) # {}
    BY ONLY <1>1, <1>5, ZenonT(30)
  <2>2. i + 1 = j + 1
    BY ONLY <1>2, <2>1, ZenonT(30)
  <2>. QED BY <1>1, <2>2, SMTT(30)
<1>6. Range(work) = {}
  BY SMTT(30) DEF Range
<1>7. \A b : W(b) <=> b \in Range(work') \/ V(b)
  BY <1>1
<1>. HIDE DEF V, W
<1>8. \A b \in Spans : /\ b \in sent /\ fate[b] = "none" <=> b \in Range(work') \/ V(b)
                       /\ b \notin sent => fate[b] = "none"
  BY <1>2, <1>6, <1>7
<1>. QED BY <1>3, <1>4, <1>5, <1>8 DEF WorkInv, V

-----------------------------------------------------------------------------
(* The steps *)

ChannelInv ==
  /\ work \in Seq(Spans) /\ since \in Versions /\ issued \in Versions /\ applied \in Versions
  /\ workChan \in Seq([spans : Payloads, since : Versions]) /\ Len(workChan) <= WorkCap
  /\ closed \in BOOLEAN /\ sent \subseteq Spans /\ VersionInv

\* The invariant from what each kind of step shows.
LEMMA IInvAfter ==
  ASSUME IInv, cfg' = cfg, ShardInv(shard', deciding', Passed'), SizeInv(shard'),
         NEW came, Moved(came), deciding' \subseteq Traces,
         pc' \in {"run", "wait", "drain", "last", "done"},
         ChannelInv', PhaseInv', WaitInv', WorkInv'
  PROVE  IInv'
<1>1. /\ IsShard(shard)' /\ QueueInv(shard)' /\ SizeInv(shard)'
      /\ (\A x \in Traces : TraceInv(shard, x, deciding, Passed))'
  BY After
<1>2. FateInv' /\ fate' \in [Spans -> {"none", "stored", "forwarded", "gone"}]
  BY DEF Moved
<1>3. cfg' \in Configs
  BY DEF IInv, TypeOK
<1>4. TypeOK'
  BY <1>1, <1>2, <1>3 DEF TypeOK, IsShard, ChannelInv, Held
<1>. QED BY <1>1, <1>2, <1>4 DEF IInv, ChannelInv

\* A step that only goes on with the payload in hand keeps the order of updates
\* and payloads.
LEMMA ChannelKept ==
  ASSUME IInv, UNCHANGED <<since, workChan, issued, applied, closed, sent>>,
         work' \in Seq(Spans), work' # <<>> => work # <<>>
  PROVE  ChannelInv'
BY DEF ChannelInv, IInv, TypeOK, VersionInv

\* The loop goes on waiting while others are decided and dropped.
LEMMA WaitKept ==
  ASSUME IInv, pc' = "wait" => pc = "wait", work' = work, cfg' = cfg, Held' \subseteq Held,
         \A x \in Traces \ Held : Cached(shard', x) => Cached(shard, x)
  PROVE  WaitInv'
<1>. SUFFICES ASSUME pc = "wait" PROVE WaitInv'
  BY DEF WaitInv
<1>1. /\ work # <<>> /\ cfg.block /\ TraceOf[Head(work)] \notin Held
      /\ ~Cached(shard, TraceOf[Head(work)]) /\ work \in Seq(Spans)
  BY DEF IInv, WaitInv, TypeOK
<1>2. TraceOf[Head(work)] \in Traces
  <2>1. Head(work) \in Spans
    BY <1>1, TailFacts
  <2>. QED BY <2>1, SamplingAssumption
<1>. QED BY <1>1, <1>2 DEF WaitInv, Cached

\* Working on the next spans of a payload.
LEMMA ProcessNextInv ==
  ASSUME IInv, ProcessNext
  PROVE  IInv' /\ FollowStep
<1>1. /\ ShardInv(shard', {}, Passed) /\ Moved({Head(work)}) /\ shard'.left = -1
      /\ SizeInv(shard')
  BY ProcessNextStep
<1>2. /\ deciding = {} /\ deciding' = {} /\ pc \in {"run", "wait"} /\ pc' = "run" /\ work # <<>>
      /\ work' = Tail(work) /\ cfg' = cfg
      /\ UNCHANGED <<since, workChan, issued, applied, closed, sent>>
  BY DEF ProcessNext
<1>0. Passed' = Passed /\ WaitInv'
  BY <1>2 DEF Passed, WaitInv
<1>3. work \in Seq(Spans) /\ work' \in Seq(Spans) /\ WorkInv
  <2>1. work \in Seq(Spans) /\ WorkInv
    BY DEF IInv, TypeOK
  <2>. QED BY <1>2, <2>1, TailFacts
<1>4. ChannelInv'
  BY <1>2, <1>3, ChannelKept
<1>5. WorkInv'
  BY <1>1, <1>2, <1>3, WorkProcessed
<1>6. PhaseInv'
  BY <1>1, <1>2 DEF PhaseInv
<1>7. IInv'
  BY <1>0, <1>1, <1>2, <1>4, <1>5, <1>6, IInvAfter
<1>. QED BY <1>1, <1>7 DEF Moved

\* Deciding a trace.
LEMMA DecideInv ==
  ASSUME IInv, NEW id \in Traces, Decide(id)
  PROVE  IInv' /\ FollowStep
<1>1. /\ ShardInv(shard', deciding', Passed) /\ Moved({}) /\ SizeInv(shard')
      /\ shard'.left = shard.left /\ shard'.current = shard.current
      /\ Held' \subseteq Held /\ \A x \in Traces \ Held : Cached(shard', x) => Cached(shard, x)
  BY DecideStep
<1>2. /\ id \in deciding /\ deciding' = deciding \ {id} /\ cfg' = cfg /\ work' = work /\ pc' = pc
      /\ UNCHANGED <<since, workChan, issued, applied, closed, sent>>
  BY DEF Decide
<1>3. /\ work \in Seq(Spans) /\ WorkInv /\ deciding' \subseteq Traces /\ PhaseInv
      /\ pc \in {"run", "wait", "drain", "last", "done"} /\ Passed' = Passed
  BY <1>2 DEF IInv, TypeOK, Passed
<1>4. ChannelInv'
  BY <1>2, <1>3, ChannelKept
<1>5. WorkInv'
  BY <1>1, <1>2, <1>3, WorkKept
<1>6. PhaseInv'
  <2>1. pc # "done"
    BY <1>2, <1>3 DEF PhaseInv
  <2>. QED BY <1>1, <1>2, <1>3, <2>1 DEF PhaseInv
<1>7. WaitInv'
  BY <1>1, <1>2, WaitKept
<1>8. IInv'
  BY <1>1, <1>2, <1>3, <1>4, <1>5, <1>6, <1>7, IInvAfter
<1>. QED BY <1>1, <1>8 DEF Moved

\* Taking a batch.
LEMMA TickInv ==
  ASSUME IInv, Tick
  PROVE  IInv' /\ FollowStep
<1>1. /\ ShardInv(shard', deciding', Passed') /\ Moved({}) /\ SizeInv(shard')
      /\ (shard.left = -1 <=> shard'.left = -1)
      /\ shard.left = 0 => shard'.left = 0 /\ shard'.current = {}
      /\ Held' \subseteq Held /\ \A x \in Traces : Cached(shard', x) => Cached(shard, x)
  BY TickStep
<1>2. /\ pc \in {"run", "wait", "drain"} /\ pc' = IF shard.left # 0 THEN pc ELSE "last"
      /\ cfg' = cfg /\ work' = work /\ deciding' = FirstBatch(shard)
      /\ UNCHANGED <<since, workChan, issued, applied, closed, sent>>
  BY DEF Tick, HasMore, Selecting, Blocked
<1>3. /\ work \in Seq(Spans) /\ WorkInv /\ PhaseInv
      /\ pc' \in {"run", "wait", "drain", "last", "done"}
  BY <1>2 DEF IInv, TypeOK
<1>4. deciding' \subseteq Traces
  <2>1. /\ shard.slots \in [Slots -> SUBSET Traces] /\ shard.take \in Slots
        /\ shard.current \subseteq Traces
    BY IInvFacts, ShardFields
  <2>2. shard.slots[shard.take] \subseteq Traces
    BY <2>1
  <2>. QED BY <1>2, <2>1, <2>2 DEF FirstBatch
<1>5. ChannelInv' /\ WorkInv'
  BY <1>1, <1>2, <1>3, ChannelKept, WorkKept
<1>6. PhaseInv'
  <2>1. pc \in {"run", "wait"} => shard.left # 0
    BY <1>3, SMTT(30) DEF PhaseInv
  <2>2. CASE pc \in {"run", "wait"}
    BY <1>1, <1>2, <1>3, <2>1, <2>2 DEF PhaseInv
  <2>3. CASE pc = "drain"
    BY <1>1, <1>2, <1>3, <2>3 DEF PhaseInv
  <2>. QED BY <1>2, <2>2, <2>3
<1>7. WaitInv'
  BY <1>1, <1>2, WaitKept
<1>8. IInv'
  BY <1>1, <1>2, <1>3, <1>4, <1>5, <1>6, <1>7, IInvAfter
<1>. QED BY <1>1, <1>8 DEF Moved

\* The channel is closed and empty: Stop of the batcher.
LEMMA CloseWorkInv ==
  ASSUME IInv, CloseWork
  PROVE  IInv' /\ FollowStep
<1>1. /\ ShardInv(shard', deciding', Passed') /\ Moved({}) /\ SizeInv(shard')
      /\ shard'.left = NumBatches
  BY CloseStep
<1>2. /\ deciding = {} /\ deciding' = {} /\ cfg' = cfg /\ work = <<>> /\ workChan = <<>> /\ closed
      /\ pc' = (IF cfg.dropPending THEN "done" ELSE "drain") /\ work' = work
      /\ UNCHANGED <<since, workChan, issued, applied, closed, sent>>
  BY DEF CloseWork, Selecting
<1>3. /\ work \in Seq(Spans) /\ WorkInv /\ pc' \in {"run", "wait", "drain", "last", "done"}
      /\ pc' \notin {"run", "wait"} /\ WaitInv'
  BY <1>2 DEF IInv, TypeOK, WaitInv
<1>4. ChannelInv' /\ WorkInv'
  BY <1>1, <1>2, <1>3, ChannelKept, WorkKept
<1>5. PhaseInv'
  <2>1. shard'.left # -1
    BY <1>1, SamplingAssumption, SMTT(30)
  <2>. QED BY <1>2, <1>3, <2>1 DEF PhaseInv
<1>6. IInv'
  BY <1>1, <1>2, <1>3, <1>4, <1>5, IInvAfter
<1>. QED BY <1>1, <1>6 DEF Moved

\* The last batch was the last one: a trace in no batch has a decision.
LEMMA FinishInv ==
  ASSUME IInv, Finish
  PROVE  IInv' /\ FollowStep
<1>1. /\ deciding = {} /\ cfg' = cfg /\ work' = work /\ pc = "last" /\ pc' = "done"
      /\ UNCHANGED <<since, workChan, issued, applied, closed, sent>>
      /\ UNCHANGED <<shard, deciding, fate>>
  BY DEF Finish
<1>2. ShardInv(shard', deciding', Passed') /\ Moved({}) /\ SizeInv(shard')
  BY <1>1, UntouchedStep DEF Passed
<1>3. work \in Seq(Spans) /\ WorkInv /\ PhaseInv
  BY DEF IInv, TypeOK
<1>4. ChannelInv' /\ WorkInv'
  BY <1>1, <1>2, <1>3, ChannelKept, WorkKept
<1>5. shard.left = 0 /\ shard.current = {} /\ closed /\ work = <<>> /\ workChan = <<>>
  BY <1>1, <1>3 DEF PhaseInv
<1>6. ASSUME NEW x \in Pending PROVE ~FindsSpans
  <2>1. x \in Traces /\ BatchInv(shard, x, {}, Passed) /\ Open(shard, x)
    BY <1>1 DEF Pending, Open, IInv, TypeOK, TraceInv, Held
  <2>2. CurrentDue(shard) = 0 /\ 0 .. CurrentDue(shard) = {0}
    BY <1>5, SMTT(30) DEF CurrentDue
  <2>3. BatchOf(shard, 0) = {}
    BY <1>5, <2>2 DEF BatchOf
  <2>. QED BY <2>1, <2>2, <2>3 DEF BatchInv, Batched
<1>7. PhaseInv'
  <2>1. shard.left # -1
    BY <1>5, SMTT(30)
  <2>2. Pending' = Pending
    BY <1>1 DEF Pending, Held
  <2>. QED BY <1>1, <1>5, <1>6, <2>1, <2>2 DEF PhaseInv, FindsSpans
<1>8. deciding' \subseteq Traces /\ WaitInv'
  BY <1>1 DEF WaitInv
<1>9. IInv'
  BY <1>1, <1>2, <1>4, <1>7, <1>8, IInvAfter
<1>. QED BY <1>2, <1>9 DEF Moved

\* The channels are used by the others and by the loop between two payloads.
LEMMA ChannelStep ==
  ASSUME IInv, UNCHANGED <<cfg, shard, deciding, pc, fate>>, ChannelInv', WorkInv',
         pc \notin {"run", "wait"} => closed' /\ work' = <<>> /\ workChan' = <<>>,
         pc = "wait" => work' = work
  PROVE  IInv' /\ FollowStep
<1>1. ShardInv(shard', deciding', Passed') /\ Moved({}) /\ SizeInv(shard')
  BY UntouchedStep DEF Passed
<1>2. /\ deciding' \subseteq Traces /\ pc' \in {"run", "wait", "drain", "last", "done"}
      /\ PhaseInv /\ WaitInv
  BY DEF IInv, TypeOK
<1>3. Pending' = Pending
  BY DEF Pending, Held
<1>4. PhaseInv' /\ WaitInv'
  BY <1>2, <1>3 DEF PhaseInv, WaitInv, FindsSpans, Held, Cached
<1>5. IInv'
  BY <1>1, <1>2, <1>4, IInvAfter
<1>. QED BY <1>1, <1>5 DEF Moved

\* The loop starts to wait for space.
LEMMA WaitForSpaceInv ==
  ASSUME IInv, WaitForSpace
  PROVE  IInv' /\ FollowStep
<1>1. /\ pc = "run" /\ pc' = "wait" /\ cfg' = cfg /\ work' = work
      /\ UNCHANGED <<since, workChan, issued, applied, closed, sent>>
      /\ UNCHANGED <<shard, deciding, fate>>
  BY DEF WaitForSpace
<1>2. ShardInv(shard', deciding', Passed') /\ Moved({}) /\ SizeInv(shard')
  BY <1>1, UntouchedStep DEF Passed
<1>3. work \in Seq(Spans) /\ WorkInv /\ PhaseInv /\ deciding' \subseteq Traces
  BY <1>1 DEF IInv, TypeOK
<1>4. ChannelInv' /\ WorkInv'
  BY <1>1, <1>2, <1>3, ChannelKept, WorkKept
<1>5. PhaseInv'
  BY <1>1, <1>3 DEF PhaseInv
<1>6. WaitInv'
  BY <1>1 DEF WaitForSpace, WaitInv, Full, Held, Cached
<1>7. IInv'
  BY <1>1, <1>2, <1>3, <1>4, <1>5, <1>6, IInvAfter
<1>. QED BY <1>2, <1>7 DEF Moved

\* The numbers of updates are natural.
LEMMA VersionFacts ==
  ASSUME NEW v \in Versions
  PROVE  \A k \in Updates : v[k] \in Nat
<1>1. Len(Policies) \in Nat /\ Len(Limits) \in Nat
  BY SamplingAssumption, LenProperties
<1>2. v["policies"] \in 1 .. Len(Policies) /\ v["size"] \in 1 .. Len(Limits)
  BY DEF Versions
<1>. QED BY <1>1, <1>2, SMTT(30) DEF Updates

\* A payload is sent.
LEMMA ConsumeTracesInv ==
  ASSUME IInv, NEW p \in Payloads, ConsumeTraces(p)
  PROVE  IInv' /\ FollowStep
<1>. DEFINE T == [spans : Payloads, since : Versions]
            e == [spans |-> p, since |-> issued]
            n == Len(workChan)
<1>1. /\ ~closed /\ n < WorkCap /\ Range(p) \cap sent = {} /\ workChan' = Append(workChan, e)
      /\ sent' = sent \cup Range(p)
      /\ UNCHANGED <<cfg, shard, deciding, work, since, issued, applied, pc, closed, fate>>
  BY DEF ConsumeTraces
<1>2. /\ work \in Seq(Spans) /\ workChan \in Seq(T) /\ WorkInv /\ PhaseInv /\ VersionInv
      /\ since \in Versions /\ issued \in Versions /\ applied \in Versions
      /\ closed \in BOOLEAN /\ sent \subseteq Spans
  BY DEF IInv, TypeOK
<1>3. WorkInv'
  BY <1>1, <1>2, WorkSent
<1>4. pc \in {"run", "wait"}
  BY <1>1, <1>2 DEF PhaseInv
<1>5. e \in T /\ e.since = issued /\ WorkCap \in Nat
  BY <1>2, SamplingAssumption
<1>. HIDE DEF e, T
<1>6. /\ workChan' \in Seq(T) /\ Len(workChan') = n + 1 /\ n \in Nat
      /\ workChan'[n + 1] = e /\ \A i \in 1 .. n : workChan'[i] = workChan[i]
  BY <1>1, <1>2, <1>5, AppendProperties, LenProperties, SMTT(30)
<1>7. DOMAIN workChan = 1 .. n /\ DOMAIN workChan' = 1 .. n + 1
  BY <1>2, <1>6, LenProperties
<1>8. Range(p) \subseteq Spans
  <2>1. p \in Seq(Spans)
    BY SamplingAssumption
  <2>. QED BY <2>1, RangeType
<1>9. VersionInv'
  <2>1. \A i \in DOMAIN workChan' :
          workChan'[i] = e \/ (i \in DOMAIN workChan /\ workChan'[i] = workChan[i])
    BY <1>6, <1>7, SMTT(30)
  <2>2. \A k \in Updates : issued[k] <= issued[k]
    BY <1>2, VersionFacts, SMTT(30)
  <2>. QED BY ONLY <1>1, <1>2, <1>5, <2>1, <2>2, ZenonT(30) DEF VersionInv
<1>10. Len(workChan') <= WorkCap
  BY <1>1, <1>5, <1>6, SMTT(30)
<1>11. ChannelInv'
  BY <1>1, <1>2, <1>6, <1>8, <1>9, <1>10 DEF ChannelInv, T
<1>. QED BY <1>1, <1>3, <1>4, <1>11, ChannelStep

\* A payload is taken, after the updates that wait.
LEMMA TakeWorkInv ==
  ASSUME IInv, TakeWork
  PROVE  IInv' /\ FollowStep
<1>. DEFINE T == [spans : Payloads, since : Versions]
            e == Head(workChan)
<1>1. /\ pc = "run" /\ work = <<>> /\ workChan # <<>> /\ work' = e.spans /\ since' = e.since
      /\ workChan' = Tail(workChan) /\ applied' = issued
      /\ UNCHANGED <<cfg, shard, deciding, issued, pc, closed, sent, fate>>
  BY DEF TakeWork, Selecting, Blocked, IInv, WaitInv
<1>2. /\ workChan \in Seq(T) /\ WorkInv /\ VersionInv /\ issued \in Versions
      /\ closed \in BOOLEAN /\ sent \subseteq Spans /\ Len(workChan) <= WorkCap
  BY DEF IInv, TypeOK
<1>3. WorkInv'
  BY <1>1, <1>2, WorkTaken
<1>4. /\ e \in T /\ workChan' \in Seq(T) /\ Len(workChan') = Len(workChan) - 1
      /\ \A i \in DOMAIN workChan' : i + 1 \in DOMAIN workChan /\ workChan'[i] = workChan[i + 1]
  BY <1>1, <1>2, TailFacts
<1>5. 1 \in DOMAIN workChan /\ e = workChan[1] /\ Len(workChan) \in Nat
  BY <1>1, <1>2, EmptySeq, LenProperties, SMTT(30)
<1>6. e.spans \in Seq(Spans) /\ e.since \in Versions /\ WorkCap \in Nat
  BY <1>4, SamplingAssumption
<1>7. Len(workChan') <= WorkCap
  BY <1>2, <1>4, <1>5, <1>6, SMTT(30)
<1>8. VersionInv'
  <2>1. \A k \in Updates : issued[k] <= issued[k]
    BY <1>2, VersionFacts, SMTT(30)
  <2>2. \A k \in Updates : e.since[k] <= issued[k]
    BY <1>2, <1>5 DEF VersionInv
  <2>. HIDE DEF e
  <2>. QED BY ONLY <1>1, <1>2, <1>4, <2>1, <2>2, ZenonT(30) DEF VersionInv
<1>9. ChannelInv'
  <2>. HIDE DEF e
  <2>. QED BY <1>1, <1>2, <1>4, <1>6, <1>7, <1>8 DEF ChannelInv
<1>. QED BY <1>1, <1>3, <1>9, ChannelStep

Updated(v, w, k, n) == w \in Versions /\ \A j \in Updates : w[j] = IF j = k THEN n ELSE v[j]

\* Setting one kind of update leaves the other alone.
LEMMA VersionUpdate ==
  ASSUME NEW v \in Versions, NEW k \in Updates, NEW n,
         n \in 1 .. (IF k = "policies" THEN Len(Policies) ELSE Len(Limits)),
         NEW w, w = [v EXCEPT ![k] = n]
  PROVE  Updated(v, w, k, n)
<1>1. CASE k = "policies"
  <2>1. w = [v EXCEPT !.policies = n]
    BY <1>1
  <2>2. w \in Versions /\ w.policies = n /\ w.size = v.size
    BY <1>1, <2>1 DEF Versions
  <2>3. w["policies"] = n /\ w["size"] = v["size"]
    BY <2>2
  <2>. QED BY <1>1, <2>2, <2>3 DEF Updates, Updated
<1>2. CASE k = "size"
  <2>1. w = [v EXCEPT !.size = n]
    BY <1>2
  <2>2. w \in Versions /\ w.size = n /\ w.policies = v.policies
    BY <1>2, <2>1 DEF Versions
  <2>3. w["size"] = n /\ w["policies"] = v["policies"]
    BY <2>2
  <2>. QED BY <1>2, <2>2, <2>3 DEF Updates, Updated
<1>. QED BY <1>1, <1>2 DEF Updates

\* An update is made.
LEMMA SetUpdateInv ==
  ASSUME IInv, NEW k \in Updates, SetUpdate(k)
  PROVE  IInv' /\ FollowStep
<1>. DEFINE last == IF k = "policies" THEN Len(Policies) ELSE Len(Limits)
<1>1. /\ issued[k] < last /\ issued' = [issued EXCEPT ![k] = @ + 1]
      /\ UNCHANGED <<cfg, shard, deciding, work, since, workChan, applied, pc, closed, sent, fate>>
  BY DEF SetUpdate
<1>2. /\ work \in Seq(Spans) /\ WorkInv /\ PhaseInv /\ VersionInv
      /\ workChan \in Seq([spans : Payloads, since : Versions]) /\ Len(workChan) <= WorkCap
      /\ since \in Versions /\ issued \in Versions /\ applied \in Versions
      /\ closed \in BOOLEAN /\ sent \subseteq Spans
  BY DEF IInv, TypeOK
<1>3. Len(Policies) \in Nat /\ Len(Limits) \in Nat
  BY SamplingAssumption, LenProperties
<1>4. issued' \in Versions /\ \A j \in Updates : issued[j] <= issued'[j]
  <2>1. \A j \in Updates : issued[j] \in Nat
    BY <1>2, VersionFacts
  <2>2. issued[k] + 1 \in 1 .. last
    BY <1>1, <1>3, <2>1, SMTT(30)
  <2>3. Updated(issued, issued', k, issued[k] + 1)
    BY <1>1, <1>2, <2>2, VersionUpdate
  <2>. QED BY <2>1, <2>3, SMTT(30) DEF Updated
<1>5. VersionInv'
  <2>1. \A j \in Updates : issued[j] \in Nat /\ issued'[j] \in Nat /\ applied[j] \in Nat
    BY <1>2, <1>4, VersionFacts
  <2>2. \A j \in Updates : \A i \in DOMAIN workChan : workChan[i].since[j] \in Nat
    <3>1. ASSUME NEW i \in DOMAIN workChan PROVE workChan[i].since \in Versions
      <4>1. i \in 1 .. Len(workChan)
        BY <1>2, LenProperties
      <4>2. workChan[i] \in [spans : Payloads, since : Versions]
        BY <1>2, <4>1, ElementOfSeq
      <4>. QED BY <4>2
    <3>. QED BY <3>1, VersionFacts
  <2>3. \A j \in Updates : applied[j] <= issued'[j]
    BY <1>2, <1>4, <2>1, SMTT(30) DEF VersionInv
  <2>4. \A j \in Updates : \A i \in DOMAIN workChan : workChan[i].since[j] <= issued'[j]
    BY <1>2, <1>4, <2>1, <2>2, SMTT(30) DEF VersionInv
  <2>. QED BY ONLY <1>1, <1>2, <2>3, <2>4, ZenonT(30) DEF VersionInv
<1>6. WorkInv'
  BY <1>1, <1>2 DEF WorkInv
<1>7. ChannelInv'
  BY ONLY <1>1, <1>2, <1>4, <1>5, ZenonT(30) DEF ChannelInv
<1>8. pc \notin {"run", "wait"} => closed' /\ work' = <<>> /\ workChan' = <<>>
  BY <1>1, <1>2 DEF PhaseInv
<1>. QED BY ONLY IInv, <1>1, <1>6, <1>7, <1>8, ChannelStep, ZenonT(30)

\* An update is applied.
LEMMA ApplyUpdateInv ==
  ASSUME IInv, NEW k \in Updates, ApplyUpdate(k)
  PROVE  IInv' /\ FollowStep
<1>1. /\ applied' = [applied EXCEPT ![k] = issued[k]]
      /\ UNCHANGED <<cfg, shard, deciding, work, since, workChan, issued, pc, closed, sent, fate>>
  BY DEF ApplyUpdate
<1>2. /\ work \in Seq(Spans) /\ WorkInv /\ PhaseInv /\ VersionInv
      /\ workChan \in Seq([spans : Payloads, since : Versions]) /\ Len(workChan) <= WorkCap
      /\ since \in Versions /\ issued \in Versions /\ applied \in Versions
      /\ closed \in BOOLEAN /\ sent \subseteq Spans
  BY DEF IInv, TypeOK
<1>3. \A j \in Updates : issued[j] \in Nat /\ applied[j] \in Nat /\ since[j] \in Nat
  BY <1>2, VersionFacts
<1>4. \A j \in Updates : applied[j] <= issued[j]
  BY <1>2 DEF VersionInv
<1>5. /\ applied' \in Versions
      /\ \A j \in Updates : applied[j] <= applied'[j] /\ applied'[j] <= issued[j] /\ applied'[j] \in Nat
  <2>1. issued[k] \in 1 .. (IF k = "policies" THEN Len(Policies) ELSE Len(Limits))
    BY <1>2 DEF Versions, Updates
  <2>2. Updated(applied, applied', k, issued[k])
    BY <1>1, <1>2, <2>1, VersionUpdate
  <2>. QED BY <1>3, <1>4, <2>2, SMTT(30) DEF Updated
<1>6. VersionInv'
  <2>1. work # <<>> => \A j \in Updates : since[j] <= applied'[j]
    BY <1>2, <1>3, <1>5, SMTT(30) DEF VersionInv
  <2>. QED BY ONLY <1>1, <1>2, <1>5, <2>1, ZenonT(30) DEF VersionInv
<1>7. WorkInv'
  BY <1>1, <1>2 DEF WorkInv
<1>8. ChannelInv'
  BY ONLY <1>1, <1>2, <1>5, <1>6, ZenonT(30) DEF ChannelInv
<1>9. pc \notin {"run", "wait"} => closed' /\ work' = <<>> /\ workChan' = <<>>
  BY <1>1, <1>2 DEF PhaseInv
<1>. QED BY ONLY IInv, <1>1, <1>7, <1>8, <1>9, ChannelStep, ZenonT(30)

\* The channel is closed.
LEMMA ShutdownInv ==
  ASSUME IInv, Shutdown
  PROVE  IInv' /\ FollowStep
<1>1. /\ closed'
      /\ UNCHANGED <<cfg, shard, deciding, work, since, workChan, issued, applied, pc, sent, fate>>
  BY DEF Shutdown
<1>2. WorkInv' /\ closed' \in BOOLEAN
  BY DEF Shutdown, IInv, WorkInv
<1>3. ChannelInv'
  BY <1>1, <1>2 DEF ChannelInv, IInv, TypeOK, VersionInv
<1>4. pc \notin {"run", "wait"} => closed' /\ work' = <<>> /\ workChan' = <<>>
  BY <1>1 DEF IInv, PhaseInv
<1>. QED BY ONLY IInv, <1>1, <1>2, <1>3, <1>4, ChannelStep, ZenonT(30)

\* Nothing happens.
LEMMA StutterInv ==
  ASSUME IInv, UNCHANGED vars
  PROVE  IInv' /\ FollowStep
<1>1. /\ UNCHANGED <<cfg, shard, deciding, pc, fate>>
      /\ UNCHANGED <<work, since, workChan, issued, applied, closed, sent>>
  BY DEF vars
<1>2. WorkInv' /\ ChannelInv'
  BY <1>1 DEF ChannelInv, IInv, TypeOK, VersionInv, WorkInv
<1>3. pc \notin {"run", "wait"} => closed' /\ work' = <<>> /\ workChan' = <<>>
  BY <1>1 DEF IInv, PhaseInv
<1>. QED BY ONLY IInv, <1>1, <1>2, <1>3, ChannelStep, ZenonT(30)

\* Every step keeps the invariant and lets late spans follow.
LEMMA Steps ==
  ASSUME IInv, [Next]_vars
  PROVE  IInv' /\ FollowStep
<1>1. CASE \E p \in Payloads : ConsumeTraces(p)
  BY <1>1, ConsumeTracesInv
<1>2. CASE \E k \in Updates : SetUpdate(k) \/ ApplyUpdate(k)
  BY <1>2, SetUpdateInv, ApplyUpdateInv
<1>3. CASE Shutdown
  BY <1>3, ShutdownInv
<1>4. CASE Tick
  BY <1>4, TickInv
<1>5. CASE TakeWork
  BY <1>5, TakeWorkInv
<1>6. CASE ProcessNext
  BY <1>6, ProcessNextInv
<1>7. CASE CloseWork
  BY <1>7, CloseWorkInv
<1>8. CASE Finish
  BY <1>8, FinishInv
<1>9. CASE \E id \in Traces : Decide(id)
  BY <1>9, DecideInv
<1>10. CASE WaitForSpace
  BY <1>10, WaitForSpaceInv
<1>11. CASE UNCHANGED vars
  BY <1>11, StutterInv
<1>. QED
  BY <1>1, <1>2, <1>3, <1>4, <1>5, <1>6, <1>7, <1>8, <1>9, <1>10, <1>11 DEF Next, Loop

\* The processor starts in the invariant.
LEMMA Initial == Init => IInv
<1>. SUFFICES ASSUME Init PROVE IInv
  OBVIOUS
<1>. DEFINE N == 0 .. NumBatches - 1
<1>0. NumBatches \in Nat \ {0} /\ 0 \in N /\ -1 \in -1 .. NumBatches
  BY SamplingAssumption, SMTT(30)
<1>1. /\ cfg \in Configs /\ deciding = {} /\ work = <<>> /\ workChan = <<>>
      /\ issued = [policies |-> 1, size |-> 1] /\ applied = issued /\ since = issued
      /\ pc = "run" /\ closed = FALSE /\ sent = {} /\ fate = [b \in Spans |-> "none"]
      /\ shard = [ traces |-> <<>>, storage |-> [id \in Traces |-> {}], queue |-> <<>>,
                   slots |-> [i \in N |-> {}], take |-> 0, current |-> {},
                   left |-> -1, sampled |-> <<>>, nonSampled |-> <<>> ]
  BY DEF Init
<1>2. /\ shard.traces = <<>> /\ shard.storage = [id \in Traces |-> {}] /\ shard.queue = <<>>
      /\ shard.slots = [i \in N |-> {}] /\ shard.take = 0 /\ shard.current = {}
      /\ shard.left = -1 /\ shard.sampled = <<>> /\ shard.nonSampled = <<>>
  BY <1>1
<1>3. DOMAIN <<>> = {} /\ Range(<<>>) = {} /\ Len(<<>>) = 0 /\ DOMAIN shard.traces = {}
  BY <1>2, SMTT(30) DEF Range
<1>4. shard \in ShardType({})
  BY <1>0, <1>1, SMTT(30) DEF ShardType
<1>5. issued \in Versions /\ \A k \in Updates : issued[k] <= issued[k]
  <2>1. Len(Policies) \in Nat \ {0} /\ Len(Limits) \in Nat \ {0}
    BY SamplingAssumption, LenProperties, SMTT(30)
  <2>2. issued \in Versions
    BY <1>1, <2>1, SMTT(30) DEF Versions
  <2>. QED BY <2>2, VersionFacts, SMTT(30)
<1>6. /\ \A x \in Traces : shard.storage[x] = {}
      /\ \A b \in Spans : fate[b] = "none"
  BY <1>1, <1>2
<1>7. cfg.sampled \in Nat /\ cfg.nonSampled \in Nat
  BY <1>1, CfgFacts
<1>8. TypeOK
  <2>1. <<>> \in Seq(Spans) /\ <<>> \in Seq([spans : Payloads, since : Versions])
    BY SMTT(30)
  <2>2. Len(shard.sampled) <= cfg.sampled /\ Len(shard.nonSampled) <= cfg.nonSampled
        /\ Len(workChan) <= WorkCap
    BY <1>1, <1>2, <1>3, <1>7, SamplingAssumption, SMTT(30)
  <2>3. fate \in [Spans -> {"none", "stored", "forwarded", "gone"}] /\ closed \in BOOLEAN
    BY <1>1
  <2>. QED BY ONLY <1>1, <1>3, <1>4, <1>5, <2>1, <2>2, <2>3, ZenonT(30) DEF TypeOK, Held
<1>9. VersionInv /\ PhaseInv /\ WaitInv
  BY ONLY <1>1, <1>2, <1>3, <1>5, ZenonT(30) DEF VersionInv, PhaseInv, WaitInv
<1>10. WorkInv
  BY ONLY <1>1, <1>3, <1>6, ZenonT(30) DEF WorkInv
<1>11. FateInv
  <2>1. \A b \in Spans : TraceOf[b] \in Traces
    BY SamplingAssumption
  <2>. QED BY ONLY <1>6, <2>1, ZenonT(30) DEF FateInv
<1>12. QueueInv(shard)
  <2>1. \A x \in Traces : Once(<<>>, x)
    BY <1>3 DEF Once
  <2>. QED BY ONLY <1>2, <1>3, <2>1, ZenonT(30) DEF QueueInv
<1>13. SizeInv(shard)
  <2>1. IsFiniteSet({}) /\ Cardinality({}) = 0
    BY FS_EmptySet
  <2>. QED BY <1>3, <2>1, SamplingAssumption, SMTT(30) DEF SizeInv
<1>14. ASSUME NEW x \in Traces PROVE TraceInv(shard, x, deciding, Passed)
  <2>1. ~Open(shard, x) /\ RememberInv(shard, x)
    BY ONLY <1>2, <1>3, ZenonT(30) DEF Open, RememberInv, Cached
  <2>2. SpanInv(shard, x)
    BY ONLY <1>6, x \in Traces, ZenonT(30) DEF SpanInv
  <2>3. \A r \in 0 .. CurrentDue(shard) : x \notin BatchOf(shard, r)
    <3>1. ASSUME NEW r \in 0 .. CurrentDue(shard), r # CurrentDue(shard)
          PROVE  shard.slots[SlotOf(shard, r)] = {}
      <4>1. IsShard(shard)
        BY <1>8 DEF IsShard, TypeOK, Held
      <4>2. SlotOf(shard, r) \in N
        BY <3>1, <4>1, DueFacts DEF Slots
      <4>. QED BY <1>2, <4>2
    <3>. QED BY <1>2, <3>1 DEF BatchOf
  <2>. QED BY ONLY <2>1, <2>2, <2>3, ZenonT(30) DEF TraceInv, StoredInv, BatchInv, OnceInv
<1>. QED BY <1>8, <1>9, <1>10, <1>11, <1>12, <1>13, <1>14 DEF IInv

\* No step leaves the invariant.
LEMMA Inductive == IInv /\ [Next]_vars => IInv'
BY Steps

\* The invariant holds always.
LEMMA Invariant == Spec => []IInv
BY Initial, Inductive, PTL DEF Spec

\* A sequence without repetitions is as long as its range is large.
LEMMA OnceLength ==
  ASSUME NEW S, NEW q \in Seq(S), \A x \in S : Once(q, x)
  PROVE  Len(q) = Cardinality(Range(q))
<1>. DEFINE I == 1 .. Len(q)
<1>1. Len(q) \in Nat /\ DOMAIN q = I
  BY LenProperties
<1>2. IsFiniteSet(I) /\ Cardinality(I) = Len(q)
  BY <1>1, FS_Interval, SMTT(30)
<1>3. q \in [I -> Range(q)]
  BY <1>1, LenProperties DEF Range
<1>4. \A i, j \in I : q[i] = q[j] => i = j
  <2>1. \A i \in I : q[i] \in S
    BY <1>1, ElementOfSeq
  <2>. QED BY <1>1, <2>1 DEF Once
<1>5. q \in Bijection(I, Range(q))
  BY <1>1, <1>3, <1>4 DEF Bijection, Injection, Surjection, IsInjective, Range
<1>6. ExistsBijection(I, Range(q))
  BY <1>5 DEF ExistsBijection
<1>. QED BY <1>2, <1>6, FS_Bijection

-----------------------------------------------------------------------------
(* What the processor promises *)

\* Every variable keeps its type, batch IDs and slots stay within the ring of
\* the batcher, and the decision caches keep to their sizes.
THEOREM TypesHold == Spec => []TypeOK
<1>1. IInv => TypeOK
  BY DEF IInv
<1>. QED BY <1>1, Invariant, PTL

\* waitForSpace keeps idToTrace within num_traces, by evicting or by waiting.
THEOREM MemoryIsBounded == Spec => []MemoryBounded
<1>1. IInv => MemoryBounded
  BY DEF IInv, SizeInv, MemoryBounded, Held
<1>. QED BY <1>1, Invariant, PTL

\* deleteTraceQueue lists the traces that waitForSpace may evict, each of them
\* once, and the storage has the spans of these traces and of no others.
THEOREM QueueMatchesMap == Spec => []HeldEverywhere
<1>1. ASSUME IInv, ~cfg.fallible
      PROVE  /\ Len(shard.queue) = (IF cfg.block THEN 0 ELSE Cardinality(Held))
             /\ cfg.block \/ Range(shard.queue) = Held
             /\ \A id \in Traces : shard.storage[id] # {} => id \in Held
             /\ \A id \in Pending : shard.storage[id] # {}
  <2>0. /\ shard.queue \in Seq(Traces) /\ Held \subseteq Traces /\ QueueInv(shard)
        /\ \A x \in Traces : SpanInv(shard, x) /\ StoredInv(shard, x)
    BY <1>1, IInvFacts, ShardFields DEF IInv, TraceInv, TypeOK
  <2>1. CASE cfg.block
    <3>1. Len(shard.queue) = 0
      BY <1>1, <2>0, <2>1, SMTT(30) DEF QueueInv
    <3>. QED BY <1>1, <2>0, <2>1, <3>1 DEF SpanInv, StoredInv, Open, Pending, Held
  <2>2. CASE ~cfg.block
    <3>1. Range(shard.queue) = Held /\ \A x \in Traces : Once(shard.queue, x)
      BY <1>1, <2>0, <2>2 DEF QueueInv, Held
    <3>2. Len(shard.queue) = Cardinality(Held)
      BY <2>0, <3>1, OnceLength
    <3>. QED BY <1>1, <2>0, <2>2, <3>1, <3>2 DEF SpanInv, StoredInv, Open, Pending, Held
  <2>. QED BY <2>1, <2>2
<1>2. IInv => HeldEverywhere
  BY <1>1 DEF HeldEverywhere
<1>. QED BY <1>2, Invariant, PTL

\* A trace that waits for its decision is in the batch that its batch ID names, so
\* samplingPolicyOnTick comes to it, however often it was moved forward; it stays
\* without a decision after that only when the storage found none of its spans.
THEOREM PendingHasBatch == Spec => []PendingIsBatched
<1>1. ASSUME IInv, NEW id \in Pending
      PROVE  \/ id \in deciding \/ pc = "done"
             \/ /\ shard.traces[id].due \in 0 .. CurrentDue(shard)
                /\ id \in BatchOf(shard, shard.traces[id].due)
             \/ ~FindsSpans /\ (shard.traces[id].due = -1 \/ pc = "last")
  <2>1. Open(shard, id) /\ id \in Traces /\ BatchInv(shard, id, deciding, Passed)
    BY <1>1 DEF IInv, TypeOK, TraceInv, Open, Pending, Held
  <2>. QED BY <2>1 DEF BatchInv, Batched, Passed
<1>2. IInv => PendingIsBatched
  BY <1>1 DEF PendingIsBatched
<1>. QED BY <1>2, Invariant, PTL

\* MoveToEarlierBatch leaves no trace behind in the batch it came from: with both
\* caches, no eviction and a storage that works, a batch holds what is due with it.
THEOREM OneBatchEach == Spec => []BatchedOnce
<1>1. ASSUME IInv, Strict, NEW id \in Pending, NEW r \in 0 .. CurrentDue(shard),
             id \in BatchOf(shard, r)
      PROVE  r = shard.traces[id].due
  <2>1. id \in Traces /\ OnceInv(shard, id, deciding)
    BY <1>1 DEF IInv, TypeOK, TraceInv, Pending, Held
  <2>. QED BY <1>1, <2>1 DEF OnceInv
<1>2. IInv => BatchedOnce
  BY <1>1 DEF BatchedOnce, Strict
<1>. QED BY <1>2, Invariant, PTL

\* The two decision caches never disagree, and a trace that one of them remembers
\* is no longer in idToTrace.
THEOREM CachesAgree == Spec => []DecisionRemembered
<1>1. ASSUME IInv, NEW x
      PROVE  x \notin Range(shard.sampled) \cap Range(shard.nonSampled)
  <2>0. IsShard(shard)
    BY <1>1, IInvFacts
  <2>1. Range(shard.sampled) \subseteq Traces
    BY <2>0, ShardFields, RangeType
  <2>. QED BY <1>1, <2>1 DEF IInv, TraceInv, RememberInv
<1>2. ASSUME IInv, NEW id \in Held
      PROVE  /\ ~Cached(shard, id)
             /\ id \notin Pending =>
                  (IF shard.traces[id].decision = "sampled" THEN cfg.sampled ELSE cfg.nonSampled) = 0
  <2>1. id \in Traces /\ RememberInv(shard, id) /\ id \in DOMAIN shard.traces
    BY <1>2 DEF IInv, TypeOK, TraceInv, Held
  <2>. QED BY <2>1 DEF RememberInv, Open, Pending, SizeFor, Held
<1>3. IInv => DecisionRemembered
  <2>. SUFFICES ASSUME IInv PROVE DecisionRemembered
    OBVIOUS
  <2>1. Range(shard.sampled) \cap Range(shard.nonSampled) = {}
    BY <1>1
  <2>. QED BY <1>2, <2>1 DEF DecisionRemembered
<1>. QED BY <1>3, Invariant, PTL

\* Late spans follow the decision on their trace, and what became of spans is
\* final: processCachedTrace and processTrace never contradict a decision that is
\* still known.
THEOREM LateSpansFollow == Spec => FollowsDecision
<1>1. IInv /\ [Next]_vars => [FollowStep]_vars
  BY Steps
<1>. QED BY <1>1, Invariant, PTL DEF Spec, FollowsDecision

\* iter receives the updates that were made before a payload was sent before it
\* works on that payload.
THEOREM UpdatesComeFirst == Spec => []UpdatedBeforeWork
<1>1. IInv => UpdatedBeforeWork
  BY DEF IInv, VersionInv, UpdatedBeforeWork
<1>. QED BY <1>1, Invariant, PTL

\* When the loop ends, workChan is empty, every span that was sent was met and,
\* unless pending traces are dropped or spans were not found, every trace is decided.
THEOREM ShutdownLeavesNothing == Spec => []ShutdownDecides
<1>1. ASSUME IInv, pc = "done"
      PROVE  /\ workChan = <<>> /\ work = <<>>
             /\ cfg.dropPending \/ ~FindsSpans \/ Pending = {}
             /\ \A b \in sent : fate[b] # "none"
  <2>1. /\ workChan = <<>> /\ work = <<>> /\ WorkInv /\ sent \subseteq Spans
        /\ cfg.dropPending \/ ~FindsSpans \/ Pending = {}
    BY <1>1 DEF IInv, PhaseInv, TypeOK
  <2>2. Range(<<>>) = {} /\ DOMAIN <<>> = {}
    BY SMTT(30) DEF Range
  <2>. QED BY <2>1, <2>2 DEF WorkInv
<1>2. IInv => ShutdownDecides
  BY <1>1 DEF ShutdownDecides
<1>. QED BY <1>2, Invariant, PTL
=============================================================================
