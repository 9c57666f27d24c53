------------------------- MODULE TailSamplingTraces -------------------------
(***************************************************************************)
(* The invariant of TailSampling, and what the parts of a step of the      *)
(* loop do to the shard: waiting for space, taking spans in, moving a      *)
(* trace to an earlier batch, deciding, dropping and remembering.          *)
(*                                                                         *)
(* Most of the invariant is a statement about one trace (TraceInv), and    *)
(* each part of a step touches one trace: the one that waitForSpace evicts *)
(* or the one that spans arrive for or that is decided.  The others keep   *)
(* what they have (Same), so what a part does to the invariant is shown    *)
(* for that trace only.                                                    *)
(***************************************************************************)
EXTENDS TailSampling, SeqFacts, TLAPS

\* The leaves are first-order, except for those that cite SMT.
USE ZenonT(30)

Slots == 0 .. NumBatches - 1

\* A shard's state with its caches within their sizes.
IsShard(s) ==
  /\ DOMAIN s.traces \subseteq Traces /\ s \in ShardType(DOMAIN s.traces)
  /\ Len(s.sampled) <= cfg.sampled /\ Len(s.nonSampled) <= cfg.nonSampled

\* The trace x is held without a decision.
Open(s, x) == x \in DOMAIN s.traces /\ s.traces[x].decision = "none"

\* The cache that remembers the decision d, by its size.
SizeFor(d) == IF d = "sampled" THEN cfg.sampled ELSE cfg.nonSampled

\* The traces that no batch is left for: all of them once the last one was taken.
Passed == IF pc \in {"last", "done"} THEN Traces ELSE {}

\* At most one cache knows a trace, a trace that is held is in neither, and a
\* trace that stays in memory once decided has no cache to be remembered in.
RememberInv(s, x) ==
  /\ ~(x \in Range(s.sampled) /\ x \in Range(s.nonSampled))
  /\ x \in DOMAIN s.traces => ~Cached(s, x)
  /\ x \in DOMAIN s.traces /\ ~Open(s, x) => SizeFor(s.traces[x].decision) = 0

\* The spans stored for a trace are its own; with a storage that does not fail,
\* none are stored for one that is known as sampled or that is not held.
SpanInv(s, x) ==
  /\ \A b \in s.storage[x] : TraceOf[b] = x
  /\ ~cfg.fallible /\ Known(s, x) = "sampled" => s.storage[x] = {}
  /\ ~cfg.fallible /\ s.storage[x] # {} => x \in DOMAIN s.traces

\* A trace without a decision has spans, unless a storage that fails lost them.
StoredInv(s, x) == Open(s, x) => s.storage[x] # {} \/ cfg.fallible

\* The batch that the batch ID of x names has x.
Batched(s, x) ==
  s.traces[x].due \in 0 .. CurrentDue(s) /\ x \in BatchOf(s, s.traces[x].due)

\* A trace without a decision is in its batch, or that batch has come: then the
\* trace is in D, the one being worked on, unless its spans may not be found.  L
\* are the traces that no batch is left for.
BatchInv(s, x, D, L) ==
  Open(s, x) => \/ Batched(s, x)
                \/ (s.traces[x].due = -1 \/ x \in L) /\ (x \in D \/ ~FindsSpans)

\* The configurations in which no trace is in a batch it has left: nothing is
\* evicted, nothing is decided on ingest, and both caches keep late spans away.
Strict == /\ cfg.block /\ ~cfg.ingest /\ ~cfg.fallible
          /\ cfg.sampled > 0 /\ cfg.nonSampled > 0

\* Under Strict a batch has only traces that are due with it.
OnceInv(s, x, D) ==
  Strict => \A r \in 0 .. CurrentDue(s) :
              x \in BatchOf(s, r) => Open(s, x) /\ s.traces[x].due = r /\ x \notin D

\* What holds of every trace.
TraceInv(s, x, D, L) ==
  /\ RememberInv(s, x) /\ SpanInv(s, x) /\ StoredInv(s, x)
  /\ BatchInv(s, x, D, L) /\ OnceInv(s, x, D)

\* The queue of traces to evict has those that are held, each once.
QueueInv(s) ==
  ~cfg.fallible => IF cfg.block THEN s.queue = <<>>
                   ELSE Range(s.queue) = DOMAIN s.traces /\ \A x \in Traces : Once(s.queue, x)

\* The limit on the traces held.
SizeInv(s) ==
  /\ IsFiniteSet(DOMAIN s.traces)
  /\ (cfg.fallible /\ ~cfg.block) \/ Cardinality(DOMAIN s.traces) <= NumTraces

\* Updates are applied in the order they are made, and the payload in hand came
\* after none that is not applied.
VersionInv ==
  \A k \in Updates : /\ applied[k] <= issued[k] /\ (work # <<>> => since[k] <= applied[k])
                     /\ \A i \in DOMAIN workChan : workChan[i].since[k] <= issued[k]

\* Where the loop stands: the batcher is stopped and the channel is drained
\* before the last batches are taken.
PhaseInv ==
  /\ pc \in {"run", "wait"} <=> shard.left = -1
  /\ pc \notin {"run", "wait"} => closed /\ work = <<>> /\ workChan = <<>>
  /\ pc = "last" => shard.left = 0 /\ shard.current = {}
  /\ pc = "done" => deciding = {} /\ (cfg.dropPending \/ ~FindsSpans \/ Pending = {})

\* The trace that the loop waits with is not held and not cached, though the
\* caches are not looked at again: nobody else brings it in meanwhile.
WaitInv ==
  pc = "wait" => /\ work # <<>> /\ cfg.block
                 /\ TraceOf[Head(work)] \notin Held /\ ~Cached(shard, TraceOf[Head(work)])

\* Spans that wait are distinct and nothing has become of them yet.
WorkInv ==
  /\ \A i, j \in DOMAIN work : work[i] = work[j] => i = j
  /\ \A i \in DOMAIN workChan : Range(work) \cap Range(workChan[i].spans) = {}
  /\ \A i, j \in DOMAIN workChan :
       Range(workChan[i].spans) \cap Range(workChan[j].spans) # {} => i = j
  /\ \A b \in Spans :
       /\ b \in sent /\ fate[b] = "none" <=>
            b \in Range(work) \/ \E i \in DOMAIN workChan : b \in Range(workChan[i].spans)
       /\ b \notin sent => fate[b] = "none"

\* The spans in the storage are those that count as stored.
FateInv == \A b \in Spans : fate[b] = "stored" <=> b \in shard.storage[TraceOf[b]]

\* The inductive invariant.
IInv ==
  /\ TypeOK /\ VersionInv /\ PhaseInv /\ WaitInv /\ WorkInv /\ FateInv
  /\ QueueInv(shard) /\ SizeInv(shard) /\ \A x \in Traces : TraceInv(shard, x, deciding, Passed)

-----------------------------------------------------------------------------
(* The operators, field by field *)

\* The remainder of the sum of two numbers below n.
LEMMA ModFacts ==
  ASSUME NEW n \in Nat \ {0}, NEW a \in 0 .. n - 1, NEW r \in 0 .. n - 1
  PROVE  /\ (a + r) % n \in 0 .. n - 1
         /\ a + r < n => (a + r) % n = a + r
         /\ ~(a + r < n) => (a + r) % n = a + r - n
<1>1. ASSUME a + r < n PROVE (a + r) % n = a + r
  BY <1>1, SMTT(30)
<1>2. ASSUME ~(a + r < n) PROVE (a + r) % n = a + r - n
  BY <1>2, SMTT(30)
<1>. QED BY <1>1, <1>2, SMTT(30)

\* The slot at a distance from another one.
LEMMA SlotFacts ==
  ASSUME NEW s, s.take \in Slots, NEW r \in Slots
  PROVE  /\ SlotOf(s, r) \in Slots
         /\ s.take + r < NumBatches => SlotOf(s, r) = s.take + r
         /\ ~(s.take + r < NumBatches) => SlotOf(s, r) = s.take + r - NumBatches
<1>1. NumBatches \in Nat \ {0}
  BY SamplingAssumption
<1>. QED BY <1>1, ModFacts DEF Slots, SlotOf

\* The types of the fields of a shard.
LEMMA ShardFields ==
  ASSUME NEW s, IsShard(s)
  PROVE  /\ DOMAIN s.traces \subseteq Traces /\ s.traces \in [DOMAIN s.traces -> TraceType]
         /\ s.storage \in [Traces -> SUBSET Spans] /\ s.queue \in Seq(Traces)
         /\ s.slots \in [Slots -> SUBSET Traces] /\ s.take \in Slots /\ s.current \subseteq Traces
         /\ s.left \in -1 .. NumBatches
         /\ s.sampled \in Seq(Traces) /\ s.nonSampled \in Seq(Traces)
         /\ Len(s.sampled) <= cfg.sampled /\ Len(s.nonSampled) <= cfg.nonSampled
BY DEF IsShard, ShardType, Slots

\* The types of the fields of a configuration.
LEMMA CfgFacts ==
  ASSUME cfg \in Configs
  PROVE  /\ cfg.block \in BOOLEAN /\ cfg.ingest \in BOOLEAN /\ cfg.fallible \in BOOLEAN
         /\ cfg.dropPending \in BOOLEAN /\ cfg.sampled \in Nat /\ cfg.nonSampled \in Nat
BY SamplingAssumption

\* A cache keeps to its size, forgets at most others, and remembers what is put
\* into it unless its size is 0.
LEMMA PutFacts ==
  ASSUME NEW c \in Seq(Traces), NEW size \in Nat, Len(c) <= size, NEW id \in Traces
  PROVE  /\ Put(c, size, id) \in Seq(Traces) /\ Len(Put(c, size, id)) <= size
         /\ Range(Put(c, size, id)) \subseteq Range(c) \cup {id}
         /\ size = 0 => Put(c, size, id) = c /\ Range(c) = {}
         /\ size > 0 => id \in Range(Put(c, size, id))
<1>. DEFINE l == RemoveFirst(c, id)
            p == <<id>> \o l
<1>1. /\ l \in Seq(Traces) /\ Range(l) \subseteq Range(c) /\ Len(l) <= Len(c)
      /\ Len(c) \in Nat /\ Len(l) \in Nat
  BY RemoveFirstFacts, LenProperties, SMTT(30)
<1>2. p \in Seq(Traces) /\ Len(p) = Len(l) + 1 /\ Range(p) = Range(l) \cup {id} /\ p[1] = id
  BY <1>1, PrependFacts, SMTT(30)
<1>3. Put(c, size, id) = IF size = 0 THEN c ELSE IF Len(p) > size THEN Front(p) ELSE p
  BY DEF Put
<1>. HIDE DEF l, p
<1>4. CASE size = 0
  <2>1. c = <<>>
    BY <1>1, <1>4, EmptySeq, SMTT(30)
  <2>. QED BY <1>3, <1>4, <2>1, SMTT(30) DEF Range
<1>5. CASE size > 0 /\ Len(p) <= size
  BY <1>1, <1>2, <1>3, <1>5, SMTT(30)
<1>6. CASE size > 0 /\ Len(p) > size
  <2>. DEFINE f == SubSeq(p, 1, Len(p) - 1)
  <2>1. Len(p) - 1 = size /\ 1 \in 1 .. size /\ Len(p) \in Nat
    BY <1>1, <1>2, <1>6, SMTT(30)
  <2>2. /\ f \in Seq(Traces) /\ Len(f) = size /\ \A i \in 1 .. size : f[i] = p[i]
    BY <1>2, <2>1, SubSeqProperties, SMTT(30)
  <2>3. DOMAIN f = 1 .. size /\ DOMAIN p = 1 .. Len(p)
    BY <1>2, <2>2, LenProperties
  <2>4. Put(c, size, id) = f
    BY <1>3, <1>6, SMTT(30) DEF Front
  <2>. HIDE DEF f
  <2>5. \A i \in DOMAIN f : i \in DOMAIN p /\ f[i] = p[i]
    BY <2>1, <2>2, <2>3, SMTT(30)
  <2>6. Range(f) \subseteq Range(p) /\ id \in Range(f)
    BY <1>2, <2>1, <2>3, <2>5, SMTT(30) DEF Range
  <2>. QED BY <1>1, <1>2, <1>6, <2>2, <2>4, <2>6, SMTT(30)
<1>. QED BY <1>4, <1>5, <1>6, SMTT(30)

\* The element that goes is the only one of its ID when there is only one.
LEMMA RemoveElementFacts ==
  ASSUME NEW q \in Seq(Traces), NEW id
  PROVE  /\ RemoveElement(q, id) \in Seq(Traces)
         /\ q = <<>> => RemoveElement(q, id) = <<>>
         /\ (\A x \in Traces : Once(q, x)) => RemoveElement(q, id) = RemoveFirst(q, id)
<1>. DEFINE I == Places(q, id)
<1>0. Len(q) \in Nat /\ DOMAIN q = 1 .. Len(q)
  BY LenProperties
<1>1. I \subseteq Nat /\ \A i \in I : i <= Len(q) /\ i \in 1 .. Len(q)
  BY <1>0, SMTT(30) DEF Places
<1>. HIDE DEF I
<1>2. ASSUME I # {}
      PROVE  Greatest(I) \in I /\ Least(I) \in I /\ Greatest(I) \in 1 .. Len(q)
  BY <1>0, <1>1, <1>2, MaxIsGreatest, MinIsLeast
<1>3. RemoveElement(q, id) \in Seq(Traces)
  BY <1>2, RemoveAtFacts DEF RemoveElement, I
<1>4. q = <<>> => RemoveElement(q, id) = <<>>
  BY SMTT(30) DEF RemoveElement, Places
<1>5. ASSUME \A x \in Traces : Once(q, x)
      PROVE  RemoveElement(q, id) = RemoveFirst(q, id)
  <2>1. \A i \in DOMAIN q : q[i] \in Traces
    BY <1>0, SMTT(30)
  <2>2. \A i, j \in I : i = j
    BY <1>0, <1>5, <2>1 DEF I, Places, Once
  <2>. QED BY <1>2, <2>2 DEF RemoveElement, RemoveFirst, I
<1>. QED BY <1>3, <1>4, <1>5

-----------------------------------------------------------------------------
(* What stays as it is *)

\* The trace x keeps its decision and its spans, and no cache learns of it.
Kept(s, t, x) ==
  /\ x \in DOMAIN t.traces <=> x \in DOMAIN s.traces
  /\ x \in DOMAIN s.traces => t.traces[x].decision = s.traces[x].decision
  /\ t.storage[x] = s.storage[x]
  /\ x \in Range(t.sampled) => x \in Range(s.sampled)
  /\ x \in Range(t.nonSampled) => x \in Range(s.nonSampled)

\* The trace x keeps its place in the batches.
InPlace(s, t, x) ==
  /\ x \in DOMAIN s.traces => t.traces[x].due = s.traces[x].due
  /\ t.take = s.take /\ CurrentDue(t) = CurrentDue(s)
  /\ x \in t.current <=> x \in s.current
  /\ \A i \in Slots : x \in t.slots[i] <=> x \in s.slots[i]

Same(s, t, x) == Kept(s, t, x) /\ InPlace(s, t, x)

\* What is known of a trace and its spans carries over to a shard that has kept
\* both.
LEMMA KeptKeeps ==
  ASSUME NEW s, NEW t, NEW x, Kept(s, t, x), RememberInv(s, x), SpanInv(s, x)
  PROVE  /\ RememberInv(t, x) /\ SpanInv(t, x) /\ (Open(t, x) <=> Open(s, x))
         /\ StoredInv(s, x) => StoredInv(t, x)
<1>1. Open(t, x) <=> Open(s, x)
  BY DEF Kept, Open
<1>2. RememberInv(t, x)
  BY <1>1 DEF Kept, RememberInv, Cached
<1>3. Known(t, x) = "sampled" => Known(s, x) = "sampled"
  BY DEF Kept, Known, RememberInv, Cached
<1>4. SpanInv(t, x)
  BY <1>3 DEF Kept, SpanInv
<1>5. StoredInv(s, x) => StoredInv(t, x)
  BY <1>1 DEF Kept, StoredInv
<1>. QED BY <1>1, <1>2, <1>4, <1>5

\* The distance of the current batch, and the slots of the nearer ones.
LEMMA DueFacts ==
  ASSUME NEW s, IsShard(s)
  PROVE  /\ CurrentDue(s) \in 0 .. NumBatches
         /\ \A r \in 0 .. CurrentDue(s) : r # CurrentDue(s) => r \in Slots /\ SlotOf(s, r) \in Slots
<1>1. NumBatches \in Nat \ {0} /\ s.left \in -1 .. NumBatches /\ s.take \in Slots
  BY ShardFields, SamplingAssumption
<1>2. CurrentDue(s) \in 0 .. NumBatches
  BY <1>1, SMTT(30) DEF CurrentDue
<1>3. \A r \in 0 .. CurrentDue(s) : r # CurrentDue(s) => r \in Slots
  BY <1>1, <1>2, SMTT(30) DEF Slots
<1>. QED BY <1>1, <1>2, <1>3, SlotFacts

\* A trace that stays in place is in the same batches.
LEMMA InPlaceBatches ==
  ASSUME NEW s, NEW t, NEW x, IsShard(s), InPlace(s, t, x)
  PROVE  \A r \in 0 .. CurrentDue(s) : x \in BatchOf(t, r) <=> x \in BatchOf(s, r)
<1>1. \A r : SlotOf(t, r) = SlotOf(s, r)
  BY DEF InPlace, SlotOf
<1>. QED BY <1>1, DueFacts DEF InPlace, BatchOf

\* What is done to another trace keeps the invariant for x, when other traces
\* enter or leave the batch being worked on and when the last batch was taken.
LEMMA SameKeeps ==
  ASSUME NEW s, NEW t, NEW x, IsShard(s), Same(s, t, x), NEW D, NEW E, NEW L, NEW M,
         TraceInv(s, x, D, L), L \subseteq M, x \in D <=> x \in E
  PROVE  TraceInv(t, x, E, M)
<1>1. /\ RememberInv(t, x) /\ SpanInv(t, x) /\ (Open(t, x) <=> Open(s, x))
      /\ StoredInv(t, x)
  BY KeptKeeps DEF Same, TraceInv
<1>2. /\ \A r \in 0 .. CurrentDue(s) : x \in BatchOf(t, r) <=> x \in BatchOf(s, r)
      /\ CurrentDue(t) = CurrentDue(s)
      /\ x \in DOMAIN s.traces => t.traces[x].due = s.traces[x].due
  BY InPlaceBatches DEF Same, InPlace
<1>3. BatchInv(t, x, E, M)
  BY <1>1, <1>2 DEF TraceInv, BatchInv, Batched, Open
<1>4. OnceInv(t, x, E)
  BY <1>1, <1>2 DEF TraceInv, OnceInv, Open
<1>. QED BY <1>1, <1>3, <1>4 DEF TraceInv

-----------------------------------------------------------------------------
(* Traces that are dropped and decisions that are remembered *)

\* From s to t, the trace id is decided or dropped and the rest stays.
Settled(s, t, id) ==
  /\ IsShard(t) /\ QueueInv(t)
  /\ t.slots = s.slots /\ t.take = s.take /\ t.current = s.current /\ t.left = s.left
  /\ \A x \in Traces \ {id} : Same(s, t, x)
  /\ RememberInv(t, id) /\ SpanInv(t, id) /\ ~Open(t, id)
  /\ DOMAIN t.traces \subseteq DOMAIN s.traces /\ t.storage[id] \subseteq s.storage[id]

Dropped(s, t, id) ==
  /\ IsShard(t) /\ QueueInv(t)
  /\ t.slots = s.slots /\ t.take = s.take /\ t.current = s.current /\ t.left = s.left
  /\ t.sampled = s.sampled /\ t.nonSampled = s.nonSampled
  /\ \A x \in Traces \ {id} : Same(s, t, x)
  /\ DOMAIN t.traces = DOMAIN s.traces \ {id}
  /\ t.storage[id] \in {s.storage[id], {}} /\ (~cfg.fallible => t.storage[id] = {})

\* What dropTrace does, field by field.
LEMMA DropFacts ==
  ASSUME NEW s, IsShard(s), NEW id \in DOMAIN s.traces, NEW fails,
         NEW t, t = dropTrace(s, id, fails),
         ~cfg.fallible => "delete" \notin fails, QueueInv(s)
  PROVE  Dropped(s, t, id)
<1>1. /\ id \in Traces /\ s.storage \in [Traces -> SUBSET Spans]
      /\ s.queue \in Seq(Traces) /\ RemoveElement(s.queue, id) \in Seq(Traces)
  BY ShardFields, RemoveElementFacts
<1>2. /\ t.traces = [x \in DOMAIN s.traces \ {id} |-> s.traces[x]]
      /\ t.storage = IF "delete" \in fails THEN s.storage ELSE [s.storage EXCEPT ![id] = {}]
      /\ t.queue = IF "delete" \in fails THEN s.queue ELSE RemoveElement(s.queue, id)
      /\ t.slots = s.slots /\ t.take = s.take /\ t.current = s.current /\ t.left = s.left
      /\ t.sampled = s.sampled /\ t.nonSampled = s.nonSampled /\ IsShard(t)
  BY <1>1 DEF IsShard, ShardType, dropTrace
<1>3. /\ DOMAIN t.traces = DOMAIN s.traces \ {id}
      /\ \A x \in DOMAIN t.traces : t.traces[x] = s.traces[x]
  BY <1>2
<1>4. /\ t.storage[id] \in {s.storage[id], {}}
      /\ \A x \in Traces \ {id} : t.storage[x] = s.storage[x]
      /\ ~cfg.fallible => t.storage[id] = {}
  BY <1>1, <1>2
<1>5. CurrentDue(t) = CurrentDue(s)
  BY <1>2 DEF CurrentDue
<1>6. \A x \in Traces \ {id} : Same(s, t, x)
  BY <1>2, <1>3, <1>4, <1>5 DEF Same, Kept, InPlace
<1>7. QueueInv(t)
  <2>1. CASE cfg.fallible
    BY <2>1 DEF QueueInv
  <2>2. CASE ~cfg.fallible
    <3>1. t.queue = RemoveElement(s.queue, id)
      BY <1>2, <2>2
    <3>2. s.queue = <<>> => t.queue = <<>>
      BY <1>1, <3>1, RemoveElementFacts
    <3>3. ASSUME \A x \in Traces : Once(s.queue, x)
          PROVE  Range(t.queue) = Range(s.queue) \ {id} /\ \A x \in Traces : Once(t.queue, x)
      <4>1. t.queue = RemoveFirst(s.queue, id)
        BY <1>1, <3>1, <3>3, RemoveElementFacts
      <4>2. ASSUME NEW x \in Traces PROVE Once(t.queue, x)
        <5>1. Once(s.queue, x)
          BY <3>3
        <5>2. Once(RemoveFirst(s.queue, id), x)
          BY <1>1, <5>1, RemoveFirstOnce
        <5>. QED BY <4>1, <5>2
      <4>3. id \notin Range(t.queue)
        BY <1>1, <3>3, <4>1, RemoveFirstOnce
      <4>4. /\ Range(t.queue) \subseteq Range(s.queue)
            /\ \A x \in Range(s.queue) : x # id => x \in Range(t.queue)
        BY <1>1, <4>1, RemoveFirstFacts
      <4>. QED BY <4>2, <4>3, <4>4
    <3>. QED BY <1>3, <2>2, <3>2, <3>3 DEF QueueInv
  <2>. QED BY <2>1, <2>2
<1>. QED BY <1>2, <1>3, <1>4, <1>6, <1>7 DEF Dropped

\* A trace that was dropped is no longer held, and its part of the invariant
\* holds.
LEMMA DropOutcome ==
  ASSUME NEW s, IsShard(s), NEW id \in DOMAIN s.traces, NEW fails,
         NEW t, t = dropTrace(s, id, fails),
         ~cfg.fallible => "delete" \notin fails, QueueInv(s), RememberInv(s, id),
         \A b \in s.storage[id] : TraceOf[b] = id
  PROVE  Settled(s, t, id) /\ DOMAIN t.traces = DOMAIN s.traces \ {id}
<1>1. Dropped(s, t, id)
  BY DropFacts
<1>2. RememberInv(t, id) /\ ~Open(t, id)
  BY <1>1 DEF RememberInv, Open, Dropped
<1>3. Known(t, id) # "sampled"
  BY <1>1 DEF Known, RememberInv, Cached, Dropped
<1>4. SpanInv(t, id)
  BY <1>1, <1>3 DEF SpanInv, Dropped
<1>. QED BY <1>1, <1>2, <1>4 DEF Settled, Dropped

\* A trace that two steps leave alone is left alone by both together.
LEMMA SameTwice ==
  ASSUME NEW s, NEW t, NEW u, NEW x, Same(s, t, x), Same(t, u, x)
  PROVE  Same(s, u, x)
<1>1. Kept(s, u, x)
  BY DEF Same, Kept
<1>2. InPlace(s, u, x)
  BY DEF Same, Kept, InPlace
<1>. QED BY <1>1, <1>2 DEF Same

\* The decision d is on the trace and in its cache, when that has a size, and
\* then the trace goes.
LEMMA RememberOutcome ==
  ASSUME NEW s, IsShard(s), NEW id \in DOMAIN s.traces, NEW fails, NEW d, NEW w, NEW t,
         ~cfg.fallible => "delete" \notin fails, QueueInv(s),
         \A b \in s.storage[id] : TraceOf[b] = id,
         d = "sampled" /\ ~cfg.fallible => s.storage[id] = {},
         IsShard(w), \A x \in Traces \ {id} : Same(s, w, x), DOMAIN w.traces = DOMAIN s.traces,
         w.storage = s.storage, w.queue = s.queue, w.slots = s.slots, w.take = s.take,
         w.current = s.current, w.left = s.left,
         w.traces[id].decision = d, d # "none",
         id \in Range(w.sampled) => d = "sampled", id \in Range(w.nonSampled) => d # "sampled",
         SizeFor(d) # 0 => Cached(w, id), t = IF Cached(w, id) THEN dropTrace(w, id, fails) ELSE w
  PROVE  Settled(s, t, id)
<1>1. QueueInv(w)
  BY DEF QueueInv
<1>2. CASE Cached(w, id)
  <2>1. Dropped(w, t, id)
    BY <1>1, <1>2, DropFacts
  <2>2. RememberInv(t, id) /\ ~Open(t, id)
    BY <2>1 DEF RememberInv, Open, Dropped
  <2>3. Known(t, id) = "sampled" => d = "sampled"
    BY <2>1 DEF Known, Dropped
  <2>4. SpanInv(t, id)
    BY <2>1, <2>3 DEF SpanInv, Dropped
  <2>5. \A x \in Traces \ {id} : Same(s, t, x)
    BY <2>1, SameTwice DEF Dropped
  <2>. QED BY <2>1, <2>2, <2>4, <2>5 DEF Settled, Dropped
<1>3. CASE ~Cached(w, id)
  <2>1. t = w
    BY <1>3
  <2>2. RememberInv(t, id) /\ ~Open(t, id)
    BY <1>3, <2>1 DEF RememberInv, Open, Cached
  <2>3. Known(t, id) = "sampled" => d = "sampled"
    BY <2>1 DEF Known
  <2>4. SpanInv(t, id)
    BY <2>1, <2>3 DEF SpanInv
  <2>. QED BY <1>1, <2>1, <2>2, <2>4 DEF Settled
<1>. QED BY <1>2, <1>3

\* Writing down a decision changes that field of that trace and nothing else.
LEMMA DecidedFacts ==
  ASSUME NEW s, IsShard(s), NEW id \in DOMAIN s.traces, NEW d \in {"sampled", "not", "dropped"},
         NEW v, v = Decided(s, id, d)
  PROVE  /\ IsShard(v) /\ v.traces[id].decision = d /\ DOMAIN v.traces = DOMAIN s.traces
         /\ \A x \in Traces \ {id} : x \in DOMAIN s.traces => v.traces[x] = s.traces[x]
         /\ v.storage = s.storage /\ v.queue = s.queue /\ v.slots = s.slots /\ v.take = s.take
         /\ v.current = s.current /\ v.left = s.left
         /\ v.sampled = s.sampled /\ v.nonSampled = s.nonSampled
<1>. DEFINE m == Assign(s.traces, id, [s.traces[id] EXCEPT !.decision = d])
<1>0. v = [s EXCEPT !.traces = m]
  BY DEF Decided
<1>1. s.traces \in [DOMAIN s.traces -> TraceType]
  BY ShardFields
<1>2. [s.traces[id] EXCEPT !.decision = d] \in TraceType
  BY <1>1 DEF TraceType
<1>3. DOMAIN m = DOMAIN s.traces /\ m \in [DOMAIN s.traces -> TraceType]
  BY <1>1, <1>2 DEF Assign
<1>4. m[id].decision = d /\ \A x \in Traces \ {id} : x \in DOMAIN s.traces => m[x] = s.traces[x]
  BY <1>1 DEF TraceType, Assign
<1>. HIDE DEF m
<1>. QED BY <1>0, <1>3, <1>4 DEF IsShard, ShardType

\* Remembering is for the trace it is about: the others may be forgotten.
LEMMA ReleaseOutcome ==
  ASSUME NEW s, IsShard(s), NEW id \in DOMAIN s.traces, NEW fails,
         NEW d \in {"sampled", "not", "dropped"}, NEW t, t = Release(s, id, d, fails),
         cfg \in Configs, ~cfg.fallible => "delete" \notin fails, QueueInv(s), RememberInv(s, id),
         \A b \in s.storage[id] : TraceOf[b] = id,
         d = "sampled" /\ ~cfg.fallible => s.storage[id] = {}
  PROVE  Settled(s, t, id)
<1>. DEFINE v == Decided(s, id, d)
            size == SizeFor(d)
            c == Put(IF d = "sampled" THEN s.sampled ELSE s.nonSampled, size, id)
            w == IF d = "sampled" THEN [v EXCEPT !.sampled = c] ELSE [v EXCEPT !.nonSampled = c]
<1>0. /\ id \in Traces /\ s.sampled \in Seq(Traces) /\ s.nonSampled \in Seq(Traces)
      /\ Len(s.sampled) <= cfg.sampled /\ Len(s.nonSampled) <= cfg.nonSampled
      /\ cfg.sampled \in Nat /\ cfg.nonSampled \in Nat
  BY ShardFields, CfgFacts
<1>1. /\ IsShard(v) /\ v.traces[id].decision = d /\ DOMAIN v.traces = DOMAIN s.traces
      /\ \A x \in Traces \ {id} : x \in DOMAIN s.traces => v.traces[x] = s.traces[x]
      /\ v.storage = s.storage /\ v.queue = s.queue /\ v.slots = s.slots /\ v.take = s.take
      /\ v.current = s.current /\ v.left = s.left
      /\ v.sampled = s.sampled /\ v.nonSampled = s.nonSampled
  BY DecidedFacts, SMTT(30)
<1>2. ASSUME d = "sampled" 
      PROVE  /\ c \in Seq(Traces) /\ Len(c) <= cfg.sampled /\ Range(c) \subseteq Range(s.sampled) \cup {id}
             /\ (size = 0 => c = s.sampled) /\ (size > 0 => id \in Range(c))
  BY <1>0, <1>2, PutFacts, SMTT(30) DEF SizeFor
<1>3. ASSUME d # "sampled" 
      PROVE  /\ c \in Seq(Traces) /\ Len(c) <= cfg.nonSampled /\ Range(c) \subseteq Range(s.nonSampled) \cup {id}
             /\ (size = 0 => c = s.nonSampled) /\ (size > 0 => id \in Range(c))
  BY <1>0, <1>3, PutFacts, SMTT(30) DEF SizeFor
<1>4. size \in Nat
  BY <1>0 DEF SizeFor
<1>5. id \notin Range(s.sampled) /\ id \notin Range(s.nonSampled)
  BY DEF RememberInv, Cached
<1>6. t = IF d = "sampled" THEN IF id \in Range(w.sampled) THEN dropTrace(w, id, fails) ELSE w
                           ELSE IF id \in Range(w.nonSampled) THEN dropTrace(w, id, fails) ELSE w
  BY <1>1 DEF Release, releaseSampledTrace, releaseNotSampledTrace, SizeFor
<1>. HIDE DEF v, c
<1>7. /\ IsShard(w) /\ w.traces = v.traces
      /\ w.storage = s.storage /\ w.queue = s.queue /\ w.slots = s.slots /\ w.take = s.take
      /\ w.current = s.current /\ w.left = s.left
      /\ w.sampled = (IF d = "sampled" THEN c ELSE s.sampled)
      /\ w.nonSampled = (IF d = "sampled" THEN s.nonSampled ELSE c)
  BY <1>1, <1>2, <1>3 DEF IsShard, ShardType
<1>. HIDE DEF w
<1>8. \A x \in Traces \ {id} : Same(s, w, x)
  BY <1>1, <1>2, <1>3, <1>7 DEF Same, Kept, InPlace, CurrentDue
<1>9. /\ id \in Range(w.sampled) => d = "sampled"
      /\ id \in Range(w.nonSampled) => d # "sampled"
      /\ size # 0 => Cached(w, id)
  BY <1>2, <1>3, <1>4, <1>5, <1>7, SMTT(30) DEF Cached
<1>10. t = IF Cached(w, id) THEN dropTrace(w, id, fails) ELSE w
  BY <1>6, <1>9 DEF Cached
<1>11. w.traces[id].decision = d /\ DOMAIN w.traces = DOMAIN s.traces /\ d # "none"
  BY <1>1, <1>7
<1>. QED BY <1>7, <1>8, <1>9, <1>10, <1>11, RememberOutcome

ShardInv(s, D, L) == IsShard(s) /\ QueueInv(s) /\ \A x \in Traces : TraceInv(s, x, D, L)

Unbatched(s, x) == \A r \in 0 .. CurrentDue(s) : x \notin BatchOf(s, r)

Others(s, id, D, L) == \A x \in Traces \ {id} : TraceInv(s, x, D, L)

\* A trace that is decided or gone needs no batch, so the invariant holds for it
\* whatever it was before, and still holds for the others.
LEMMA Settle ==
  ASSUME NEW s, NEW t, NEW id \in Traces, IsShard(s), Settled(s, t, id),
         NEW D, NEW E, NEW L, Others(s, id, D, L), D \ {id} = E \ {id},
         Strict => Unbatched(s, id)
  PROVE  ShardInv(t, E, L)
<1>0. /\ \A x \in Traces \ {id} : Same(s, t, x)
      /\ IsShard(t) /\ QueueInv(t) /\ RememberInv(t, id) /\ SpanInv(t, id) /\ ~Open(t, id)
  BY DEF Settled
<1>1. ASSUME NEW x \in Traces, x # id PROVE TraceInv(t, x, E, L)
  <2>1. TraceInv(s, x, D, L) /\ Same(s, t, x) /\ (x \in D <=> x \in E)
    BY <1>0, <1>1 DEF Others
  <2>. QED BY <2>1, SameKeeps
<1>2. Strict => Unbatched(t, id)
  BY DEF Settled, Unbatched, CurrentDue, BatchOf, SlotOf
<1>3. TraceInv(t, id, E, L)
  BY <1>0, <1>2 DEF TraceInv, StoredInv, BatchInv, OnceInv, Unbatched
<1>. QED BY <1>0, <1>1, <1>3 DEF ShardInv

-----------------------------------------------------------------------------
(* Room for a trace *)

\* Between s and t, one trace at most was evicted.
Waited(s, t) ==
  /\ t.left = s.left /\ t.sampled = s.sampled /\ t.nonSampled = s.nonSampled
  /\ DOMAIN t.traces \subseteq DOMAIN s.traces
  /\ \A x \in Traces : t.storage[x] \subseteq s.storage[x]
  /\ ~cfg.fallible /\ DOMAIN s.traces # {} =>
       \E y \in DOMAIN s.traces : DOMAIN t.traces = DOMAIN s.traces \ {y}

\* Only the queue differs.
Requeued(s, t) ==
  /\ t.traces = s.traces /\ t.storage = s.storage /\ t.slots = s.slots /\ t.take = s.take
  /\ t.current = s.current /\ t.left = s.left /\ t.sampled = s.sampled /\ t.nonSampled = s.nonSampled

\* Moving an element of the queue touches no trace.
LEMMA RequeuedSame ==
  ASSUME NEW s, NEW t, Requeued(s, t), NEW x
  PROVE  Same(s, t, x)
BY DEF Requeued, Same, Kept, InPlace, CurrentDue

\* Evicting a trace keeps the invariant of the shard.
LEMMA DropInv ==
  ASSUME NEW s, NEW L, ShardInv(s, {}, L), NEW id \in DOMAIN s.traces, NEW fails,
         NEW t, t = dropTrace(s, id, fails), ~cfg.fallible => "delete" \notin fails, ~cfg.block
  PROVE  ShardInv(t, {}, L) /\ Dropped(s, t, id)
<1>1. /\ IsShard(s) /\ QueueInv(s) /\ id \in Traces
      /\ \A x \in Traces : TraceInv(s, x, {}, L)
  BY DEF ShardInv, IsShard
<1>2. RememberInv(s, id) /\ \A b \in s.storage[id] : TraceOf[b] = id
  BY <1>1 DEF TraceInv, SpanInv
<1>3. Settled(s, t, id) /\ Dropped(s, t, id)
  BY <1>1, <1>2, DropOutcome, DropFacts
<1>4. ShardInv(t, {}, L)
  <2>1. Others(s, id, {}, L) /\ (Strict => Unbatched(s, id))
    BY <1>1 DEF Others, Strict
  <2>. QED BY <1>1, <1>3, <2>1, Settle
<1>. QED BY <1>3, <1>4

\* waitForSpace without blocking keeps the invariant of the shard, and evicts
\* the oldest trace at most.
LEMMA WaitOutcome ==
  ASSUME NEW s, NEW L, ShardInv(s, {}, L), NEW fails, NEW t, t = waitForSpace(s, fails),
         ~cfg.block, ~cfg.fallible => "delete" \notin fails
  PROVE  ShardInv(t, {}, L) /\ Waited(s, t)
<1>0. IsShard(s) /\ QueueInv(s) /\ s.queue \in Seq(Traces)
  BY ShardFields DEF ShardInv
<1>1. CASE s.queue = <<>>
  <2>1. t = s
    BY <1>1 DEF waitForSpace
  <2>2. ~cfg.fallible => DOMAIN s.traces = {}
    <3>1. Range(s.queue) = {}
      BY <1>1, SMTT(30) DEF Range
    <3>. QED BY <1>0, <3>1 DEF QueueInv
  <2>. QED BY <2>1, <2>2 DEF Waited
<1>2. CASE s.queue # <<>>
  <2>. DEFINE id == Head(s.queue)
              u == dropTrace(s, id, fails)
              v == [u EXCEPT !.queue = Tail(u.queue)]
  <2>0. id \in Traces /\ id \in Range(s.queue)
    BY <1>0, <1>2, TailFacts
  <2>1. t = IF id \in DOMAIN s.traces /\ "delete" \notin fails THEN u ELSE v
    BY <1>2 DEF waitForSpace
  <2>2. ~cfg.fallible => id \in DOMAIN s.traces
    BY <1>0, <2>0 DEF QueueInv
  <2>3. id \notin DOMAIN s.traces => u = s
    BY DEF dropTrace
  <2>. HIDE DEF u
  <2>4. id \in DOMAIN s.traces => ShardInv(u, {}, L) /\ Dropped(s, u, id)
    BY DropInv DEF u
  <2>. HIDE DEF id
  <2>5. ShardInv(u, {}, L) /\ Waited(s, u) /\ (cfg.fallible => u.queue = s.queue \/ t = u)
    <3>1. CASE id \in DOMAIN s.traces
      <4>1. ShardInv(u, {}, L) /\ Dropped(s, u, id)
        BY <2>4, <3>1
      <4>2. \A x \in Traces : u.storage[x] \subseteq s.storage[x]
        BY <4>1 DEF Dropped, Same, Kept
      <4>3. Waited(s, u)
        BY <3>1, <4>1, <4>2 DEF Waited, Dropped
      <4>4. t = u \/ u.queue = s.queue
        BY <2>1, <3>1, <1>0 DEF u, dropTrace, IsShard, ShardType
      <4>. QED BY <4>1, <4>3, <4>4
    <3>2. CASE id \notin DOMAIN s.traces
      BY <2>2, <2>3, <3>2 DEF Waited
    <3>. QED BY <3>1, <3>2
  <2>6. CASE t = u
    BY <2>5, <2>6
  <2>7. CASE t # u
    <3>1. cfg.fallible /\ t = v /\ u.queue = s.queue
      BY <2>1, <2>2, <2>5, <2>7
    <3>2. IsShard(u) /\ \A x \in Traces : TraceInv(u, x, {}, L)
      BY <2>5 DEF ShardInv
    <3>3. Tail(u.queue) \in Seq(Traces)
      BY <1>0, <1>2, <3>1, TailFacts
    <3>4. IsShard(v) /\ Requeued(u, v)
      BY <3>2, <3>3 DEF IsShard, ShardType, Requeued
    <3>. HIDE DEF v
    <3>5. \A x \in Traces : TraceInv(v, x, {}, L)
      BY <3>2, <3>4, RequeuedSame, SameKeeps
    <3>6. Waited(s, v)
      BY <2>5, <3>4 DEF Waited, Requeued
    <3>. QED BY <3>1, <3>4, <3>5, <3>6 DEF ShardInv, QueueInv
  <2>. QED BY <2>6, <2>7
<1>. QED BY <1>1, <1>2

-----------------------------------------------------------------------------
(* Batches *)

\* Different distances from the next batch are different slots of the ring.
LEMMA SlotsDiffer ==
  ASSUME NEW s, s.take \in Slots, NEW r \in Slots, NEW q \in Slots, SlotOf(s, r) = SlotOf(s, q)
  PROVE  r = q
<1>1. NumBatches \in Nat \ {0}
  BY SamplingAssumption
<1>. DEFINE a == s.take
            i == SlotOf(s, r)
            j == SlotOf(s, q)
<1>2. /\ a + r < NumBatches => i = a + r
      /\ ~(a + r < NumBatches) => i = a + r - NumBatches
      /\ a + q < NumBatches => j = a + q
      /\ ~(a + q < NumBatches) => j = a + q - NumBatches
      /\ i = j /\ a \in Slots
  BY SlotFacts
<1>. HIDE DEF a, i, j
<1>. QED BY <1>1, <1>2, SMTT(30) DEF Slots

\* Between s and t, id left the batch at the distance r and nothing else changed.
Unplaced(s, t, id, r) ==
  /\ IsShard(t) /\ t.traces = s.traces /\ t.storage = s.storage /\ t.queue = s.queue
  /\ t.take = s.take /\ t.left = s.left /\ t.sampled = s.sampled /\ t.nonSampled = s.nonSampled
  /\ CurrentDue(t) = CurrentDue(s) /\ \A x \in Traces \ {id} : Same(s, t, x)
  /\ \A q \in 0 .. CurrentDue(s) : id \in BatchOf(t, q) <=> id \in BatchOf(s, q) /\ q # r

\* Removing a trace from the batch at distance r takes it out of that batch and
\* out of no other.
LEMMA UnplaceOutcome ==
  ASSUME NEW s, IsShard(s), NEW id \in Traces, NEW r \in Int, NEW t, t = RemoveFromBatch(s, id, r)
  PROVE  Unplaced(s, t, id, r)
<1>0. /\ s.slots \in [Slots -> SUBSET Traces] /\ s.current \subseteq Traces /\ s.take \in Slots
      /\ CurrentDue(s) \in 0 .. NumBatches /\ CurrentDue(s) \in Int /\ NumBatches \in Nat
  BY ShardFields, DueFacts, SamplingAssumption, SMTT(30)
<1>1. CASE r = CurrentDue(s)
  <2>1. t = [s EXCEPT !.current = @ \ {id}]
    BY <1>1 DEF RemoveFromBatch
  <2>2. /\ IsShard(t) /\ t.traces = s.traces /\ t.storage = s.storage /\ t.queue = s.queue
        /\ t.take = s.take /\ t.left = s.left /\ t.sampled = s.sampled /\ t.nonSampled = s.nonSampled
        /\ t.slots = s.slots /\ t.current = s.current \ {id}
    BY <1>0, <2>1 DEF IsShard, ShardType
  <2>3. CurrentDue(t) = CurrentDue(s)
    BY <2>2 DEF CurrentDue
  <2>4. \A x \in Traces \ {id} : Same(s, t, x)
    BY <2>2, <2>3 DEF Same, Kept, InPlace
  <2>5. \A q \in 0 .. CurrentDue(s) : id \in BatchOf(t, q) <=> id \in BatchOf(s, q) /\ q # r
    BY <1>1, <2>2, <2>3 DEF BatchOf, SlotOf
  <2>. QED BY <2>2, <2>3, <2>4, <2>5 DEF Unplaced
<1>2. CASE r # CurrentDue(s) /\ r \in 0 .. CurrentDue(s) - 1
  <2>. DEFINE i == SlotOf(s, r)
  <2>0. r \in Slots /\ i \in Slots
    BY <1>0, <1>2, SlotFacts, SMTT(30) DEF Slots
  <2>1. t = [s EXCEPT !.slots[i] = @ \ {id}]
    BY <1>2 DEF RemoveFromBatch
  <2>. HIDE DEF i
  <2>. DEFINE m == [s.slots EXCEPT ![i] = @ \ {id}]
  <2>7. t = [s EXCEPT !.slots = m] /\ m \in [0 .. NumBatches - 1 -> SUBSET Traces]
    BY <1>0, <2>0, <2>1 DEF Slots
  <2>. HIDE DEF m
  <2>2. /\ IsShard(t) /\ t.traces = s.traces /\ t.storage = s.storage /\ t.queue = s.queue
        /\ t.take = s.take /\ t.left = s.left /\ t.sampled = s.sampled /\ t.nonSampled = s.nonSampled
        /\ t.current = s.current /\ t.slots = m
    BY <2>7 DEF IsShard, ShardType
  <2>3. CurrentDue(t) = CurrentDue(s)
    BY <2>2 DEF CurrentDue
  <2>4. \A x \in Traces \ {id} : \A k \in Slots : x \in t.slots[k] <=> x \in s.slots[k]
    BY <1>0, <2>0, <2>2 DEF m
  <2>5. \A x \in Traces \ {id} : Same(s, t, x)
    BY <2>2, <2>3, <2>4 DEF Same, Kept, InPlace
  <2>6. ASSUME NEW q \in 0 .. CurrentDue(s)
        PROVE  id \in BatchOf(t, q) <=> id \in BatchOf(s, q) /\ q # r
    <3>1. CASE q = CurrentDue(s)
      BY <1>2, <2>2, <2>3, <3>1 DEF BatchOf
    <3>2. CASE q # CurrentDue(s)
      <4>1. q \in Slots /\ SlotOf(s, q) \in Slots /\ SlotOf(t, q) = SlotOf(s, q)
        BY <2>2, <3>2, DueFacts DEF SlotOf
      <4>2. SlotOf(s, q) = i <=> q = r
        BY <1>0, <2>0, <4>1, SlotsDiffer DEF i
      <4>3. id \in t.slots[SlotOf(s, q)] <=> id \in s.slots[SlotOf(s, q)] /\ SlotOf(s, q) # i
        BY <1>0, <2>0, <2>2, <4>1, SMTT(30) DEF m
      <4>. QED BY <2>3, <3>2, <4>1, <4>2, <4>3 DEF BatchOf
    <3>. QED BY <3>1, <3>2
  <2>. QED BY <2>2, <2>3, <2>5, <2>6 DEF Unplaced
<1>3. CASE r \notin 0 .. CurrentDue(s)
  <2>1. t = s
    BY <1>0, <1>3, SMTT(30) DEF RemoveFromBatch
  <2>. QED BY <1>3, <2>1 DEF Unplaced, Same, Kept, InPlace
<1>4. r # CurrentDue(s) /\ r \notin 0 .. CurrentDue(s) - 1 => r \notin 0 .. CurrentDue(s)
  BY <1>0, SMTT(30)
<1>. QED BY <1>1, <1>2, <1>3, <1>4

-----------------------------------------------------------------------------
(* Spans that arrive *)

\* The trace id is held and all is well with it, but for its spans.
Arriving(s, id, L) ==
  /\ IsShard(s) /\ QueueInv(s) /\ Others(s, id, {}, L)
  /\ id \in DOMAIN s.traces /\ s.left = -1 /\ ~Cached(s, id)
  /\ RememberInv(s, id) /\ SpanInv(s, id) /\ BatchInv(s, id, {}, L) /\ OnceInv(s, id, {})

\* Between s and t, spans came for the trace id.
Came(s, t, id) ==
  /\ DOMAIN t.traces = DOMAIN s.traces \cup {id} /\ t.storage = s.storage
  /\ t.sampled = s.sampled /\ t.nonSampled = s.nonSampled
  /\ t.traces[id].decision = IF id \in DOMAIN s.traces THEN s.traces[id].decision ELSE "none"

Fresh(s, id) ==
  LET new == [decision |-> "none", due |-> NumBatches, size |-> 0]
  IN  IF id \in DOMAIN s.traces THEN s
      ELSE [s EXCEPT !.traces = Assign(@, id, new), !.current = @ \cup {id},
                     !.queue = IF cfg.block THEN @ ELSE Append(@, id)]

\* A trace that is new is held, in its batch and in the queue, before its spans
\* are stored.
LEMMA FreshOutcome ==
  ASSUME NEW s, NEW L, ShardInv(s, {}, L), NEW id \in Traces, ~Cached(s, id), s.left = -1,
         NEW t, t = Fresh(s, id), cfg.block \in BOOLEAN
  PROVE  Arriving(t, id, L) /\ Came(s, t, id)
<1>0. /\ IsShard(s) /\ QueueInv(s) /\ Others(s, id, {}, L) /\ TraceInv(s, id, {}, L)
      /\ RememberInv(s, id) /\ SpanInv(s, id) /\ BatchInv(s, id, {}, L) /\ OnceInv(s, id, {})
  BY DEF ShardInv, TraceInv, Others
<1>1. CASE id \in DOMAIN s.traces
  <2>1. t = s
    BY <1>1 DEF Fresh
  <2>. QED BY <1>0, <1>1, <2>1 DEF Arriving, Came
<1>2. CASE id \notin DOMAIN s.traces
  <2>. DEFINE new == [decision |-> "none", due |-> NumBatches, size |-> 0]
              m == Assign(s.traces, id, new)
              q == IF cfg.block THEN s.queue ELSE Append(s.queue, id)
  <2>0. /\ s.traces \in [DOMAIN s.traces -> TraceType] /\ DOMAIN s.traces \subseteq Traces
        /\ s.queue \in Seq(Traces) /\ NumBatches \in Nat \ {0} /\ s.current \subseteq Traces
    BY <1>0, ShardFields, SamplingAssumption
  <2>1. new \in TraceType /\ new.decision = "none" /\ new.due = NumBatches
    BY <2>0, SMTT(30) DEF TraceType
  <2>. HIDE DEF new
  <2>2. /\ DOMAIN m = DOMAIN s.traces \cup {id} /\ m[id] = new
        /\ \A x \in DOMAIN s.traces : m[x] = s.traces[x]
    BY <1>2 DEF Assign
  <2>3. m \in [DOMAIN s.traces \cup {id} -> TraceType]
    BY <2>0, <2>1 DEF Assign
  <2>4. q \in Seq(Traces)
    BY <2>0, AppendFacts
  <2>5. t = [s EXCEPT !.traces = m, !.current = @ \cup {id}, !.queue = q]
    BY <1>2 DEF Fresh, new
  <2>. HIDE DEF m, q
  <2>6. /\ t.traces = m /\ t.storage = s.storage /\ t.queue = q
        /\ t.slots = s.slots /\ t.take = s.take /\ t.left = s.left
        /\ t.sampled = s.sampled /\ t.nonSampled = s.nonSampled
        /\ t.current = s.current \cup {id} /\ IsShard(t)
    <3>. DEFINE c == s.current \cup {id}
                held == DOMAIN s.traces \cup {id}
    <3>1. c \in SUBSET Traces /\ held \subseteq Traces /\ m \in [held -> TraceType] /\ DOMAIN m = held
      BY <2>0, <2>2, <2>3
    <3>2. t = [s EXCEPT !.traces = m, !.current = c, !.queue = q]
      BY <2>5
    <3>. HIDE DEF c, held
    <3>3. /\ t.traces = m /\ t.storage = s.storage /\ t.queue = q
          /\ t.slots = s.slots /\ t.take = s.take /\ t.left = s.left
          /\ t.sampled = s.sampled /\ t.nonSampled = s.nonSampled
          /\ t.current = c /\ t \in ShardType(held)
      BY <1>0, <2>4, <3>1, <3>2 DEF IsShard, ShardType
    <3>4. IsShard(t)
      BY <1>0, <3>1, <3>3 DEF IsShard
    <3>. QED BY <3>3, <3>4 DEF c
  <2>7. CurrentDue(t) = CurrentDue(s) /\ CurrentDue(s) = NumBatches
    BY <2>6 DEF CurrentDue
  <2>8. ASSUME NEW x \in Traces \ {id} PROVE TraceInv(t, x, {}, L)
    <3>1. Same(s, t, x)
      BY <2>2, <2>6, <2>7 DEF Same, Kept, InPlace
    <3>. QED BY <1>0, <3>1, SameKeeps DEF Others
  <2>9. QueueInv(t)
    <3>1. ASSUME ~cfg.fallible, ~cfg.block
          PROVE  Range(q) = DOMAIN m /\ \A x \in Traces : Once(q, x)
      <4>1. q = Append(s.queue, id)
        BY <3>1 DEF q
      <4>2. Range(s.queue) = DOMAIN s.traces /\ \A x \in Traces : Once(s.queue, x)
        BY <1>0, <3>1 DEF QueueInv
      <4>3. Range(q) = Range(s.queue) \cup {id}
        BY <2>0, <4>1, AppendFacts, SMTT(30)
      <4>4. ASSUME NEW x \in Traces PROVE Once(q, x)
        <5>1. Once(s.queue, x) /\ id \notin Range(s.queue)
          BY <1>2, <4>2
        <5>. QED BY <2>0, <4>1, <5>1, AppendFacts
      <4>. QED BY <2>2, <4>2, <4>3, <4>4
    <3>2. cfg.block => q = s.queue
      BY DEF q
    <3>. QED BY <1>0, <2>6, <3>1, <3>2 DEF QueueInv
  <2>10. ~Cached(t, id) /\ RememberInv(t, id)
    BY <2>1, <2>2, <2>6 DEF Cached, RememberInv, Open
  <2>11. Known(t, id) = "none"
    BY <2>1, <2>2, <2>6, <2>10 DEF Known, Cached
  <2>12. SpanInv(t, id)
    BY <1>0, <2>2, <2>6, <2>11 DEF SpanInv
  <2>13. Batched(t, id)
    <3>1. t.traces[id].due = CurrentDue(t) /\ CurrentDue(t) \in 0 .. CurrentDue(t)
      BY <2>0, <2>1, <2>2, <2>6, <2>7, SMTT(30)
    <3>. QED BY <2>6, <3>1 DEF Batched, BatchOf
  <2>14. OnceInv(t, id, {})
    <3>1. \A r : r # CurrentDue(s) => BatchOf(t, r) = BatchOf(s, r)
      BY <2>6, <2>7 DEF BatchOf, SlotOf
    <3>2. Strict => \A r \in 0 .. CurrentDue(s) : id \notin BatchOf(s, r)
      BY <1>0, <1>2 DEF OnceInv, Open
    <3>. QED BY <2>1, <2>2, <2>6, <2>7, <3>1, <3>2 DEF OnceInv, Open
  <2>. QED
    BY <1>2, <2>1, <2>2, <2>6, <2>8, <2>9, <2>10, <2>12, <2>13, <2>14
    DEF Arriving, Came, BatchInv, Others
<1>. QED BY <1>1, <1>2

\* A root span moves its trace from the batch it is in to one that is earlier.
LEMMA MoveOutcome ==
  ASSUME NEW s, NEW L, NEW id \in Traces, Arriving(s, id, L), RootWait # -1,
         NEW t, t = MoveToEarlierBatch(s, id)
  PROVE  Arriving(t, id, L) /\ Came(s, t, id)
<1>. DEFINE due == s.traces[id].due
<1>0. /\ IsShard(s) /\ QueueInv(s) /\ Others(s, id, {}, L)
      /\ id \in DOMAIN s.traces /\ s.left = -1 /\ ~Cached(s, id)
      /\ RememberInv(s, id) /\ SpanInv(s, id) /\ BatchInv(s, id, {}, L) /\ OnceInv(s, id, {})
  BY DEF Arriving
<1>1. /\ NumBatches \in Nat \ {0} /\ RootWait \in Nat /\ s.take \in Slots
      /\ s.traces \in [DOMAIN s.traces -> TraceType] /\ DOMAIN s.traces \subseteq Traces
  BY <1>0, ShardFields, SamplingAssumption
<1>2. due \in -1 .. NumBatches
  BY <1>0, <1>1 DEF TraceType
<1>3. CASE RootWait >= due
  <2>1. t = s
    BY <1>3 DEF MoveToEarlierBatch
  <2>2. Came(s, s, id)
    BY <1>0 DEF Came
  <2>. QED BY <2>1, <2>2
<1>4. CASE ~(RootWait >= due)
  <2>. DEFINE moved == [s.traces[id] EXCEPT !.due = RootWait]
              u == RemoveFromBatch(s, id, due)
              k == SlotOf(s, RootWait)
              n == [u.slots EXCEPT ![k] = @ \cup {id}]
              m == Assign(s.traces, id, moved)
  <2>1. RootWait \in Slots /\ RootWait # due /\ RootWait \in -1 .. NumBatches
    BY <1>1, <1>2, <1>4, SMTT(30) DEF Slots
  <2>2. k \in Slots
    BY <1>1, <2>1, SlotFacts
  <2>3. moved \in TraceType /\ moved.due = RootWait /\ moved.decision = s.traces[id].decision
    BY <1>0, <1>1, <2>1 DEF TraceType
  <2>4. Unplaced(s, u, id, due)
    BY <1>0, <1>2, UnplaceOutcome, SMTT(30)
  <2>5. /\ IsShard(u) /\ u.traces = s.traces /\ u.storage = s.storage /\ u.queue = s.queue
        /\ u.take = s.take /\ u.left = s.left /\ u.sampled = s.sampled /\ u.nonSampled = s.nonSampled
        /\ CurrentDue(u) = CurrentDue(s) /\ \A x \in Traces \ {id} : Same(s, u, x)
        /\ \A q \in 0 .. CurrentDue(s) : id \in BatchOf(u, q) <=> id \in BatchOf(s, q) /\ q # due
    BY <2>4 DEF Unplaced
  <2>6. t = [u EXCEPT !.slots[k] = @ \cup {id}, !.traces = Assign(u.traces, id, moved)]
    BY <1>4 DEF MoveToEarlierBatch
  <2>. HIDE DEF moved, u, k
  <2>7. u.slots \in [Slots -> SUBSET Traces] /\ u.current \subseteq Traces
    BY <2>5, ShardFields
  <2>8. /\ n \in [Slots -> SUBSET Traces] /\ n[k] = u.slots[k] \cup {id}
        /\ \A i \in Slots : i # k => n[i] = u.slots[i]
    BY <2>2, <2>7
  <2>9. /\ DOMAIN m = DOMAIN s.traces /\ m[id] = moved
        /\ \A x \in DOMAIN s.traces : x # id => m[x] = s.traces[x]
        /\ m \in [DOMAIN s.traces -> TraceType]
    BY <1>0, <1>1, <2>3 DEF Assign
  <2>10. t = [u EXCEPT !.slots = n, !.traces = m]
    BY <2>5, <2>6
  <2>. HIDE DEF n, m
  <2>11. /\ t.slots = n /\ t.traces = m /\ t.storage = s.storage /\ t.queue = s.queue
         /\ t.take = s.take /\ t.left = s.left /\ t.sampled = s.sampled /\ t.nonSampled = s.nonSampled
         /\ t.current = u.current /\ IsShard(t)
    <3>1. u \in ShardType(DOMAIN s.traces)
      BY <2>5 DEF IsShard
    <3>2. /\ t.slots = n /\ t.traces = m /\ t.storage = u.storage /\ t.queue = u.queue
          /\ t.take = u.take /\ t.left = u.left /\ t.sampled = u.sampled
          /\ t.nonSampled = u.nonSampled /\ t.current = u.current
      BY ONLY <2>10, <3>1, ZenonT(30) DEF ShardType
    <3>3. t \in ShardType(DOMAIN s.traces)
      BY ONLY <2>8, <2>9, <2>10, <3>1, ZenonT(30) DEF ShardType, Slots
    <3>. QED BY <2>5, <2>9, <3>2, <3>3 DEF IsShard
  <2>12. CurrentDue(t) = CurrentDue(s) /\ CurrentDue(s) = NumBatches
    BY <1>0, <2>11 DEF CurrentDue
  <2>13. ASSUME NEW x \in Traces \ {id} PROVE TraceInv(t, x, {}, L)
    <3>1. \A i \in Slots : x \in t.slots[i] <=> x \in u.slots[i]
      BY <2>2, <2>8, <2>11
    <3>2. Same(u, t, x)
      BY <2>5, <2>9, <2>11, <2>12, <3>1, SMTT(30) DEF Same, Kept, InPlace
    <3>3. Same(s, t, x) /\ TraceInv(s, x, {}, L)
      BY <1>0, <2>5, <3>2, SameTwice DEF Others
    <3>. QED BY <1>0, <3>3, SameKeeps
  <2>14. ASSUME NEW q \in 0 .. CurrentDue(s)
         PROVE  id \in BatchOf(t, q) <=> q = RootWait \/ (id \in BatchOf(s, q) /\ q # due)
    <3>1. CASE q = CurrentDue(s)
      <4>1. q # RootWait
        BY <1>1, <2>1, <2>12, <3>1, SMTT(30) DEF Slots
      <4>. QED BY <2>5, <2>11, <2>12, <3>1, <4>1 DEF BatchOf
    <3>2. CASE q # CurrentDue(s)
      <4>1. q \in Slots /\ SlotOf(s, q) \in Slots /\ SlotOf(t, q) = SlotOf(s, q) /\ SlotOf(u, q) = SlotOf(s, q)
        BY <1>0, <2>5, <2>11, <3>2, DueFacts DEF SlotOf
      <4>2. SlotOf(s, q) = k <=> q = RootWait
        BY <1>1, <2>1, <4>1, SlotsDiffer DEF k
      <4>3. id \in t.slots[SlotOf(s, q)] <=> q = RootWait \/ id \in u.slots[SlotOf(s, q)]
        BY <2>2, <2>8, <2>11, <4>1, <4>2
      <4>. QED BY <2>5, <2>12, <3>2, <4>1, <4>3 DEF BatchOf
    <3>. QED BY <3>1, <3>2
  <2>15. Kept(s, t, id)
    BY <1>0, <2>3, <2>9, <2>11 DEF Kept
  <2>16. RememberInv(t, id) /\ SpanInv(t, id) /\ (Open(t, id) <=> Open(s, id))
    BY <1>0, <2>15, KeptKeeps
  <2>17. t.traces[id].due = RootWait /\ RootWait \in 0 .. CurrentDue(t)
    BY <1>1, <2>1, <2>3, <2>9, <2>11, <2>12, SMTT(30) DEF Slots
  <2>18. Batched(t, id)
    BY <2>12, <2>14, <2>17 DEF Batched
  <2>19. OnceInv(t, id, {})
    <3>1. Strict => Open(s, id)
      BY <1>0, SMTT(30) DEF Strict, RememberInv, SizeFor
    <3>. QED BY <1>0, <2>12, <2>14, <2>16, <2>17, <3>1 DEF OnceInv
  <2>20. QueueInv(t) /\ ~Cached(t, id)
    BY <1>0, <2>9, <2>11 DEF QueueInv, Cached
  <2>. QED
    BY <1>0, <2>3, <2>9, <2>11, <2>13, <2>16, <2>18, <2>19, <2>20, SMTT(30)
    DEF Arriving, Came, BatchInv, Others
<1>. QED BY <1>3, <1>4

\* Counting a span touches the size of its trace only.
LEMMA CountOutcome ==
  ASSUME NEW s, NEW L, NEW id \in Traces, Arriving(s, id, L),
         NEW t, t = [s EXCEPT !.traces = Assign(@, id, [s.traces[id] EXCEPT !.size = @ + 1])]
  PROVE  Arriving(t, id, L) /\ Came(s, t, id)
<1>0. /\ IsShard(s) /\ QueueInv(s) /\ Others(s, id, {}, L)
      /\ id \in DOMAIN s.traces /\ s.left = -1 /\ ~Cached(s, id)
      /\ RememberInv(s, id) /\ SpanInv(s, id) /\ BatchInv(s, id, {}, L) /\ OnceInv(s, id, {})
  BY DEF Arriving
<1>. DEFINE counted == [s.traces[id] EXCEPT !.size = @ + 1]
            m == Assign(s.traces, id, counted)
<1>1. s.traces \in [DOMAIN s.traces -> TraceType] /\ DOMAIN s.traces \subseteq Traces
  BY <1>0, ShardFields
<1>2. /\ counted \in TraceType /\ counted.due = s.traces[id].due
      /\ counted.decision = s.traces[id].decision
  BY <1>0, <1>1, SMTT(30) DEF TraceType
<1>3. t = [s EXCEPT !.traces = m]
  OBVIOUS
<1>. HIDE DEF counted
<1>4. /\ DOMAIN m = DOMAIN s.traces /\ m[id] = counted
      /\ \A x \in DOMAIN s.traces : x # id => m[x] = s.traces[x]
      /\ m \in [DOMAIN s.traces -> TraceType]
  BY <1>0, <1>1, <1>2 DEF Assign
<1>. HIDE DEF m
<1>5. /\ t.traces = m /\ t.storage = s.storage /\ t.queue = s.queue /\ t.slots = s.slots
      /\ t.take = s.take /\ t.left = s.left /\ t.sampled = s.sampled /\ t.nonSampled = s.nonSampled
      /\ t.current = s.current /\ IsShard(t)
  BY <1>0, <1>3, <1>4 DEF IsShard, ShardType
<1>6. \A x \in Traces : Same(s, t, x)
  BY <1>2, <1>4, <1>5 DEF Same, Kept, InPlace, CurrentDue
<1>7. ASSUME NEW x \in Traces \ {id} PROVE TraceInv(t, x, {}, L)
  <2>1. TraceInv(s, x, {}, L)
    BY <1>0 DEF Others
  <2>. QED BY <1>0, <1>6, <2>1, SameKeeps
<1>8. /\ \A r \in 0 .. CurrentDue(s) : id \in BatchOf(t, r) <=> id \in BatchOf(s, r)
      /\ CurrentDue(t) = CurrentDue(s) /\ t.traces[id].due = s.traces[id].due
  <2>1. InPlace(s, t, id)
    BY <1>6 DEF Same
  <2>. QED BY ONLY <1>0, <2>1, InPlaceBatches, ZenonT(30) DEF InPlace
<1>9. RememberInv(t, id) /\ SpanInv(t, id) /\ (Open(t, id) <=> Open(s, id))
  BY <1>0, <1>6, KeptKeeps DEF Same
<1>10. BatchInv(t, id, {}, L) /\ OnceInv(t, id, {})
  BY <1>0, <1>8, <1>9 DEF BatchInv, Batched, OnceInv
<1>11. QueueInv(t) /\ ~Cached(t, id)
  BY <1>0, <1>4, <1>5 DEF QueueInv, Cached
<1>. QED
  BY <1>0, <1>2, <1>4, <1>5, <1>7, <1>9, <1>10, <1>11 DEF Arriving, Came, Others

\* Two parts of the arrival of spans make one.
LEMMA CameTwice ==
  ASSUME NEW s, NEW t, NEW u, NEW id, Came(s, t, id), Came(t, u, id)
  PROVE  Came(s, u, id)
BY DEF Came

\* From the lookup of a trace to the point where its spans are stored or follow
\* a decision: the trace is held and batched.
LEMMA ReceiveOutcome ==
  ASSUME NEW s, NEW L, ShardInv(s, {}, L), s.left = -1, cfg.block \in BOOLEAN,
         NEW b \in Spans, ~Cached(s, TraceOf[b]), NEW t, t = Received(s, b)
  PROVE  Arriving(t, TraceOf[b], L) /\ Came(s, t, TraceOf[b])
<1>. DEFINE id == TraceOf[b]
            v == Fresh(s, id)
            u == IF b \in Roots /\ RootWait # -1 THEN MoveToEarlierBatch(v, id) ELSE v
<1>1. id \in Traces
  BY SamplingAssumption
<1>2. t = [u EXCEPT !.traces = Assign(@, id, [u.traces[id] EXCEPT !.size = @ + 1])]
  BY DEF Received, Fresh
<1>. HIDE DEF id
<1>3. Arriving(v, id, L) /\ Came(s, v, id)
  BY <1>1, FreshOutcome DEF id
<1>. HIDE DEF v
<1>4. Arriving(u, id, L) /\ Came(s, u, id)
  BY <1>1, <1>3, MoveOutcome, CameTwice
<1>. HIDE DEF u
<1>5. Arriving(t, id, L) /\ Came(u, t, id)
  BY <1>1, <1>2, <1>4, CountOutcome
<1>. QED BY <1>4, <1>5, CameTwice DEF id

-----------------------------------------------------------------------------
(* What becomes of the spans *)

\* What a step that ends in u may do to the spans that came and to those stored.
Outcome(u, came, forwarded) ==
  \A c \in Spans :
    /\ c \in forwarded => c \in came \cup shard.storage[TraceOf[c]] /\ c \notin u.storage[TraceOf[c]]
    /\ c \in u.storage[TraceOf[c]] => c \in came \cup shard.storage[TraceOf[c]]
    /\ Known(shard, TraceOf[c]) = "sampled" /\ c \in came => c \in forwarded
    /\ Known(shard, TraceOf[c]) \in {"not", "dropped"} =>
         c \notin forwarded /\ (c \in came => c \notin u.storage[TraceOf[c]])

\* What then became of them.
Moved(came) ==
  /\ fate' \in [Spans -> {"none", "stored", "forwarded", "gone"}] /\ FateInv'
  /\ \A c \in Spans : fate'[c] = "none" <=> fate[c] = "none" /\ c \notin came
  /\ FollowStep

\* Recording what became of the spans keeps FateInv, and no span that was met
\* changes its fate except from stored.
LEMMA BecomeFacts ==
  ASSUME TypeOK, FateInv, \A x \in Traces : SpanInv(shard, x),
         NEW u, NEW came, NEW forwarded, Become(u, came, forwarded), Outcome(u, came, forwarded),
         \A c \in came : fate[c] = "none"
  PROVE  Moved(came)
<1>. DEFINE F(c) == IF c \in forwarded THEN "forwarded"
                    ELSE IF c \in u.storage[TraceOf[c]] THEN "stored"
                    ELSE IF c \in came \cup shard.storage[TraceOf[c]] THEN "gone" ELSE fate[c]
<1>1. shard' = u /\ fate' = [c \in Spans |-> F(c)]
  BY DEF Become
<1>2. \A c \in Spans : fate'[c] = F(c)
  BY <1>1
<1>3. fate \in [Spans -> {"none", "stored", "forwarded", "gone"}]
  BY DEF TypeOK
<1>4. \A c \in Spans : fate'[c] \in {"none", "stored", "forwarded", "gone"}
  BY <1>2, <1>3
<1>5. fate' \in [Spans -> {"none", "stored", "forwarded", "gone"}]
  BY <1>1, <1>2, <1>4
<1>6. FateInv'
  BY <1>1, <1>2 DEF FateInv, Outcome
<1>7. ASSUME NEW c \in Spans
      PROVE  /\ fate'[c] = "none" <=> fate[c] = "none" /\ c \notin came
             /\ fate[c] \in {"forwarded", "gone"} => fate'[c] = fate[c]
             /\ Known(shard, TraceOf[c]) = "sampled" =>
                  fate'[c] \in {fate[c], "forwarded"} \/ (cfg.fallible /\ fate[c] = "stored")
             /\ Known(shard, TraceOf[c]) \in {"not", "dropped"} => fate'[c] \in {fate[c], "gone"}
  <2>1. /\ fate'[c] = F(c) /\ TraceOf[c] \in Traces
        /\ fate[c] \in {"none", "stored", "forwarded", "gone"}
        /\ fate[c] = "stored" <=> c \in shard.storage[TraceOf[c]]
        /\ c \in came => fate[c] = "none"
    BY <1>2, <1>3, SamplingAssumption DEF FateInv
  <2>2. ~cfg.fallible /\ Known(shard, TraceOf[c]) = "sampled" => c \notin shard.storage[TraceOf[c]]
    BY <2>1 DEF SpanInv
  <2>. QED BY <2>1, <2>2 DEF Outcome
<1>. QED BY <1>5, <1>6, <1>7 DEF Moved, FollowStep

\* The trace that a step decides on, stores spans of or drops was not decided.
LEMMA OpenOutcome ==
  ASSUME NEW u, NEW id \in Traces, NEW came, NEW forwarded, Known(shard, id) = "none",
         \A c \in came : TraceOf[c] = id, \A c \in shard.storage[id] : TraceOf[c] = id,
         forwarded \subseteq came \cup shard.storage[id], forwarded \cap u.storage[id] = {},
         \A x \in Traces \ {id} : u.storage[x] \subseteq shard.storage[x],
         u.storage[id] \subseteq came \cup shard.storage[id]
  PROVE  Outcome(u, came, forwarded)
<1>. SUFFICES ASSUME NEW c \in Spans
              PROVE
    /\ c \in forwarded => c \in came \cup shard.storage[TraceOf[c]] /\ c \notin u.storage[TraceOf[c]]
    /\ c \in u.storage[TraceOf[c]] => c \in came \cup shard.storage[TraceOf[c]]
    /\ Known(shard, TraceOf[c]) = "sampled" /\ c \in came => c \in forwarded
    /\ Known(shard, TraceOf[c]) \in {"not", "dropped"} =>
         c \notin forwarded /\ (c \in came => c \notin u.storage[TraceOf[c]])
  BY DEF Outcome
<1>1. TraceOf[c] \in Traces
  BY SamplingAssumption
<1>2. CASE TraceOf[c] = id
  BY <1>2
<1>3. CASE TraceOf[c] # id
  BY <1>1, <1>3
<1>. QED BY <1>2, <1>3

Sound == TypeOK /\ FateInv /\ \A x \in Traces : SpanInv(shard, x)

\* A step that went through t ends well.
Ends(t, E, came) ==
  /\ ShardInv(shard', E, Passed) /\ Moved(came)
  /\ shard'.left = t.left /\ shard'.current = t.current
  /\ DOMAIN shard'.traces \subseteq DOMAIN t.traces
  /\ \A x \in Traces \ DOMAIN t.traces : Cached(shard', x) => Cached(t, x)

\* The trace id, which had no decision, may be decided in t or dropped.
Ready(t, id, D) ==
  /\ IsShard(t) /\ QueueInv(t) /\ Others(t, id, D, Passed)
  /\ id \in DOMAIN t.traces /\ RememberInv(t, id) /\ SpanInv(t, id)
  /\ (Strict => Unbatched(t, id)) /\ Known(shard, id) = "none"
  /\ \A x \in Traces : t.storage[x] \subseteq shard.storage[x]

\* These spans of the trace id come with the step.
Fresher(id, came) == \A c \in came : TraceOf[c] = id /\ fate[c] = "none"

\* A step that settles a trace, whatever becomes of its spans, keeps the
\* invariant.
LEMMA SettleStep ==
  ASSUME Sound, NEW t, NEW id \in Traces, NEW D, NEW E, Ready(t, id, D), D \ {id} = E \ {id},
         NEW u, Settled(t, u, id), NEW came, Fresher(id, came),
         NEW forwarded, Become(u, came, forwarded),
         forwarded \subseteq came \cup shard.storage[id], forwarded \cap u.storage[id] = {}
  PROVE  Ends(t, E, came)
<1>1. /\ \A x \in Traces \ {id} : u.storage[x] \subseteq shard.storage[x]
      /\ u.storage[id] \subseteq came \cup shard.storage[id]
  BY DEF Settled, Same, Kept, Ready
<1>2. \A c \in shard.storage[id] : TraceOf[c] = id
  BY DEF Sound, SpanInv
<1>3. \A c \in came : TraceOf[c] = id
  BY DEF Fresher
<1>4. Outcome(u, came, forwarded)
  <2>1. Known(shard, id) = "none"
    BY DEF Ready
  <2>. QED BY <1>1, <1>2, <1>3, <2>1, OpenOutcome
<1>5. Moved(came)
  <2>1. TypeOK /\ FateInv /\ \A x \in Traces : SpanInv(shard, x)
    BY DEF Sound
  <2>2. \A c \in came : fate[c] = "none"
    BY DEF Fresher
  <2>. QED BY <1>4, <2>1, <2>2, BecomeFacts
<1>6. ShardInv(u, E, Passed)
  <2>1. IsShard(t) /\ Others(t, id, D, Passed) /\ (Strict => Unbatched(t, id))
    BY DEF Ready
  <2>. QED BY <2>1, Settle
<1>7. \A x \in Traces \ DOMAIN t.traces : Cached(u, x) => Cached(t, x)
  <2>1. id \in DOMAIN t.traces
    BY DEF Ready
  <2>. QED BY <2>1 DEF Settled, Same, Kept, Cached
<1>. QED BY <1>5, <1>6, <1>7 DEF Ends, Settled, Become

\* Calls of a storage that does not fail do not fail.
LEMMA FailFacts ==
  ASSUME NEW calls, NEW fails \in Failing(calls), cfg \in Configs
  PROVE  ~cfg.fallible => fails = {}
BY CfgFacts DEF Failing

\* Dropping the trace in hand keeps the invariant.
LEMMA DropStep ==
  ASSUME Sound, NEW t, NEW id \in Traces, NEW D, NEW E, Ready(t, id, D), D \ {id} = E \ {id},
         NEW fails, ~cfg.fallible => "delete" \notin fails, NEW came, Fresher(id, came),
         Become(dropTrace(t, id, fails), came, {})
  PROVE  Ends(t, E, came)
<1>. DEFINE u == dropTrace(t, id, fails)
<1>1. /\ IsShard(t) /\ QueueInv(t) /\ id \in DOMAIN t.traces /\ RememberInv(t, id)
      /\ \A b \in t.storage[id] : TraceOf[b] = id
  BY DEF Ready, SpanInv
<1>. HIDE DEF u
<1>2. Settled(t, u, id)
  BY <1>1, DropOutcome DEF u
<1>3. Become(u, came, {})
  BY DEF u
<1>. QED BY <1>2, <1>3, SettleStep

\* Releasing the trace in hand, remembered in a cache or kept in memory, keeps
\* the invariant.
LEMMA ReleaseStep ==
  ASSUME Sound, NEW t, NEW id \in Traces, NEW D, NEW E, Ready(t, id, D), D \ {id} = E \ {id},
         NEW fails, ~cfg.fallible => "delete" \notin fails, NEW came, Fresher(id, came),
         NEW d \in {"sampled", "not", "dropped"},
         d = "sampled" /\ ~cfg.fallible => t.storage[id] = {},
         NEW forwarded, Become(Release(t, id, d, fails), came, forwarded),
         forwarded \subseteq came \cup shard.storage[id], forwarded \cap t.storage[id] = {}
  PROVE  Ends(t, E, came)
<1>. DEFINE u == Release(t, id, d, fails)
<1>1. /\ IsShard(t) /\ QueueInv(t) /\ id \in DOMAIN t.traces /\ RememberInv(t, id)
      /\ \A b \in t.storage[id] : TraceOf[b] = id
  BY DEF Ready, SpanInv
<1>2. cfg \in Configs
  BY DEF Sound, TypeOK
<1>. HIDE DEF u
<1>3. Settled(t, u, id)
  BY <1>1, <1>2, ReleaseOutcome DEF u
<1>4. Become(u, came, forwarded) /\ forwarded \cap u.storage[id] = {}
  BY <1>3 DEF u, Settled
<1>. QED BY <1>3, <1>4, SettleStep

\* Between t and v, the storage handed over what it found of the trace id.
Taken(t, v, id, found) ==
  /\ v.left = t.left /\ v.current = t.current /\ DOMAIN v.traces = DOMAIN t.traces
  /\ v.sampled = t.sampled /\ v.nonSampled = t.nonSampled
  /\ found \subseteq t.storage[id] /\ found \cap v.storage[id] = {}
  /\ v.storage[id] \subseteq t.storage[id] /\ (~cfg.fallible => v.storage[id] = {})

\* Taking the spans of the trace in hand out of the storage changes nothing
\* else.
LEMMA TakeReady ==
  ASSUME NEW t, NEW id \in Traces, NEW D, Ready(t, id, D),
         NEW found \in readByTracePrefix(t, id), NEW v, v = Take(t, id, found)
  PROVE  Ready(v, id, D) /\ Taken(t, v, id, found)
<1>. DEFINE m == [t.storage EXCEPT ![id] = {}]
<1>0. IsShard(t) /\ t.storage \in [Traces -> SUBSET Spans]
  BY ShardFields DEF Ready
<1>1. found \subseteq t.storage[id] /\ (~cfg.fallible => found = t.storage[id])
  BY DEF readByTracePrefix
<1>2. CASE found = {}
  <2>1. v = t
    BY <1>2 DEF Take
  <2>. QED BY <1>1, <1>2, <2>1 DEF Taken
<1>3. CASE found # {}
  <2>1. v = [t EXCEPT !.storage = m]
    BY <1>0, <1>3 DEF Take
  <2>2. /\ m \in [Traces -> SUBSET Spans] /\ m[id] = {}
        /\ \A x \in Traces \ {id} : m[x] = t.storage[x]
    BY <1>0
  <2>. HIDE DEF m
  <2>3. /\ v.traces = t.traces /\ v.storage = m /\ v.queue = t.queue /\ v.slots = t.slots
        /\ v.take = t.take /\ v.left = t.left /\ v.sampled = t.sampled
        /\ v.nonSampled = t.nonSampled /\ v.current = t.current /\ IsShard(v)
    BY <1>0, <2>1, <2>2 DEF IsShard, ShardType
  <2>4. CurrentDue(v) = CurrentDue(t)
    BY <2>3 DEF CurrentDue
  <2>5. ASSUME NEW x \in Traces \ {id} PROVE TraceInv(v, x, D, Passed)
    <3>1. Same(t, v, x)
      BY ONLY <2>2, <2>3, <2>4, ZenonT(30) DEF Same, Kept, InPlace
    <3>2. TraceInv(t, x, D, Passed)
      BY DEF Ready, Others
    <3>. QED BY ONLY <1>0, <3>1, <3>2, SameKeeps, ZenonT(30)
  <2>6. RememberInv(v, id) /\ SpanInv(v, id)
    BY <2>2, <2>3 DEF Ready, RememberInv, SpanInv, Open, Cached
  <2>7. Strict => Unbatched(v, id)
    BY <2>3, <2>4 DEF Ready, Unbatched, BatchOf, SlotOf
  <2>8. \A x \in Traces : v.storage[x] \subseteq shard.storage[x]
    BY <2>2, <2>3 DEF Ready
  <2>9. QueueInv(v)
    BY <2>3 DEF Ready, QueueInv
  <2>10. Taken(t, v, id, found)
    BY <1>1, <2>2, <2>3 DEF Taken
  <2>. QED
    BY <2>3, <2>5, <2>6, <2>7, <2>8, <2>9, <2>10 DEF Ready, Others
<1>. QED BY <1>2, <1>3

\* Carrying out a decision, when the storage may not find all spans or fail to
\* delete them, keeps the invariant.
LEMMA ConcludeStep ==
  ASSUME Sound, NEW t, NEW id \in Traces, NEW D, NEW E, Ready(t, id, D), D \ {id} = E \ {id},
         NEW came, Fresher(id, came), NEW d \in {"sampled", "not", "dropped"},
         NEW found \in readByTracePrefix(t, id), Conclude(t, id, found, d, came)
  PROVE  Ends(t, E, came)
<1>. DEFINE v == Take(t, id, found)
            forwarded == IF d = "sampled" THEN found \cup came ELSE {}
<1>1. PICK fails \in Failing({"take", "delete"}) :
        \/ Become(dropTrace(t, id, fails), came, {})
        \/ Become(Release(v, id, d, fails), came, forwarded)
  BY DEF Conclude
<1>2. ~cfg.fallible => "delete" \notin fails
  <2>1. cfg \in Configs
    BY DEF Sound, TypeOK
  <2>2. ~cfg.fallible => fails = {}
    BY <2>1, FailFacts
  <2>. QED BY <2>2
<1>3. CASE Become(dropTrace(t, id, fails), came, {})
  BY <1>2, <1>3, DropStep
<1>4. CASE Become(Release(v, id, d, fails), came, forwarded)
  <2>. HIDE DEF v
  <2>1. Ready(v, id, D) /\ Taken(t, v, id, found)
    BY TakeReady DEF v
  <2>2. \A c \in came : c \notin v.storage[id]
    <3>1. v.storage[id] \subseteq shard.storage[id] /\ v.storage \in [Traces -> SUBSET Spans]
      BY <2>1, ShardFields DEF Ready
    <3>2. \A c \in shard.storage[id] : TraceOf[c] = id
      BY DEF Sound, SpanInv
    <3>3. \A c \in Spans : fate[c] = "stored" <=> c \in shard.storage[TraceOf[c]]
      BY DEF Sound, FateInv
    <3>. QED BY <3>1, <3>2, <3>3 DEF Fresher
  <2>3. forwarded \subseteq came \cup shard.storage[id] /\ forwarded \cap v.storage[id] = {}
    BY <2>1, <2>2 DEF Ready, Taken
  <2>4. d = "sampled" /\ ~cfg.fallible => v.storage[id] = {}
    BY <2>1 DEF Taken
  <2>. HIDE DEF forwarded
  <2>5. Ends(v, E, came)
    BY <1>2, <1>4, <2>1, <2>3, <2>4, ReleaseStep
  <2>. QED BY <2>1, <2>5 DEF Ends, Taken, Cached
<1>. QED BY <1>1, <1>3, <1>4

\* What makeDecision and makeDecisionOnSpanIngest may answer: a trace is left
\* pending by the latter only.
LEMMA DecisionFacts ==
  ASSUME cfg \in Configs, applied \in Versions, NEW d \in Decisions
  PROVE  /\ d \in {"sampled", "not", "dropped", "pending"}
         /\ d = "pending" => cfg.ingest
<1>1. /\ applied.policies \in 1 .. Len(Policies)
      /\ cfg.ingest \in BOOLEAN /\ cfg.firstMatch \in BOOLEAN
  BY SamplingAssumption DEF Versions
<1>2. PossibleDecisions[applied.policies] = [ingest \in BOOLEAN |-> [first \in BOOLEAN |->
        { IF ingest THEN makeDecisionOnSpanIngest(Policies[applied.policies], o)
          ELSE makeDecision(Policies[applied.policies], o, first) :
            o \in Evaluations(Policies[applied.policies]) } ] ]
  BY <1>1 DEF PossibleDecisions
<1>3. PossibleDecisions[applied.policies][cfg.ingest] = [first \in BOOLEAN |->
        { IF cfg.ingest THEN makeDecisionOnSpanIngest(Policies[applied.policies], o)
          ELSE makeDecision(Policies[applied.policies], o, first) :
            o \in Evaluations(Policies[applied.policies]) } ]
  BY <1>1, <1>2
<1>4. Decisions =
        { IF cfg.ingest THEN makeDecisionOnSpanIngest(Policies[applied.policies], o)
          ELSE makeDecision(Policies[applied.policies], o, cfg.firstMatch) :
            o \in Evaluations(Policies[applied.policies]) }
  BY <1>1, <1>3 DEF Decisions
<1>5. PICK o \in Evaluations(Policies[applied.policies]) :
        d = IF cfg.ingest THEN makeDecisionOnSpanIngest(Policies[applied.policies], o)
            ELSE makeDecision(Policies[applied.policies], o, cfg.firstMatch)
  BY <1>4
<1>6. ASSUME NEW p, NEW q
      PROVE  makeDecisionOnSpanIngest(p, q) \in {"dropped", "sampled", "pending"}
  <2>. DEFINE order == loadSamplingPolicies(p)
              Undecided(i) == \E j \in 1 .. i - 1 :
                                p[order[j]] /\ q[order[j]] \notin {"dropped", "error"}
              Breaks(i) == ~p[order[i]] /\ Undecided(i)
              ends == { i \in DOMAIN order : \/ Breaks(i) \/ q[order[i]] = "dropped"
                                             \/ ~p[order[i]] /\ q[order[i]] = "sampled" }
              done == UpTo(order, ends)
              last == Len(done)
  <2>1. makeDecisionOnSpanIngest(p, q) =
          IF last = 0 \/ Breaks(last) THEN "pending"
          ELSE IF q[done[last]] = "dropped" THEN "dropped"
          ELSE IF ~p[done[last]] /\ q[done[last]] = "sampled" THEN "sampled"
          ELSE "pending"
    BY DEF makeDecisionOnSpanIngest
  <2>. HIDE DEF done, last, Breaks
  <2>. QED BY <2>1
<1>7. \A p, q, f : makeDecision(p, q, f) \in {"dropped", "not", "sampled"}
  BY SMTT(30) DEF makeDecision
<1>8. CASE cfg.ingest
  BY <1>5, <1>6, <1>8
<1>9. CASE ~cfg.ingest
  <2>1. d \in {"dropped", "not", "sampled"}
    BY <1>5, <1>7, <1>9
  <2>. QED BY <2>1
<1>. QED BY <1>8, <1>9

\* The invariant of the shard from that of the one trace that was touched.
LEMMA Together ==
  ASSUME NEW t, NEW u, NEW id \in Traces, NEW D, NEW L,
         IsShard(t), Others(t, id, D, L), \A x \in Traces \ {id} : Same(t, u, x),
         IsShard(u), QueueInv(u), TraceInv(u, id, D, L)
  PROVE  ShardInv(u, D, L)
<1>1. ASSUME NEW x \in Traces, x # id PROVE TraceInv(u, x, D, L)
  <2>1. TraceInv(t, x, D, L) /\ Same(t, u, x)
    BY <1>1 DEF Others
  <2>. QED BY <2>1, SameKeeps
<1>. QED BY <1>1 DEF ShardInv

\* A shard that did not change leaves every trace alone.
LEMMA SameSelf ==
  ASSUME NEW t, NEW x
  PROVE  Same(t, t, x)
BY DEF Same, Kept, InPlace

\* What processTrace starts from: t came from shard with spans b of the trace id.
Entered(t, b, id) ==
  /\ Sound /\ b \in Spans /\ id = TraceOf[b] /\ id \in Traces /\ fate[b] = "none"
  /\ Arriving(t, id, Passed) /\ t.traces[id].decision = Known(shard, id)
  /\ \A x \in Traces : t.storage[x] \subseteq shard.storage[x]

\* Where processTrace stands when the spans in hand have been counted.
LEMMA EnteredFacts ==
  ASSUME NEW t, NEW b, NEW id, Entered(t, b, id)
  PROVE  /\ b \notin t.storage[id] /\ Fresher(id, {b})
         /\ IsShard(t) /\ QueueInv(t) /\ Others(t, id, {}, Passed)
         /\ id \in DOMAIN t.traces /\ t.left = -1 /\ ~Cached(t, id)
         /\ RememberInv(t, id) /\ SpanInv(t, id)
         /\ BatchInv(t, id, {}, Passed) /\ OnceInv(t, id, {})
         /\ t.storage \in [Traces -> SUBSET Spans]
<1>1. b \notin shard.storage[id]
  BY DEF Entered, Sound, FateInv
<1>2. Fresher(id, {b})
  BY DEF Entered, Fresher
<1>3. IsShard(t)
  BY DEF Entered, Arriving
<1>4. t.storage \in [Traces -> SUBSET Spans]
  BY <1>3, ShardFields
<1>. QED BY <1>1, <1>2, <1>3, <1>4 DEF Entered, Arriving

\* Spans of a decided trace that stays in memory follow the decision.
LEMMA KeepStep ==
  ASSUME NEW t, NEW b, NEW id, Entered(t, b, id), Known(shard, id) # "none",
         Become(t, {b}, IF Known(shard, id) = "sampled" THEN {b} ELSE {})
  PROVE  Ends(t, {}, {b})
<1>. DEFINE forwarded == IF Known(shard, id) = "sampled" THEN {b} ELSE {}
<1>1. /\ b \notin t.storage[id] /\ IsShard(t) /\ QueueInv(t) /\ Others(t, id, {}, Passed)
      /\ RememberInv(t, id) /\ SpanInv(t, id) /\ OnceInv(t, id, {}) /\ ~Open(t, id)
      /\ id = TraceOf[b] /\ id \in Traces
  BY EnteredFacts DEF Entered, Open
<1>2. Outcome(t, {b}, forwarded)
  <2>1. ASSUME NEW c \in Spans
        PROVE  /\ c \in forwarded => c \in {b} \cup shard.storage[TraceOf[c]] /\ c \notin t.storage[TraceOf[c]]
               /\ c \in t.storage[TraceOf[c]] => c \in {b} \cup shard.storage[TraceOf[c]]
               /\ Known(shard, TraceOf[c]) = "sampled" /\ c \in {b} => c \in forwarded
               /\ Known(shard, TraceOf[c]) \in {"not", "dropped"} =>
                    c \notin forwarded /\ (c \in {b} => c \notin t.storage[TraceOf[c]])
    <3>1. TraceOf[c] \in Traces /\ t.storage[TraceOf[c]] \subseteq shard.storage[TraceOf[c]]
      BY SamplingAssumption DEF Entered
    <3>. QED BY <1>1, <3>1
  <2>. QED BY <2>1 DEF Outcome
<1>. HIDE DEF forwarded
<1>3. Moved({b})
  <2>1. TypeOK /\ FateInv /\ (\A x \in Traces : SpanInv(shard, x)) /\ \A c \in {b} : fate[c] = "none"
    BY DEF Entered, Sound
  <2>2. Become(t, {b}, forwarded)
    BY DEF forwarded
  <2>. QED BY <1>2, <2>1, <2>2, BecomeFacts
<1>4. TraceInv(t, id, {}, Passed)
  BY <1>1 DEF TraceInv, StoredInv, BatchInv
<1>5. ShardInv(t, {}, Passed)
  BY <1>1, <1>4, Together, SameSelf
<1>. QED BY <1>3, <1>5 DEF Ends, Become

\* Spans of a trace without a decision are stored, or lost when Append fails.
LEMMA StoreStep ==
  ASSUME NEW t, NEW b, NEW id, Entered(t, b, id), Known(shard, id) = "none", Store(t, b)
  PROVE  Ends(t, {}, {b})
<1>. DEFINE m == [t.storage EXCEPT ![id] = @ \cup {b}]
            v == [t EXCEPT !.storage[id] = @ \cup {b}]
<1>0. /\ b \notin t.storage[id] /\ IsShard(t) /\ QueueInv(t) /\ Others(t, id, {}, Passed)
      /\ id \in DOMAIN t.traces /\ ~Cached(t, id) /\ RememberInv(t, id) /\ SpanInv(t, id)
      /\ BatchInv(t, id, {}, Passed) /\ OnceInv(t, id, {}) /\ Fresher(id, {b})
      /\ t.storage \in [Traces -> SUBSET Spans]
  BY EnteredFacts
<1>1. /\ id = TraceOf[b] /\ id \in Traces /\ b \in Spans /\ fate[b] = "none"
      /\ t.traces[id].decision = "none"
      /\ \A x \in Traces : t.storage[x] \subseteq shard.storage[x]
      /\ TypeOK /\ FateInv /\ \A x \in Traces : SpanInv(shard, x)
  BY DEF Entered, Sound
<1>2. PICK fails \in Failing({"append"}) : Become(IF fails # {} THEN t ELSE v, {b}, {})
  BY <1>1 DEF Store
<1>3. ~cfg.fallible => fails = {}
  BY <1>1, FailFacts DEF TypeOK
<1>4. /\ m \in [Traces -> SUBSET Spans] /\ m[id] = t.storage[id] \cup {b}
      /\ \A x \in Traces \ {id} : m[x] = t.storage[x]
  BY <1>0, <1>1
<1>5. v = [t EXCEPT !.storage = m]
  BY <1>0
<1>. HIDE DEF m
<1>6. /\ v.traces = t.traces /\ v.storage = m /\ v.queue = t.queue /\ v.slots = t.slots
      /\ v.take = t.take /\ v.left = t.left /\ v.sampled = t.sampled /\ v.nonSampled = t.nonSampled
      /\ v.current = t.current /\ IsShard(v)
  BY <1>0, <1>4, <1>5 DEF IsShard, ShardType
<1>. DEFINE u == IF fails # {} THEN t ELSE v
<1>. HIDE DEF v
<1>7. CurrentDue(v) = CurrentDue(t)
  BY <1>6 DEF CurrentDue
<1>8. /\ u.storage[id] \subseteq {b} \cup shard.storage[id] /\ u.left = t.left
      /\ u.current = t.current /\ DOMAIN u.traces = DOMAIN t.traces
      /\ \A x \in Traces \ {id} : u.storage[x] \subseteq shard.storage[x]
  BY <1>1, <1>4, <1>6
<1>9. Outcome(u, {b}, {})
  <2>1. \A c \in shard.storage[id] : TraceOf[c] = id
    BY <1>1 DEF SpanInv
  <2>. HIDE DEF u
  <2>. QED BY <1>1, <1>8, <2>1, OpenOutcome
<1>10. Moved({b})
  BY <1>1, <1>2, <1>9, BecomeFacts
<1>11. CASE fails # {}
  <2>1. u = t /\ cfg.fallible
    BY <1>3, <1>11
  <2>2. TraceInv(t, id, {}, Passed)
    BY <1>0, <2>1 DEF TraceInv, StoredInv
  <2>3. ShardInv(t, {}, Passed)
    BY <1>0, <1>1, <2>2, Together, SameSelf
  <2>. QED BY <1>2, <1>8, <1>10, <2>1, <2>3 DEF Ends, Become
<1>12. CASE fails = {}
  <2>1. u = v
    BY <1>12
  <2>2. \A x \in Traces \ {id} : Same(t, v, x)
    BY <1>4, <1>6, <1>7 DEF Same, Kept, InPlace
  <2>3. Known(v, id) = "none"
    BY <1>0, <1>1, <1>6 DEF Known, Cached
  <2>4. RememberInv(v, id) /\ SpanInv(v, id)
    <3>1. RememberInv(v, id)
      BY <1>0, <1>6 DEF RememberInv, Cached, Open
    <3>2. \A c \in v.storage[id] : TraceOf[c] = id
      BY <1>0, <1>1, <1>4, <1>6 DEF SpanInv
    <3>. QED BY <1>0, <1>6, <2>3, <3>1, <3>2 DEF SpanInv
  <2>5. BatchInv(v, id, {}, Passed) /\ OnceInv(v, id, {})
    BY <1>0, <1>6, <1>7 DEF BatchInv, OnceInv, Batched, Open, BatchOf, SlotOf
  <2>6. TraceInv(v, id, {}, Passed)
    BY <1>4, <1>6, <2>4, <2>5 DEF TraceInv, StoredInv
  <2>7. QueueInv(v)
    BY <1>0, <1>6 DEF QueueInv
  <2>8. ShardInv(v, {}, Passed)
    BY <1>0, <1>1, <1>6, <2>2, <2>6, <2>7, Together
  <2>9. \A x \in Traces : Cached(v, x) <=> Cached(t, x)
    BY <1>6 DEF Cached
  <2>. QED BY <1>2, <1>8, <1>10, <2>1, <2>8, <2>9 DEF Ends, Become
<1>. QED BY <1>11, <1>12

\* A trace whose spans are in hand can be decided.
LEMMA EnteredReady ==
  ASSUME NEW t, NEW b, NEW id, Entered(t, b, id), Known(shard, id) = "none", ~Strict
  PROVE  Ready(t, id, {})
<1>1. /\ IsShard(t) /\ QueueInv(t) /\ Others(t, id, {}, Passed)
      /\ id \in DOMAIN t.traces /\ RememberInv(t, id) /\ SpanInv(t, id)
  BY EnteredFacts
<1>. QED BY <1>1 DEF Ready, Entered

\* Spans that make a trace too large: it leaves its batch and is not sampled.
LEMMA TooLargeStep ==
  ASSUME NEW t, NEW b, NEW id, Entered(t, b, id), Known(shard, id) = "none",
         NEW fails, ~cfg.fallible => "delete" \notin fails, Become(DropTooLarge(t, b, fails), {b}, {})
  PROVE  /\ ShardInv(shard', {}, Passed) /\ Moved({b}) /\ shard'.left = t.left
         /\ DOMAIN shard'.traces \subseteq DOMAIN t.traces
<1>. DEFINE due == t.traces[id].due
            v == RemoveFromBatch(t, id, due)
<1>0. /\ IsShard(t) /\ QueueInv(t) /\ Others(t, id, {}, Passed) /\ Fresher(id, {b})
      /\ id \in DOMAIN t.traces /\ RememberInv(t, id) /\ SpanInv(t, id) /\ OnceInv(t, id, {})
  BY EnteredFacts
<1>1. /\ id = TraceOf[b] /\ id \in Traces /\ Sound
      /\ \A x \in Traces : t.storage[x] \subseteq shard.storage[x]
  BY DEF Entered
<1>2. due \in Int
  <2>1. t.traces \in [DOMAIN t.traces -> TraceType] /\ NumBatches \in Nat
    BY <1>0, ShardFields, SamplingAssumption
  <2>. QED BY <1>0, <2>1, SMTT(30) DEF TraceType
<1>. HIDE DEF v
<1>3. Unplaced(t, v, id, due)
  BY <1>0, <1>1, <1>2, UnplaceOutcome DEF v
<1>4. Become(Release(v, id, "not", fails), {b}, {})
  BY <1>1 DEF DropTooLarge, v
<1>5. /\ IsShard(v) /\ v.traces = t.traces /\ v.storage = t.storage /\ v.queue = t.queue
      /\ v.left = t.left /\ v.sampled = t.sampled /\ v.nonSampled = t.nonSampled
      /\ CurrentDue(v) = CurrentDue(t) /\ \A x \in Traces \ {id} : Same(t, v, x)
      /\ \A q \in 0 .. CurrentDue(t) : id \in BatchOf(v, q) <=> id \in BatchOf(t, q) /\ q # due
  BY <1>3 DEF Unplaced
<1>6. Others(v, id, {}, Passed)
  <2>1. ASSUME NEW x \in Traces \ {id} PROVE TraceInv(v, x, {}, Passed)
    <3>1. Same(t, v, x) /\ TraceInv(t, x, {}, Passed)
      BY <1>0, <1>5 DEF Others
    <3>. QED BY <1>0, <3>1, SameKeeps
  <2>. QED BY <2>1 DEF Others
<1>7. Strict => Unbatched(v, id)
  BY <1>0, <1>5 DEF Unbatched, OnceInv
<1>8. RememberInv(v, id) /\ SpanInv(v, id) /\ QueueInv(v)
  BY <1>0, <1>5 DEF RememberInv, SpanInv, QueueInv, Cached, Open, Known
<1>9. Ready(v, id, {})
  BY <1>0, <1>1, <1>5, <1>6, <1>7, <1>8 DEF Ready
<1>10. Ends(v, {}, {b})
  <2>1. "not" \in {"sampled", "not", "dropped"} /\ "not" # "sampled"
    OBVIOUS
  <2>2. {} \subseteq {b} \cup shard.storage[id] /\ {} \cap v.storage[id] = {} /\ {} \ {id} = {} \ {id}
    OBVIOUS
  <2>. QED BY <1>0, <1>1, <1>4, <1>9, <2>1, <2>2, ReleaseStep
<1>. QED BY <1>5, <1>10 DEF Ends

\* The whole of processTrace.
LEMMA ProcessStep ==
  ASSUME NEW t, NEW b, NEW id, Entered(t, b, id), processTrace(t, b)
  PROVE  /\ ShardInv(shard', {}, Passed) /\ Moved({b}) /\ shard'.left = t.left
         /\ DOMAIN shard'.traces \subseteq DOMAIN t.traces
<1>. DEFINE known == t.traces[id].decision
<1>0. /\ id = TraceOf[b] /\ id \in Traces /\ Sound /\ known = Known(shard, id) /\ Fresher(id, {b})
      /\ cfg \in Configs /\ applied \in Versions
  BY EnteredFacts DEF Entered, Sound, TypeOK
<1>1. CASE \E fails \in Failing({"delete"}) :
             known = "none" /\ Become(DropTooLarge(t, b, fails), {b}, {})
  <2>1. PICK fails \in Failing({"delete"}) :
          known = "none" /\ Become(DropTooLarge(t, b, fails), {b}, {})
    BY <1>1
  <2>2. ~cfg.fallible => fails = {}
    BY <1>0, FailFacts
  <2>3. ~cfg.fallible => "delete" \notin fails
    BY <2>2
  <2>. QED BY <1>0, <2>1, <2>3, TooLargeStep
<1>2. CASE \E d \in Decisions : /\ known = "none" /\ cfg.ingest
             /\ IF d = "pending" THEN Store(t, b)
                ELSE \E found \in readByTracePrefix(t, id) : Conclude(t, id, found, d, {b})
  <2>1. PICK d \in Decisions : /\ known = "none" /\ cfg.ingest
             /\ IF d = "pending" THEN Store(t, b)
                ELSE \E found \in readByTracePrefix(t, id) : Conclude(t, id, found, d, {b})
    BY <1>2
  <2>2. CASE d = "pending"
    BY <1>0, <2>1, <2>2, StoreStep DEF Ends
  <2>3. CASE d # "pending"
    <3>1. d \in {"sampled", "not", "dropped"}
      BY <1>0, <2>3, DecisionFacts
    <3>2. Ready(t, id, {})
      BY <1>0, <2>1, EnteredReady DEF Strict
    <3>3. PICK found \in readByTracePrefix(t, id) : Conclude(t, id, found, d, {b})
      BY <2>1, <2>3
    <3>4. Ends(t, {}, {b})
      BY <1>0, <3>1, <3>2, <3>3, ConcludeStep
    <3>. QED BY <3>4 DEF Ends
  <2>. QED BY <2>2, <2>3
<1>3. CASE known = "none" /\ Store(t, b)
  BY <1>0, <1>3, StoreStep DEF Ends
<1>4. CASE known = "sampled" /\ Become(t, {b}, {b})
  <2>1. Known(shard, id) # "none" /\ Become(t, {b}, IF Known(shard, id) = "sampled" THEN {b} ELSE {})
    BY <1>0, <1>4
  <2>. QED BY <2>1, KeepStep DEF Ends
<1>5. CASE \E fails : known = "not" /\ Become(releaseNotSampledTrace(t, id, fails), {b}, {})
  <2>1. PICK fails : known = "not" /\ Become(releaseNotSampledTrace(t, id, fails), {b}, {})
    BY <1>5
  <2>2. /\ IsShard(t) /\ id \in DOMAIN t.traces /\ RememberInv(t, id) /\ ~Cached(t, id)
    BY EnteredFacts
  <2>3. cfg.nonSampled = 0
    BY <2>1, <2>2 DEF RememberInv, SizeFor, Open
  <2>4. releaseNotSampledTrace(t, id, fails) = t
    <3>1. [t EXCEPT !.nonSampled = t.nonSampled] = t
      BY <2>2 DEF IsShard, ShardType
    <3>2. id \notin Range(t.nonSampled)
      BY <2>2 DEF Cached
    <3>3. Put(t.nonSampled, cfg.nonSampled, id) = t.nonSampled
      BY <2>3 DEF Put
    <3>. QED BY <3>1, <3>2, <3>3 DEF releaseNotSampledTrace
  <2>5. Known(shard, id) # "none" /\ Become(t, {b}, IF Known(shard, id) = "sampled" THEN {b} ELSE {})
    BY <1>0, <2>1, <2>4
  <2>. QED BY <2>5, KeepStep DEF Ends
<1>6. CASE known = "dropped" /\ Become(t, {b}, {})
  <2>1. Known(shard, id) # "none" /\ Become(t, {b}, IF Known(shard, id) = "sampled" THEN {b} ELSE {})
    BY <1>0, <1>6
  <2>. QED BY <2>1, KeepStep DEF Ends
<1>. QED BY <1>0, <1>1, <1>2, <1>3, <1>4, <1>5, <1>6 DEF processTrace

\* Spans of a trace that a cache remembers follow the decision and touch
\* nothing else.
LEMMA CachedStep ==
  ASSUME Sound, ShardInv(shard, {}, Passed), NEW b \in Spans, fate[b] = "none", processCachedTrace(b)
  PROVE  /\ ShardInv(shard', {}, Passed) /\ Moved({b}) /\ shard'.left = shard.left
         /\ DOMAIN shard'.traces = DOMAIN shard.traces
<1>. DEFINE id == TraceOf[b]
            p == Put(shard.sampled, cfg.sampled, id)
            q == Put(shard.nonSampled, cfg.nonSampled, id)
<1>0. /\ id \in Traces /\ IsShard(shard) /\ QueueInv(shard) /\ cfg \in Configs
      /\ TypeOK /\ FateInv /\ (\A x \in Traces : SpanInv(shard, x)) /\ \A c \in {b} : fate[c] = "none"
  BY SamplingAssumption DEF Sound, TypeOK, ShardInv
<1>1. /\ shard.sampled \in Seq(Traces) /\ shard.nonSampled \in Seq(Traces)
      /\ Len(shard.sampled) <= cfg.sampled /\ Len(shard.nonSampled) <= cfg.nonSampled
      /\ cfg.sampled \in Nat /\ cfg.nonSampled \in Nat
  BY <1>0, ShardFields, CfgFacts
<1>2. /\ p \in Seq(Traces) /\ Len(p) <= cfg.sampled /\ Range(p) \subseteq Range(shard.sampled) \cup {id}
      /\ q \in Seq(Traces) /\ Len(q) <= cfg.nonSampled
      /\ Range(q) \subseteq Range(shard.nonSampled) \cup {id}
  BY <1>0, <1>1, PutFacts
<1>. DEFINE u == IF id \in Range(shard.sampled) THEN [shard EXCEPT !.sampled = p]
                 ELSE [shard EXCEPT !.nonSampled = q]
            forwarded == IF id \in Range(shard.sampled) THEN {b} ELSE {}
<1>3. /\ Become(u, {b}, forwarded)
      /\ id \notin Range(shard.sampled) => id \in Range(shard.nonSampled)
  BY DEF processCachedTrace
<1>. HIDE DEF p, q, id
<1>4. /\ u.traces = shard.traces /\ u.storage = shard.storage /\ u.queue = shard.queue
      /\ u.slots = shard.slots /\ u.take = shard.take /\ u.left = shard.left
      /\ u.current = shard.current /\ IsShard(u)
      /\ Range(u.sampled) \subseteq Range(shard.sampled)
      /\ Range(u.nonSampled) \subseteq Range(shard.nonSampled)
  <2>1. CASE id \in Range(shard.sampled)
    <3>1. u = [shard EXCEPT !.sampled = p] /\ Range(p) \subseteq Range(shard.sampled)
      BY <1>2, <2>1
    <3>. HIDE DEF u
    <3>. QED BY <1>0, <1>2, <3>1 DEF IsShard, ShardType
  <2>2. CASE id \notin Range(shard.sampled)
    <3>1. u = [shard EXCEPT !.nonSampled = q] /\ Range(q) \subseteq Range(shard.nonSampled)
      BY <1>2, <1>3, <2>2
    <3>. HIDE DEF u
    <3>. QED BY <1>0, <1>2, <3>1 DEF IsShard, ShardType
  <2>. QED BY <2>1, <2>2
<1>. HIDE DEF u
<1>5. b \notin shard.storage[id] /\ id = TraceOf[b]
  BY <1>0 DEF FateInv, id
<1>6. Known(shard, id) = IF id \in Range(shard.sampled) THEN "sampled" ELSE "not"
  BY <1>3 DEF Known
<1>7. Outcome(u, {b}, forwarded)
  <2>1. ASSUME NEW c \in Spans
        PROVE  /\ c \in forwarded => c \in {b} \cup shard.storage[TraceOf[c]] /\ c \notin u.storage[TraceOf[c]]
               /\ c \in u.storage[TraceOf[c]] => c \in {b} \cup shard.storage[TraceOf[c]]
               /\ Known(shard, TraceOf[c]) = "sampled" /\ c \in {b} => c \in forwarded
               /\ Known(shard, TraceOf[c]) \in {"not", "dropped"} =>
                    c \notin forwarded /\ (c \in {b} => c \notin u.storage[TraceOf[c]])
    BY <1>4, <1>5, <1>6
  <2>. QED BY <2>1 DEF Outcome
<1>. HIDE DEF forwarded
<1>8. Moved({b})
  BY <1>0, <1>3, <1>7, BecomeFacts
<1>9. ASSUME NEW x \in Traces PROVE TraceInv(u, x, {}, Passed)
  <2>1. Same(shard, u, x)
    BY <1>4 DEF Same, Kept, InPlace, CurrentDue
  <2>2. TraceInv(shard, x, {}, Passed)
    BY DEF ShardInv
  <2>. QED BY <1>0, <2>1, <2>2, SameKeeps
<1>10. QueueInv(u)
  BY <1>0, <1>4 DEF QueueInv
<1>11. shard' = u
  BY <1>3 DEF Become
<1>. QED BY <1>4, <1>8, <1>9, <1>10, <1>11 DEF ShardInv
=============================================================================
