-------------------------- MODULE GroupByTraceProofs --------------------------
(***************************************************************************)
(* Proofs about GroupByTrace, for any number of traces, batches, workers,  *)
(* slots and channel places.                                               *)
(*                                                                         *)
(* The argument rests on routing: every event is in the channel of the     *)
(* worker that its trace is hashed to, every goroutine fires the events of *)
(* its own trace (RouteInv), and a ring holds traces of its worker only.   *)
(* So the event that ends the stay of a trace reaches the ring that holds  *)
(* it (ExpiryPending).  The two events of a release travel together        *)
(* (ReleaseInv).                                                           *)
(***************************************************************************)
EXTENDS GroupByTrace, SeqFacts

RingType == [index : -1 .. RingSize - 1,
             ids : [0 .. RingSize - 1 -> Traces \cup {Empty}],
             idToIndex : [Traces -> NotFound .. RingSize - 1]]

Consistent(rg) ==
  /\ \A t \in Traces : BufferContains(rg, t) => rg.ids[rg.idToIndex[t]] = t
  /\ \A i \in 0 .. RingSize - 1 : rg.ids[i] # Empty => rg.idToIndex[rg.ids[i]] = i

RingInv ==
  \A w \in Workers :
    Consistent(ring[w]) /\ \A t \in Traces : BufferContains(ring[w], t) => WorkerOf[t] = w

\* What a goroutine fires.
TypesOf(kind) ==
  CASE kind = "consume" -> {"received"} [] kind = "evict" -> {"removed"}
    [] kind = "timer" -> {"expired"} [] kind = "release" -> {"released", "removed"}

\* An event belongs to the worker of its batch, and but for the removal of an
\* evicted trace to the trace of its batch.
Own(e) ==
  /\ WorkerOf[e.trace] = WorkerOf[TraceOf[e.by]]
  /\ e.typ # "removed" => e.trace = TraceOf[e.by]

From(s, e) ==
  /\ e.by = s[2] /\ e.typ \in TypesOf(s[1]) /\ Own(e)
  /\ s[1] = "release" => e.trace = TraceOf[s[2]]

RouteInv ==
  /\ \A s \in Senders : \A e \in Range(calling[s]) : From(s, e)
  /\ \A s \in Senders : \A e \in Range(sending[s]) : From(s, e)
  /\ \A w \in Workers : \A e \in Range(queue[w]) : Own(e) /\ WorkerOf[e.trace] = w

\* The two events of a release, or the second one, are still to be sent.
Pair(b, l) == \E rss \in SUBSET Batches : l = <<Released(b, rss), Removed(b, TraceOf[b])>>

\* The removal that belongs to a release comes later in the channel, or is the
\* next event that the goroutine sends.
Followed(q, snd) ==
  \A i \in DOMAIN q : q[i].typ = "released" =>
    \/ \E j \in DOMAIN q : i < j /\ q[j] = Removed(q[i].by, q[i].trace)
    \/ snd[<<"release", q[i].by>>] = <<Removed(q[i].by, q[i].trace)>>

ReleaseInv ==
  /\ \A b \in Batches :
       /\ calling[<<"release", b>>] = <<>> \/ Pair(b, calling[<<"release", b>>])
       /\ \/ sending[<<"release", b>>] = <<>> \/ Pair(b, sending[<<"release", b>>])
          \/ sending[<<"release", b>>] = <<Removed(b, TraceOf[b])>>
  /\ \A w \in Workers : Followed(queue[w], sending)
  /\ closed => \A s \in Senders : sending[s] = <<>>

IInv == TypeOK /\ RingInv /\ RouteInv /\ ExpiryPending /\ ReleaseInv

-----------------------------------------------------------------------------
(* The ring buffer *)

\* The slot that put uses next, and what it evicts.
LEMMA SlotFacts ==
  ASSUME NEW rg \in RingType
  PROVE  /\ Slot(rg) \in 0 .. RingSize - 1
         /\ EvictedBy(rg) \in Traces \cup {Empty}
<1>1. rg.index \in Int /\ RingSize \in Nat \ {0}
  BY SizesAssumption DEF RingType
<1>2. (rg.index + 1) % RingSize \in 0 .. RingSize - 1
  BY <1>1
<1>. QED BY <1>2, Zenon DEF Slot, EvictedBy, RingType

\* delete clears the slot of a trace and its index.
LEMMA DeleteFacts ==
  ASSUME NEW rg \in RingType, Consistent(rg), NEW t \in Traces
  PROVE  /\ Delete(rg, t) \in RingType /\ Consistent(Delete(rg, t))
         /\ Delete(rg, t).index = rg.index
         /\ \A i \in 0 .. RingSize - 1 :
              Delete(rg, t).ids[i] = IF rg.ids[i] = t THEN Empty ELSE rg.ids[i]
         /\ \A q \in Traces :
              Delete(rg, t).idToIndex[q] = IF q = t THEN NotFound ELSE rg.idToIndex[q]
<1>1. CASE ~BufferContains(rg, t)
  <2>1. Delete(rg, t) = rg /\ rg.idToIndex[t] = NotFound
    BY <1>1, Zenon DEF Delete, BufferContains
  <2>2. \A i \in 0 .. RingSize - 1 : rg.ids[i] # t
    BY <2>1, NamesAssumption DEF Consistent, NotFound
  <2>. QED BY <2>1, <2>2, Zenon
<1>2. CASE BufferContains(rg, t)
  <2>. DEFINE d == Delete(rg, t)
              k == rg.idToIndex[t]
  <2>1. k \in 0 .. RingSize - 1 /\ rg.ids[k] = t
    BY <1>2, SizesAssumption DEF BufferContains, RingType, NotFound, Consistent
  <2>2. d = [rg EXCEPT !.ids[k] = Empty, !.idToIndex[t] = NotFound]
    BY <1>2, Zenon DEF Delete
  <2>. HIDE DEF d
  <2>3. NotFound \in NotFound .. RingSize - 1
    BY SizesAssumption DEF NotFound
  <2>4. /\ d \in RingType /\ d.index = rg.index
        /\ d.ids = [rg.ids EXCEPT ![k] = Empty]
        /\ d.idToIndex = [rg.idToIndex EXCEPT ![t] = NotFound]
    BY <2>2, <2>1, <2>3, Zenon DEF RingType
  <2>. HIDE DEF k
  <2>5. \A i \in 0 .. RingSize - 1 : rg.ids[i] = t => i = k
    BY NamesAssumption, Zenon DEF Consistent, k
  <2>6. \A i \in 0 .. RingSize - 1 : d.ids[i] = IF rg.ids[i] = t THEN Empty ELSE rg.ids[i]
    BY <2>1, <2>4, <2>5, Zenon DEF RingType
  <2>7. \A q \in Traces : d.idToIndex[q] = IF q = t THEN NotFound ELSE rg.idToIndex[q]
    BY <2>4, Zenon DEF RingType
  <2>8. \A q \in Traces : rg.idToIndex[q] # NotFound => rg.idToIndex[q] \in 0 .. RingSize - 1
    BY SizesAssumption DEF RingType, NotFound
  <2>9. Consistent(d)
    <3>1. ASSUME NEW q \in Traces, d.idToIndex[q] # NotFound PROVE d.ids[d.idToIndex[q]] = q
      BY <3>1, <2>6, <2>7, <2>8, Zenon DEF Consistent, BufferContains
    <3>2. ASSUME NEW i \in 0 .. RingSize - 1, d.ids[i] # Empty PROVE d.idToIndex[d.ids[i]] = i
      <4>1. rg.ids[i] # t /\ d.ids[i] = rg.ids[i] /\ rg.idToIndex[rg.ids[i]] = i
        BY <3>2, <2>6, Zenon DEF Consistent
      <4>2. rg.ids[i] \in Traces
        BY <4>1, <3>2, Zenon DEF RingType
      <4>. QED BY <4>1, <4>2, <2>7, Zenon
    <3>. QED BY <3>1, <3>2, Zenon DEF Consistent, BufferContains
  <2>. QED BY <2>4, <2>6, <2>7, <2>9, Zenon DEF d
<1>. QED BY <1>1, <1>2, Zenon

\* put stores a new trace and evicts the one in its slot.
LEMMA PutFacts ==
  ASSUME NEW rg \in RingType, Consistent(rg), NEW t \in Traces, ~BufferContains(rg, t)
  PROVE  /\ Put(rg, t) \in RingType /\ Consistent(Put(rg, t))
         /\ EvictedBy(rg) # Empty => BufferContains(rg, EvictedBy(rg))
         /\ \A q \in Traces :
              BufferContains(Put(rg, t), q) <=>
                q = t \/ (BufferContains(rg, q) /\ q # EvictedBy(rg))
<1>. DEFINE i == Slot(rg)
            e == EvictedBy(rg)
            d == IF e # Empty THEN Delete(rg, e) ELSE rg
            p == Put(rg, t)
<1>1. i \in 0 .. RingSize - 1 /\ e \in Traces \cup {Empty} /\ e = rg.ids[i]
  BY SlotFacts, Zenon DEF EvictedBy
<1>2. e # Empty => rg.idToIndex[e] = i /\ e \in Traces
  BY <1>1, Zenon DEF Consistent
<1>3. e # Empty => BufferContains(rg, e)
  BY <1>1, <1>2 DEF BufferContains, NotFound
<1>4. /\ d \in RingType /\ Consistent(d) /\ d.ids[i] = Empty
      /\ \A q \in Traces : d.idToIndex[q] = IF q = e THEN NotFound ELSE rg.idToIndex[q]
  <2>1. CASE e = Empty
    BY <2>1, <1>1, NamesAssumption, Zenon
  <2>2. CASE e # Empty
    <3>1. e \in Traces /\ d = Delete(rg, e)
      BY <2>2, <1>2, Zenon
    <3>. HIDE DEF d, e, i
    <3>2. /\ d \in RingType /\ Consistent(d)
          /\ \A k \in 0 .. RingSize - 1 : d.ids[k] = IF rg.ids[k] = e THEN Empty ELSE rg.ids[k]
          /\ \A q \in Traces : d.idToIndex[q] = IF q = e THEN NotFound ELSE rg.idToIndex[q]
      BY <3>1, DeleteFacts, SMTT(30)
    <3>. QED BY <3>2, <1>1, Zenon
  <2>. QED BY <2>1, <2>2, Zenon
<1>5. p = [d EXCEPT !.index = i, !.ids[i] = t, !.idToIndex[t] = i]
  BY Zenon DEF Put
<1>. HIDE DEF i, e, d, p
<1>6. i \in -1 .. RingSize - 1 /\ i \in NotFound .. RingSize - 1 /\ i # NotFound
  BY <1>1, SizesAssumption DEF NotFound
<1>7. /\ p \in RingType
      /\ p.ids = [d.ids EXCEPT ![i] = t] /\ p.idToIndex = [d.idToIndex EXCEPT ![t] = i]
  BY <1>1, <1>4, <1>5, <1>6, Zenon DEF RingType
<1>8. d.idToIndex[t] = NotFound
  BY <1>4, Zenon DEF BufferContains
<1>9. /\ \A k \in 0 .. RingSize - 1 : p.ids[k] = IF k = i THEN t ELSE d.ids[k]
      /\ \A q \in Traces : p.idToIndex[q] = IF q = t THEN i ELSE d.idToIndex[q]
  BY <1>1, <1>4, <1>7, Zenon DEF RingType
<1>10. /\ \A q \in Traces : d.idToIndex[q] # NotFound => d.idToIndex[q] \in 0 .. RingSize - 1
       /\ \A k \in 0 .. RingSize - 1 : d.ids[k] \in Traces \cup {Empty}
  BY <1>4, SizesAssumption DEF RingType, NotFound
<1>11. Consistent(p)
  <2>1. ASSUME NEW q \in Traces, p.idToIndex[q] # NotFound PROVE p.ids[p.idToIndex[q]] = q
    <3>1. CASE q = t
      BY <3>1, <1>1, <1>9, Zenon
    <3>2. CASE q # t
      <4>1. p.idToIndex[q] = d.idToIndex[q] /\ d.ids[d.idToIndex[q]] = q
        BY <3>2, <2>1, <1>4, <1>9, Zenon DEF Consistent, BufferContains
      <4>2. d.idToIndex[q] # i
        BY <4>1, <1>4, NamesAssumption, Zenon
      <4>. QED BY <4>1, <4>2, <2>1, <1>9, <1>10, Zenon
    <3>. QED BY <3>1, <3>2, Zenon
  <2>2. ASSUME NEW k \in 0 .. RingSize - 1, p.ids[k] # Empty PROVE p.idToIndex[p.ids[k]] = k
    <3>1. CASE k = i
      BY <3>1, <1>1, <1>9, Zenon
    <3>2. CASE k # i
      <4>1. p.ids[k] = d.ids[k] /\ d.idToIndex[d.ids[k]] = k /\ d.ids[k] \in Traces
        BY <3>2, <2>2, <1>4, <1>9, <1>10 DEF Consistent
      <4>2. k # NotFound
        BY DEF NotFound
      <4>3. d.ids[k] # t
        BY <4>1, <4>2, <1>8, Zenon
      <4>. QED BY <4>1, <4>3, <1>9, Zenon
    <3>. QED BY <3>1, <3>2, Zenon
  <2>. QED BY <2>1, <2>2, Zenon DEF Consistent, BufferContains
<1>12. \A q \in Traces : BufferContains(p, q) <=> q = t \/ (BufferContains(rg, q) /\ q # e)
  BY <1>4, <1>6, <1>9, Zenon DEF BufferContains
<1>. QED BY <1>3, <1>7, <1>11, <1>12, Zenon DEF p, e

-----------------------------------------------------------------------------
(* Events *)

\* The events a goroutine fires are its own.
LEMMA EventFacts ==
  ASSUME NEW b \in Batches
  PROVE  /\ Received(b) \in Events /\ From(<<"consume", b>>, Received(b))
         /\ Expired(b) \in Events /\ From(<<"timer", b>>, Expired(b))
         /\ \A rss \in SUBSET Batches :
              Released(b, rss) \in Events /\ From(<<"release", b>>, Released(b, rss))
         /\ Removed(b, TraceOf[b]) \in Events /\ From(<<"release", b>>, Removed(b, TraceOf[b]))
         /\ \A t \in Traces : WorkerOf[t] = WorkerOf[TraceOf[b]] =>
              Removed(b, t) \in Events /\ From(<<"evict", b>>, Removed(b, t))
         /\ \A k \in {"consume", "evict", "timer", "release"} : <<k, b>> \in Senders
         /\ TraceOf[b] \in Traces
<1>1. TraceOf[b] \in Traces
  BY NamesAssumption, Zenon
<1>2. /\ Received(b) \in Events /\ Expired(b) \in Events
      /\ \A rss \in SUBSET Batches : Released(b, rss) \in Events
      /\ \A t \in Traces : Removed(b, t) \in Events
  BY <1>1, Zenon DEF Received, Expired, Released, Removed, Events
<1>3. From(<<"consume", b>>, Received(b)) /\ From(<<"timer", b>>, Expired(b))
  BY Zenon DEF From, Received, Expired, Own, TypesOf
<1>4. \A rss \in SUBSET Batches : From(<<"release", b>>, Released(b, rss))
  BY Zenon DEF From, Released, Own, TypesOf
<1>5. From(<<"release", b>>, Removed(b, TraceOf[b]))
  BY Zenon DEF From, Removed, Own, TypesOf
<1>6. \A t \in Traces : WorkerOf[t] = WorkerOf[TraceOf[b]] => From(<<"evict", b>>, Removed(b, t))
  BY Zenon DEF From, Removed, Own, TypesOf
<1>. QED BY <1>1, <1>2, <1>3, <1>4, <1>5, <1>6, Zenon DEF Senders

\* What waits in a channel is an event.
LEMMA QueueFacts ==
  ASSUME TypeOK, NEW w \in Workers, NEW i \in DOMAIN queue[w]
  PROVE  queue[w][i] \in Events /\ queue[w][i].by \in Batches /\ queue[w][i] \in Range(queue[w])
<1>1. queue[w] \in Seq(Events)
  BY Zenon DEF TypeOK
<1>2. queue[w][i] \in Events
  BY <1>1, ElementOfSeq, LenProperties, Zenon
<1>. QED BY <1>2, Zenon DEF Events, Range

\* The first event of a channel is for a trace of the worker.
LEMMA TakeFacts ==
  ASSUME TypeOK, RouteInv, NEW w \in Workers, NEW typ, Take(w, typ)
  PROVE  LET e == Head(queue[w])
         IN  /\ e \in Events /\ e.typ = typ /\ Own(e) /\ WorkerOf[e.trace] = w
             /\ e.by \in Batches /\ e.trace \in Traces /\ WorkerOf[TraceOf[e.by]] = w
             /\ e \in Range(queue[w])
             /\ queue' \in [Workers -> Seq(Events)]
             /\ \A v \in Workers : Len(queue'[v]) <= QueueSize
             /\ \A v \in Workers : \A x \in Range(queue'[v]) : x \in Range(queue[v])
             /\ \A v \in Workers : \A x \in Range(queue[v]) :
                  x \in Range(queue'[v]) \/ (x = e /\ v = w)
             /\ \A v \in Workers : v # w => queue'[v] = queue[v]
             /\ queue'[w] = Tail(queue[w])
<1>. DEFINE q == queue[w]
            e == Head(q)
            r == Tail(q)
<1>1. q \in Seq(Events) /\ q # <<>> /\ e.typ = typ /\ queue' = [queue EXCEPT ![w] = r]
  BY Zenon DEF Take, TypeOK
<1>. HIDE DEF q
<1>2. e \in Events /\ r \in Seq(Events) /\ Len(r) = Len(q) - 1 /\ Range(q) = Range(r) \cup {e}
  BY <1>1, TailFacts, Zenon
<1>. HIDE DEF e, r
<1>3. e \in Range(q)
  BY <1>2, Zenon
<1>4. Own(e) /\ WorkerOf[e.trace] = w
  BY <1>3, Zenon DEF RouteInv, q
<1>5. e.by \in Batches /\ e.trace \in Traces /\ WorkerOf[TraceOf[e.by]] = w
  BY <1>2, <1>4, Zenon DEF Events, Own
<1>6. queue \in [Workers -> Seq(Events)] /\ \A v \in Workers : Len(queue[v]) <= QueueSize
  BY Zenon DEF TypeOK
<1>7. queue' \in [Workers -> Seq(Events)] /\ queue'[w] = r /\ \A v \in Workers : v # w => queue'[v] = queue[v]
  BY <1>1, <1>2, <1>6, Zenon
<1>8. Len(r) <= QueueSize
  BY <1>1, <1>2, <1>6, LenProperties, SizesAssumption DEF q
<1>9. \A v \in Workers : Len(queue'[v]) <= QueueSize
  BY <1>6, <1>7, <1>8, Zenon
<1>10. \A v \in Workers : \A x \in Range(queue'[v]) : x \in Range(queue[v])
  BY <1>7, <1>2, Zenon DEF q
<1>11. \A v \in Workers : \A x \in Range(queue[v]) : x \in Range(queue'[v]) \/ (x = e /\ v = w)
  BY <1>7, <1>2, Zenon DEF q
<1>. QED BY <1>1, <1>2, <1>3, <1>4, <1>5, <1>7, <1>9, <1>10, <1>11, Zenon DEF e, q, r

\* Taking an event keeps the two events of a release in order.
LEMMA ReleaseTake ==
  ASSUME TypeOK, ReleaseInv, NEW w \in Workers, NEW typ, Take(w, typ),
         UNCHANGED <<sending, life>>,
         \A b \in Batches : calling'[<<"release", b>>] = calling[<<"release", b>>]
  PROVE  ReleaseInv'
<1>. DEFINE q == queue[w]
            r == Tail(q)
<1>1. q \in Seq(Events) /\ q # <<>> /\ queue' = [queue EXCEPT ![w] = r] /\ Followed(q, sending)
  BY Zenon DEF Take, TypeOK, ReleaseInv
<1>. HIDE DEF q
<1>2. /\ \A i \in DOMAIN r : i + 1 \in DOMAIN q /\ r[i] = q[i + 1]
      /\ \A i \in DOMAIN q : i = 1 \/ (i - 1 \in DOMAIN r /\ r[i - 1] = q[i])
      /\ DOMAIN q \subseteq Nat /\ DOMAIN r \subseteq Nat \ {0}
  BY <1>1, TailFacts, LenProperties
<1>. HIDE DEF r
<1>3. Followed(r, sending)
  <2>. SUFFICES ASSUME NEW i \in DOMAIN r, r[i].typ = "released",
                       sending[<<"release", r[i].by>>] # <<Removed(r[i].by, r[i].trace)>>
                PROVE  \E j \in DOMAIN r : i < j /\ r[j] = Removed(r[i].by, r[i].trace)
    BY Zenon DEF Followed
  <2>1. i + 1 \in DOMAIN q /\ q[i + 1] = r[i] /\ i \in Nat \ {0}
    BY <1>2, Zenon
  <2>2. PICK j \in DOMAIN q : i + 1 < j /\ q[j] = Removed(r[i].by, r[i].trace)
    BY <1>1, <2>1, Zenon DEF Followed
  <2>3. j - 1 \in DOMAIN r /\ r[j - 1] = q[j] /\ i < j - 1
    BY <1>2, <2>1, <2>2
  <2>. QED BY <2>2, <2>3, Zenon
<1>4. \A v \in Workers : Followed(queue'[v], sending')
  BY <1>1, <1>3, Zenon DEF ReleaseInv, TypeOK
<1>. QED BY <1>4, Zenon DEF ReleaseInv, closed

\* Taking an event leaves the others where they belong.
LEMMA RouteTake ==
  ASSUME TypeOK, RouteInv, NEW w \in Workers, NEW typ, Take(w, typ), UNCHANGED <<calling, sending>>
  PROVE  RouteInv'
BY TakeFacts, ZenonT(40) DEF RouteInv

\* Taking an event that is not an expiry disturbs no expiry, and nor does
\* storing a batch.
LEMMA ExpiryTake ==
  ASSUME TypeOK, RouteInv, ExpiryPending, NEW w \in Workers, NEW typ, Take(w, typ), typ # "expired",
         UNCHANGED <<ring, timers, adding, calling, sending, life>>
  PROVE  ExpiryPending'
<1>. SUFFICES ASSUME ~closed, NEW t \in Traces, InRing(t),
                     ~(\E b \in timers \cup adding : TraceOf[b] = t)
              PROVE  Pending("expired", t)'
  BY Zenon DEF ExpiryPending, closed, InRing
<1>1. Pending("expired", t)
  BY Zenon DEF ExpiryPending
<1>2. WorkerOf[t] \in Workers
  BY NamesAssumption, Zenon
<1>3. \A x \in Range(queue[WorkerOf[t]]) : x.typ = "expired" => x \in Range(queue'[WorkerOf[t]])
  BY TakeFacts, <1>2, ZenonT(40)
<1>. QED BY <1>1, <1>3, Zenon DEF Pending

\* What a worker is doing after a handler.
LEMMA LoopType ==
  ASSUME TypeOK, NEW w \in Workers, Loop(w)
  PROVE  handler' \in [Workers -> Batches \cup {"idle", "stopped"}]
BY Zenon DEF TypeOK, Loop

-----------------------------------------------------------------------------
(* The workers *)

\* A batch of a trace that the ring has.
LEMMA ReceiveKnownStep ==
  ASSUME IInv, NEW w \in Workers, ReceiveKnown(w)
  PROVE  IInv'
<1>. DEFINE e == Head(queue[w])
            b == e.by
<1>1. /\ Take(w, "received") /\ content' = [content EXCEPT ![TraceOf[b]] = @ \cup {b}] /\ Loop(w)
      /\ UNCHANGED <<ring, consumed, adding, timers, getting, calling, sending, life, delivered>>
  BY Zenon DEF ReceiveKnown, AddSpans
<1>2. /\ b \in Batches /\ queue' \in [Workers -> Seq(Events)]
      /\ \A v \in Workers : Len(queue'[v]) <= QueueSize
  BY <1>1, TakeFacts, Zenon DEF IInv
<1>. HIDE DEF e, b
<1>3. TypeOK'
  BY <1>1, <1>2, LoopType, NamesAssumption, Zenon DEF IInv, TypeOK
<1>4. RingInv'
  BY <1>1, Zenon DEF IInv, RingInv
<1>5. RouteInv'
  BY <1>1, RouteTake, Zenon DEF IInv
<1>6. ExpiryPending'
  BY <1>1, ExpiryTake, Zenon DEF IInv
<1>7. ReleaseInv'
  BY <1>1, ReleaseTake, Zenon DEF IInv
<1>. QED BY <1>3, <1>4, <1>5, <1>6, <1>7, Zenon DEF IInv

\* A new trace takes a slot of its worker's ring.
LEMMA PutStep ==
  ASSUME IInv, NEW w \in Workers, NEW t \in Traces, WorkerOf[t] = w, ~BufferContains(ring[w], t),
         ring' = [ring EXCEPT ![w] = Put(@, t)]
  PROVE  /\ ring' \in [Workers -> RingType] /\ RingInv'
         /\ InRing(t)'
         /\ \A q \in Traces : InRing(q)' => InRing(q) \/ q = t
         /\ \A q \in Traces : InRing(q) => InRing(q)' \/ q = EvictedBy(ring[w])
         /\ LET e == EvictedBy(ring[w]) IN e # Empty => e \in Traces /\ WorkerOf[e] = w /\ InRing(e)
<1>. DEFINE rg == ring[w]
            e == EvictedBy(rg)
            p == Put(rg, t)
<1>1. ring \in [Workers -> RingType] /\ rg \in RingType /\ Consistent(rg)
  BY Zenon DEF IInv, TypeOK, RingInv, RingType
<1>2. /\ p \in RingType /\ Consistent(p) /\ (e # Empty => BufferContains(rg, e))
      /\ \A q \in Traces : BufferContains(p, q) <=> q = t \/ (BufferContains(rg, q) /\ q # e)
  BY <1>1, PutFacts, Zenon
<1>3. e \in Traces \cup {Empty}
  BY <1>1, SlotFacts, Zenon
<1>4. ring' = [ring EXCEPT ![w] = p]
  BY Zenon
<1>. HIDE DEF rg, e, p
<1>5. ring' \in [Workers -> RingType] /\ ring'[w] = p /\ \A v \in Workers : v # w => ring'[v] = ring[v]
  BY <1>1, <1>2, <1>4
<1>6. \A q \in Traces : BufferContains(rg, q) => WorkerOf[q] = w
  BY Zenon DEF IInv, RingInv, rg
<1>7. RingInv'
  <2>1. ASSUME NEW v \in Workers
        PROVE  Consistent(ring'[v]) /\ \A q \in Traces : BufferContains(ring'[v], q) => WorkerOf[q] = v
    BY <1>2, <1>5, <1>6, Zenon DEF IInv, RingInv
  <2>. QED BY <2>1, Zenon DEF RingInv
<1>8. BufferContains(ring'[WorkerOf[t]], t)
  BY <1>2, <1>5, Zenon
<1>9. \A q \in Traces : BufferContains(ring'[WorkerOf[q]], q) => BufferContains(ring[WorkerOf[q]], q) \/ q = t
  BY <1>2, <1>5, NamesAssumption, Zenon DEF rg
<1>10. \A q \in Traces : BufferContains(ring[WorkerOf[q]], q) => BufferContains(ring'[WorkerOf[q]], q) \/ q = e
  BY <1>2, <1>5, NamesAssumption, Zenon DEF rg
<1>11. e # Empty => e \in Traces /\ WorkerOf[e] = w /\ InRing(e)
  BY <1>2, <1>3, <1>6, Zenon DEF InRing, rg
<1>. QED BY <1>5, <1>7, <1>8, <1>9, <1>10, <1>11, Zenon DEF InRing, e, rg

\* A batch of a new trace that evicts none.
LEMMA ReceiveNewStep ==
  ASSUME IInv, NEW w \in Workers, ReceiveNew(w)
  PROVE  IInv'
<1>. DEFINE b == Head(queue[w]).by
            t == TraceOf[b]
<1>1. /\ Take(w, "received") /\ ~BufferContains(ring[w], t)
      /\ ring' = [ring EXCEPT ![w] = Put(@, t)]
      /\ content' = [content EXCEPT ![t] = @ \cup {b}] /\ timers' = timers \cup {b} /\ Loop(w)
      /\ UNCHANGED <<consumed, adding, getting, calling, sending, life, delivered>>
  BY Zenon DEF ReceiveNew, AddSpans
<1>2. /\ b \in Batches /\ WorkerOf[t] = w /\ queue' \in [Workers -> Seq(Events)]
      /\ \A v \in Workers : Len(queue'[v]) <= QueueSize
      /\ \A v \in Workers : \A x \in Range(queue[v]) : x.typ = "expired" => x \in Range(queue'[v])
  BY <1>1, TakeFacts, Zenon DEF IInv
<1>. HIDE DEF b
<1>3. t \in Traces
  BY <1>2, NamesAssumption, Zenon
<1>. HIDE DEF t
<1>4. /\ ring' \in [Workers -> RingType] /\ RingInv'
      /\ \A q \in Traces : InRing(q)' => InRing(q) \/ q = t
  BY <1>1, <1>2, <1>3, PutStep, Zenon
<1>5. TypeOK'
  BY <1>1, <1>2, <1>3, <1>4, LoopType, SMTT(30) DEF IInv, TypeOK, RingType
<1>6. RouteInv'
  BY <1>1, RouteTake, Zenon DEF IInv
<1>7. ExpiryPending'
  <2>. SUFFICES ASSUME ~closed, NEW q \in Traces, InRing(q)',
                       ~(\E c \in timers' \cup adding : TraceOf[c] = q)
                PROVE  Pending("expired", q)'
    BY <1>1, Zenon DEF ExpiryPending, closed
  <2>1. InRing(q)
    BY <1>1, <1>4, Zenon DEF t
  <2>2. Pending("expired", q)
    BY <2>1, <1>1, Zenon DEF IInv, ExpiryPending
  <2>3. WorkerOf[q] \in Workers
    BY NamesAssumption, Zenon
  <2>. QED BY <2>2, <2>3, <1>1, <1>2, Zenon DEF Pending
<1>8. ReleaseInv'
  BY <1>1, ReleaseTake, Zenon DEF IInv
<1>. QED BY <1>4, <1>5, <1>6, <1>7, <1>8, Zenon DEF IInv

\* A batch of a new trace that evicts another.
LEMMA ReceiveEvictStep ==
  ASSUME IInv, NEW w \in Workers, ReceiveEvict(w)
  PROVE  IInv'
<1>. DEFINE b == Head(queue[w]).by
            t == TraceOf[b]
            e == EvictedBy(ring[w])
            s == <<"evict", b>>
            l == <<Removed(b, e)>>
<1>1. /\ Take(w, "received") /\ ~BufferContains(ring[w], t) /\ e # Empty
      /\ ring' = [ring EXCEPT ![w] = Put(@, t)]
      /\ calling' = [calling EXCEPT ![s] = l]
      /\ adding' = adding \cup {b} /\ handler' = [handler EXCEPT ![w] = b]
      /\ UNCHANGED <<content, consumed, timers, getting, sending, life, delivered>>
  BY Zenon DEF ReceiveEvict
<1>2. /\ b \in Batches /\ WorkerOf[t] = w /\ queue' \in [Workers -> Seq(Events)]
      /\ \A v \in Workers : Len(queue'[v]) <= QueueSize
      /\ \A v \in Workers : \A x \in Range(queue'[v]) : x \in Range(queue[v])
      /\ \A v \in Workers : \A x \in Range(queue[v]) : x.typ = "expired" => x \in Range(queue'[v])
  BY <1>1, TakeFacts, ZenonT(40) DEF IInv
<1>. HIDE DEF b
<1>3. t \in Traces
  BY <1>2, NamesAssumption, Zenon
<1>4. /\ ring' \in [Workers -> RingType] /\ RingInv'
      /\ \A q \in Traces : InRing(q)' => InRing(q) \/ q = t
      /\ e \in Traces /\ WorkerOf[e] = w
  BY <1>1, <1>2, <1>3, PutStep, Zenon
<1>. HIDE DEF e, l
<1>5. /\ s \in Senders /\ l \in Seq(Events)
      /\ \A x \in Range(l) : From(s, x)
  <2>1. s \in Senders /\ Removed(b, e) \in Events /\ From(s, Removed(b, e))
    BY <1>2, <1>4, EventFacts, Zenon
  <2>2. l \in Seq(Events) /\ Range(l) = {Removed(b, e)}
    BY <2>1, ShortFacts, Zenon DEF l
  <2>. QED BY <2>1, <2>2, Zenon
<1>6. calling \in [Senders -> Seq(Events)] /\ \A x \in Range(calling[s]) : x.typ = "removed"
  BY <1>5, Zenon DEF IInv, TypeOK, RouteInv, From, TypesOf
<1>7. /\ calling' \in [Senders -> Seq(Events)] /\ calling'[s] = l
      /\ \A r \in Senders : r # s => calling'[r] = calling[r]
  BY <1>1, <1>5, <1>6, Zenon
<1>8. TypeOK'
  BY <1>1, <1>2, <1>4, <1>7, Zenon DEF IInv, TypeOK, RingType
<1>9. RouteInv'
  BY <1>1, <1>2, <1>5, <1>7, ZenonT(40) DEF IInv, RouteInv
<1>10. ExpiryPending'
  <2>. SUFFICES ASSUME ~closed, NEW q \in Traces, InRing(q)',
                       ~(\E c \in timers \cup adding' : TraceOf[c] = q)
                PROVE  Pending("expired", q)'
    BY <1>1, Zenon DEF ExpiryPending, closed
  <2>1. InRing(q)
    BY <1>1, <1>4, Zenon
  <2>2. Pending("expired", q)
    BY <2>1, <1>1, Zenon DEF IInv, ExpiryPending
  <2>3. WorkerOf[q] \in Workers
    BY NamesAssumption, Zenon
  <2>4. \A r \in Senders : \A x \in Range(calling[r]) : x.typ = "expired" => x \in Range(calling'[r])
    BY <1>6, <1>7, Zenon
  <2>. HIDE DEF s
  <2>. QED BY <2>2, <2>3, <2>4, <1>1, <1>2, Zenon DEF Pending
<1>11. ReleaseInv'
  <2>1. \A c \in Batches : <<"release", c>> \in Senders /\ <<"release", c>> # s
    BY EventFacts, Zenon
  <2>. QED BY <2>1, <1>1, <1>7, ReleaseTake, Zenon DEF IInv
<1>. QED BY <1>4, <1>8, <1>9, <1>10, <1>11, Zenon DEF IInv

\* The timer of a trace that the ring no longer has.
LEMMA ExpiredSkipStep ==
  ASSUME IInv, NEW w \in Workers, OnTraceExpiredSkip(w)
  PROVE  IInv'
<1>. DEFINE e == Head(queue[w])
<1>1. /\ Take(w, "expired") /\ ~BufferContains(ring[w], e.trace) /\ Loop(w)
      /\ UNCHANGED <<ring, content, consumed, adding, timers, getting, calling, sending, life, delivered>>
  BY Zenon DEF OnTraceExpiredSkip, store
<1>2. /\ WorkerOf[e.trace] = w /\ queue' \in [Workers -> Seq(Events)]
      /\ \A v \in Workers : Len(queue'[v]) <= QueueSize
      /\ \A v \in Workers : \A x \in Range(queue[v]) : x \in Range(queue'[v]) \/ x = e
  BY <1>1, TakeFacts, Zenon DEF IInv
<1>. HIDE DEF e
<1>3. TypeOK'
  BY <1>1, <1>2, LoopType, Zenon DEF IInv, TypeOK
<1>4. RingInv'
  BY <1>1, Zenon DEF IInv, RingInv
<1>5. RouteInv'
  BY <1>1, RouteTake, Zenon DEF IInv
<1>6. ExpiryPending'
  <2>. SUFFICES ASSUME ~closed, NEW t \in Traces, InRing(t),
                       ~(\E b \in timers \cup adding : TraceOf[b] = t)
                PROVE  Pending("expired", t)'
    BY <1>1, Zenon DEF ExpiryPending, closed, InRing
  <2>1. Pending("expired", t)
    BY Zenon DEF IInv, ExpiryPending
  <2>2. t # e.trace /\ WorkerOf[t] \in Workers
    BY <1>1, <1>2, NamesAssumption, Zenon DEF InRing
  <2>. QED BY <2>1, <2>2, <1>1, <1>2, Zenon DEF Pending
<1>7. ReleaseInv'
  BY <1>1, ReleaseTake, Zenon DEF IInv
<1>. QED BY <1>3, <1>4, <1>5, <1>6, <1>7, Zenon DEF IInv

\* A trace leaves the ring of its worker.
LEMMA DeleteStep ==
  ASSUME IInv, NEW w \in Workers, NEW t \in Traces, WorkerOf[t] = w,
         ring' = [ring EXCEPT ![w] = Delete(@, t)]
  PROVE  /\ ring' \in [Workers -> RingType] /\ RingInv'
         /\ \A q \in Traces : InRing(q)' <=> InRing(q) /\ q # t
<1>. DEFINE rg == ring[w]
            d == Delete(rg, t)
<1>1. ring \in [Workers -> RingType] /\ rg \in RingType /\ Consistent(rg)
  BY Zenon DEF IInv, TypeOK, RingInv, RingType
<1>2. /\ d \in RingType /\ Consistent(d)
      /\ \A q \in Traces : d.idToIndex[q] = IF q = t THEN NotFound ELSE rg.idToIndex[q]
  BY <1>1, DeleteFacts
<1>3. ring' = [ring EXCEPT ![w] = d]
  BY Zenon
<1>. HIDE DEF rg, d
<1>4. ring' \in [Workers -> RingType] /\ ring'[w] = d /\ \A v \in Workers : v # w => ring'[v] = ring[v]
  BY <1>1, <1>2, <1>3
<1>5. \A q \in Traces : BufferContains(d, q) <=> BufferContains(rg, q) /\ q # t
  BY <1>2, Zenon DEF BufferContains
<1>6. RingInv'
  <2>1. ASSUME NEW v \in Workers
        PROVE  Consistent(ring'[v]) /\ \A q \in Traces : BufferContains(ring'[v], q) => WorkerOf[q] = v
    BY <1>2, <1>4, <1>5 DEF IInv, RingInv, rg
  <2>. QED BY <2>1, Zenon DEF RingInv
<1>7. \A q \in Traces : BufferContains(ring'[WorkerOf[q]], q) <=> BufferContains(ring[WorkerOf[q]], q) /\ q # t
  BY <1>4, <1>5, NamesAssumption, Zenon DEF rg
<1>. QED BY <1>4, <1>6, <1>7, Zenon DEF InRing

\* The timer of a trace that the ring has.
LEMMA ExpiredStep ==
  ASSUME IInv, NEW w \in Workers, OnTraceExpired(w)
  PROVE  IInv'
<1>. DEFINE e == Head(queue[w])
<1>1. /\ Take(w, "expired") /\ ring' = [ring EXCEPT ![w] = Delete(@, e.trace)] /\ Loop(w)
      /\ getting' = getting \cup {e.by}
      /\ UNCHANGED <<content, consumed, adding, timers, calling, sending, life, delivered>>
  BY Zenon DEF OnTraceExpired
<1>2. /\ WorkerOf[e.trace] = w /\ queue' \in [Workers -> Seq(Events)]
      /\ e.trace \in Traces /\ e.by \in Batches
      /\ \A v \in Workers : Len(queue'[v]) <= QueueSize
      /\ \A v \in Workers : \A x \in Range(queue[v]) : x \in Range(queue'[v]) \/ x = e
  BY <1>1, TakeFacts, Zenon DEF IInv
<1>. HIDE DEF e
<1>3. /\ ring' \in [Workers -> RingType] /\ RingInv'
      /\ \A q \in Traces : InRing(q)' <=> InRing(q) /\ q # e.trace
  BY <1>1, <1>2, DeleteStep, Zenon
<1>4. TypeOK'
  BY <1>1, <1>2, <1>3, LoopType, Zenon DEF IInv, TypeOK, RingType
<1>5. RouteInv'
  BY <1>1, RouteTake, Zenon DEF IInv
<1>6. ExpiryPending'
  <2>. SUFFICES ASSUME ~closed, NEW t \in Traces, InRing(t)',
                       ~(\E b \in timers \cup adding : TraceOf[b] = t)
                PROVE  Pending("expired", t)'
    BY <1>1, Zenon DEF ExpiryPending, closed
  <2>1. InRing(t) /\ t # e.trace /\ WorkerOf[t] \in Workers
    BY <1>3, NamesAssumption, Zenon
  <2>2. Pending("expired", t)
    BY <2>1, Zenon DEF IInv, ExpiryPending
  <2>. QED BY <2>1, <2>2, <1>1, <1>2, Zenon DEF Pending
<1>7. ReleaseInv'
  BY <1>1, ReleaseTake, Zenon DEF IInv
<1>. QED BY <1>3, <1>4, <1>5, <1>6, <1>7, Zenon DEF IInv

\* A released trace is delivered.
LEMMA ReleasedStep ==
  ASSUME IInv, NEW w \in Workers, OnTraceReleased(w)
  PROVE  IInv'
<1>. DEFINE rss == Head(queue[w]).rss
<1>1. /\ Take(w, "released") /\ Loop(w)
      /\ delivered' = [b \in Batches |-> delivered[b] + (IF b \in rss THEN 1 ELSE 0)]
      /\ UNCHANGED <<ring, content, consumed, adding, timers, getting, calling, sending, life>>
  BY Zenon DEF OnTraceReleased, store
<1>2. /\ queue' \in [Workers -> Seq(Events)] /\ \A v \in Workers : Len(queue'[v]) <= QueueSize
  BY <1>1, TakeFacts, Zenon DEF IInv
<1>. HIDE DEF rss
<1>3. delivered' \in [Batches -> Nat]
  BY <1>1 DEF IInv, TypeOK
<1>4. TypeOK'
  BY <1>1, <1>2, <1>3, LoopType, Zenon DEF IInv, TypeOK
<1>5. RingInv'
  BY <1>1, ZenonT(40) DEF IInv, RingInv
<1>6. RouteInv' /\ ExpiryPending' /\ ReleaseInv'
  BY <1>1, RouteTake, ExpiryTake, ReleaseTake, Zenon DEF IInv
<1>. QED BY <1>4, <1>5, <1>6, Zenon DEF IInv

\* A trace is removed from the storage.
LEMMA RemovedStep ==
  ASSUME IInv, NEW w \in Workers, OnTraceRemoved(w)
  PROVE  IInv'
<1>. DEFINE t == Head(queue[w]).trace
<1>1. /\ Take(w, "removed") /\ Loop(w) /\ content' = [content EXCEPT ![t] = {}]
      /\ UNCHANGED <<ring, consumed, adding, timers, getting, calling, sending, life, delivered>>
  BY Zenon DEF OnTraceRemoved
<1>2. /\ queue' \in [Workers -> Seq(Events)] /\ \A v \in Workers : Len(queue'[v]) <= QueueSize
  BY <1>1, TakeFacts, Zenon DEF IInv
<1>. HIDE DEF t
<1>3. TypeOK'
  BY <1>1, <1>2, LoopType, Zenon DEF IInv, TypeOK
<1>4. RingInv'
  BY <1>1, Zenon DEF IInv, RingInv
<1>5. RouteInv' /\ ExpiryPending' /\ ReleaseInv'
  BY <1>1, RouteTake, ExpiryTake, ReleaseTake, Zenon DEF IInv
<1>. QED BY <1>3, <1>4, <1>5, Zenon DEF IInv

-----------------------------------------------------------------------------
(* The goroutines that fire events *)

\* A goroutine is about to fire events of its own.
LEMMA CallFacts ==
  ASSUME IInv, NEW s \in Senders, NEW l \in Seq(Events), \A x \in Range(l) : From(s, x),
         calling' = [calling EXCEPT ![s] = l], UNCHANGED <<sending, queue>>
  PROVE  /\ calling' \in [Senders -> Seq(Events)] /\ calling'[s] = l
         /\ \A r \in Senders : r # s => calling'[r] = calling[r]
         /\ RouteInv'
<1>1. /\ calling' \in [Senders -> Seq(Events)] /\ calling'[s] = l
      /\ \A r \in Senders : r # s => calling'[r] = calling[r]
  BY Zenon DEF IInv, TypeOK
<1>2. RouteInv'
  BY <1>1, Zenon DEF IInv, RouteInv
<1>. QED BY <1>1, <1>2, Zenon

\* A batch is consumed.
LEMMA ConsumeStep ==
  ASSUME IInv, NEW b \in Batches, Consume(b)
  PROVE  IInv'
<1>. DEFINE s == <<"consume", b>>
            l == <<Received(b)>>
<1>1. /\ consumed' = consumed \cup {b} /\ calling' = [calling EXCEPT ![s] = l]
      /\ UNCHANGED <<ring, content, queue, handler, adding, timers, getting, sending, life, delivered>>
  BY Zenon DEF Consume, store
<1>2. Received(b) \in Events /\ From(s, Received(b)) /\ s \in Senders
  BY EventFacts, Zenon
<1>3. l \in Seq(Events) /\ Range(l) = {Received(b)}
  BY <1>2, ShortFacts, Zenon
<1>4. \A c \in Batches : <<"release", c>> \in Senders /\ <<"release", c>> # s
  BY EventFacts, Zenon
<1>5. \A x \in Range(calling[s]) : x.typ = "received"
  BY <1>2, Zenon DEF IInv, RouteInv, From, TypesOf
<1>. HIDE DEF s, l
<1>6. /\ calling' \in [Senders -> Seq(Events)] /\ RouteInv'
      /\ \A r \in Senders : r # s => calling'[r] = calling[r]
  BY <1>1, <1>2, <1>3, CallFacts, Zenon
<1>7. TypeOK'
  BY <1>1, <1>6, Zenon DEF IInv, TypeOK
<1>8. RingInv'
  BY <1>1, Zenon DEF IInv, RingInv
<1>9. ExpiryPending'
  <2>1. \A t \in Traces : Pending("expired", t) => Pending("expired", t)'
    BY <1>1, <1>5, <1>6, Zenon DEF Pending
  <2>. QED BY <2>1, <1>1, Zenon DEF IInv, ExpiryPending, closed, InRing
<1>10. ReleaseInv'
  BY <1>1, <1>4, <1>6, Zenon DEF IInv, ReleaseInv, closed
<1>. QED BY <1>6, <1>7, <1>8, <1>9, <1>10, Zenon DEF IInv

\* A timer fires.
LEMMA TimerFiresStep ==
  ASSUME IInv, NEW b \in Batches, TimerFires(b)
  PROVE  IInv'
<1>. DEFINE s == <<"timer", b>>
            l == <<Expired(b)>>
<1>1. /\ timers' = timers \ {b} /\ calling' = [calling EXCEPT ![s] = l]
      /\ UNCHANGED <<ring, content, queue, handler, consumed, adding, getting, sending, life, delivered>>
  BY Zenon DEF TimerFires, store
<1>2. Expired(b) \in Events /\ From(s, Expired(b)) /\ s \in Senders
  BY EventFacts, Zenon
<1>3. l \in Seq(Events) /\ Range(l) = {Expired(b)}
  BY <1>2, ShortFacts, Zenon
<1>4. \A c \in Batches : <<"release", c>> \in Senders /\ <<"release", c>> # s
  BY EventFacts, Zenon
<1>5. \A x \in Range(calling[s]) : x.typ = "expired" /\ x.trace = TraceOf[b]
  BY <1>2 DEF IInv, RouteInv, From, TypesOf, Own
<1>. HIDE DEF s, l
<1>6. /\ calling' \in [Senders -> Seq(Events)] /\ RouteInv' /\ calling'[s] = l
      /\ \A r \in Senders : r # s => calling'[r] = calling[r]
  BY <1>1, <1>2, <1>3, CallFacts, ZenonT(40)
<1>7. TypeOK'
  BY <1>1, <1>6, Zenon DEF IInv, TypeOK
<1>8. RingInv'
  BY <1>1, Zenon DEF IInv, RingInv
<1>9. ExpiryPending'
  <2>1. Pending("expired", TraceOf[b])'
    BY <1>2, <1>3, <1>6, SMTT(30) DEF Pending, Expired
  <2>2. \A t \in Traces : t # TraceOf[b] /\ Pending("expired", t) => Pending("expired", t)'
    BY <1>1, <1>5, <1>6, Zenon DEF Pending
  <2>. QED BY <2>1, <2>2, <1>1, Zenon DEF IInv, ExpiryPending, closed, InRing
<1>10. ReleaseInv'
  BY <1>1, <1>4, <1>6, Zenon DEF IInv, ReleaseInv, closed
<1>. QED BY <1>6, <1>7, <1>8, <1>9, <1>10, Zenon DEF IInv

\* A trace is copied from the storage to be released.
LEMMA MarkStep ==
  ASSUME IInv, NEW b \in Batches, MarkAsReleased(b)
  PROVE  IInv'
<1>. DEFINE s == <<"release", b>>
            rss == content[TraceOf[b]]
            x == Released(b, rss)
            y == Removed(b, TraceOf[b])
            l == IF rss = {} THEN <<>> ELSE <<x, y>>
<1>1. /\ getting' = getting \ {b} /\ calling' = [calling EXCEPT ![s] = l]
      /\ UNCHANGED <<ring, content, queue, handler, consumed, adding, timers, sending, life, delivered>>
  BY Zenon DEF MarkAsReleased, store
<1>2. rss \in SUBSET Batches
  BY NamesAssumption, Zenon DEF IInv, TypeOK
<1>3. x \in Events /\ y \in Events /\ From(s, x) /\ From(s, y) /\ s \in Senders
  BY <1>2, EventFacts, Zenon
<1>4. \A c \in Batches : <<"release", c>> \in Senders /\ (<<"release", c>> = s => c = b)
  BY EventFacts, Zenon
<1>5. \A e \in Range(calling[s]) : e.typ # "expired"
  BY <1>3, Zenon DEF IInv, RouteInv, From, TypesOf
<1>6. l = <<>> \/ Pair(b, l)
  BY <1>2, Zenon DEF Pair
<1>. HIDE DEF s, rss, x, y
<1>7. l \in Seq(Events) /\ \A e \in Range(l) : From(s, e)
  <2>0. x \in Events /\ y \in Events
    BY <1>3, Zenon
  <2>1. /\ <<>> \in Seq(Events) /\ Range(<<>>) = {}
        /\ <<x, y>> \in Seq(Events) /\ Range(<<x, y>>) = {x, y}
    <3>1. <<>> \in Seq(Events) /\ Range(<<>>) = {}
      BY DEF Range
    <3>2. <<x, y>> \in Seq(Events) /\ DOMAIN <<x, y>> = {1, 2}
      BY <2>0
    <3>3. Range(<<x, y>>) = {x, y}
      BY <3>2 DEF Range
    <3>. QED BY <3>1, <3>2, <3>3, Zenon
  <2>2. CASE rss = {}
    BY <2>1, <2>2, Zenon
  <2>3. CASE rss # {}
    BY <2>1, <2>3, <1>3, Zenon
  <2>. QED BY <2>2, <2>3, Zenon
<1>. HIDE DEF l
<1>8. /\ calling' \in [Senders -> Seq(Events)] /\ RouteInv' /\ calling'[s] = l
      /\ \A r \in Senders : r # s => calling'[r] = calling[r]
  BY <1>1, <1>3, <1>7, CallFacts, Zenon
<1>9. TypeOK'
  BY <1>1, <1>8, Zenon DEF IInv, TypeOK
<1>10. RingInv'
  BY <1>1, Zenon DEF IInv, RingInv
<1>11. ExpiryPending'
  <2>1. \A t \in Traces : Pending("expired", t) => Pending("expired", t)'
    BY <1>1, <1>5, <1>8, Zenon DEF Pending
  <2>. QED BY <2>1, <1>1, Zenon DEF IInv, ExpiryPending, closed, InRing
<1>12. ReleaseInv'
  <2>1. \A c \in Batches : calling'[<<"release", c>>] = <<>> \/ Pair(c, calling'[<<"release", c>>])
    BY <1>4, <1>6, <1>8, ZenonT(40) DEF IInv, ReleaseInv
  <2>. QED BY <2>1, <1>1, Zenon DEF IInv, ReleaseInv, closed
<1>. QED BY <1>8, <1>9, <1>10, <1>11, <1>12, Zenon DEF IInv

\* An event that is pending stays so when another goroutine fires, unless the
\* machine is closed.
LEMMA FirePending ==
  ASSUME IInv, NEW s \in Senders, Fire(s), ~closed, NEW k, NEW t \in Traces, Pending(k, t)
  PROVE  Pending(k, t)'
<1>1. /\ sending[s] = <<>> /\ UNCHANGED queue
      /\ calling' = [calling EXCEPT ![s] = <<>>] /\ sending' = [sending EXCEPT ![s] = calling[s]]
  BY Zenon DEF Fire
<1>2. \A r \in Senders : Range(calling[r]) \cup Range(sending[r]) = Range(calling'[r]) \cup Range(sending'[r])
  BY <1>1, Zenon DEF IInv, TypeOK
<1>. QED BY <1>1, <1>2, Zenon DEF Pending

\* A goroutine enters fire.
LEMMA FireStep ==
  ASSUME IInv, NEW s \in Senders, Fire(s)
  PROVE  IInv'
<1>. DEFINE l == IF closed THEN <<>> ELSE calling[s]
<1>1. /\ sending[s] = <<>> /\ life # "locking"
      /\ calling' = [calling EXCEPT ![s] = <<>>] /\ sending' = [sending EXCEPT ![s] = l]
      /\ UNCHANGED <<ring, content, queue, handler, consumed, adding, timers, getting, life, delivered>>
  BY Zenon DEF Fire, store
<1>2. calling \in [Senders -> Seq(Events)] /\ sending \in [Senders -> Seq(Events)]
  BY Zenon DEF IInv, TypeOK
<1>3. <<>> \in Seq(Events) /\ Range(<<>>) = {}
  BY DEF Range
<1>4. l \in Seq(Events) /\ \A x \in Range(l) : From(s, x)
  BY <1>2, <1>3, Zenon DEF IInv, RouteInv
<1>5. (~closed => l = calling[s]) /\ (closed => l = <<>>)
  BY Zenon
<1>. HIDE DEF l
<1>6. /\ calling' \in [Senders -> Seq(Events)] /\ calling'[s] = <<>>
      /\ \A r \in Senders : r # s => calling'[r] = calling[r]
      /\ sending' \in [Senders -> Seq(Events)] /\ sending'[s] = l
      /\ \A r \in Senders : r # s => sending'[r] = sending[r]
  BY <1>1, <1>2, <1>3, <1>4, Zenon
<1>7. TypeOK'
  BY <1>1, <1>6, Zenon DEF IInv, TypeOK
<1>8. RingInv'
  BY <1>1, Zenon DEF IInv, RingInv
<1>9. RouteInv'
  BY <1>1, <1>3, <1>4, <1>6, Zenon DEF IInv, RouteInv
<1>10. ExpiryPending'
  <2>1. ~closed => \A t \in Traces : Pending("expired", t) => Pending("expired", t)'
    BY FirePending, Zenon
  <2>. QED BY <2>1, <1>1, Zenon DEF IInv, ExpiryPending, closed, InRing
<1>11. ReleaseInv'
  <2>1. \A b \in Batches : <<"release", b>> \in Senders
    BY EventFacts, Zenon
  <2>2. ASSUME NEW b \in Batches
        PROVE  /\ calling'[<<"release", b>>] = <<>> \/ Pair(b, calling'[<<"release", b>>])
               /\ \/ sending'[<<"release", b>>] = <<>> \/ Pair(b, sending'[<<"release", b>>])
                  \/ sending'[<<"release", b>>] = <<Removed(b, TraceOf[b])>>
    <3>1. CASE <<"release", b>> = s
      BY <3>1, <1>5, <1>6, Zenon DEF IInv, ReleaseInv
    <3>2. CASE <<"release", b>> # s
      BY <3>2, <2>1, <1>6, Zenon DEF IInv, ReleaseInv
    <3>. QED BY <3>1, <3>2, Zenon
  <2>3. ASSUME NEW w \in Workers PROVE Followed(queue'[w], sending')
    <3>1. queue[w] \in Seq(Events) /\ Followed(queue[w], sending)
      BY Zenon DEF IInv, TypeOK, ReleaseInv
    <3>2. \A b, t : sending[<<"release", b>>] = <<Removed(b, t)>> /\ b \in Batches =>
            sending'[<<"release", b>>] = <<Removed(b, t)>>
      <4>1. ASSUME NEW b \in Batches, NEW t, sending[<<"release", b>>] = <<Removed(b, t)>>
            PROVE  sending'[<<"release", b>>] = <<Removed(b, t)>>
        <5>1. <<"release", b>> # s
          BY <4>1, <1>1
        <5>. QED BY <5>1, <4>1, <2>1, <1>6, ZenonT(40)
      <4>. QED BY <4>1, Zenon
    <3>3. \A i \in DOMAIN queue[w] : queue[w][i].by \in Batches
      BY QueueFacts, Zenon DEF IInv
    <3>. QED BY <3>1, <3>2, <3>3, <1>1, SMTT(30) DEF Followed
  <2>4. closed' => \A r \in Senders : sending'[r] = <<>>
    BY <1>1, <1>5, <1>6, Zenon DEF IInv, ReleaseInv, closed
  <2>. QED BY <2>2, <2>3, <2>4, Zenon DEF ReleaseInv
<1>. QED BY <1>7, <1>8, <1>9, <1>10, <1>11, Zenon DEF IInv

\* An event that is sent goes to the worker of its trace.
LEMMA SendPending ==
  ASSUME IInv, NEW s \in Senders, Send(s), NEW k, NEW t \in Traces, Pending(k, t)
  PROVE  Pending(k, t)'
<1>. DEFINE w == WorkerFor(s)
            l == sending[s]
            e == Head(l)
            r == Tail(l)
            q == queue[w]
<1>1. /\ l # <<>> /\ queue' = [queue EXCEPT ![w] = Append(q, e)]
      /\ sending' = [sending EXCEPT ![s] = r] /\ UNCHANGED calling
  BY Zenon DEF Send
<1>2. w \in Workers /\ WorkerOf[t] \in Workers
  BY NamesAssumption, Zenon DEF Senders, WorkerFor
<1>3. /\ sending \in [Senders -> Seq(Events)] /\ queue \in [Workers -> Seq(Events)]
      /\ l \in Seq(Events) /\ q \in Seq(Events)
  BY <1>2, Zenon DEF IInv, TypeOK
<1>. HIDE DEF l, q, w
<1>4. e \in Events /\ Range(l) = Range(r) \cup {e}
  BY <1>1, <1>3, TailFacts, Zenon
<1>. HIDE DEF e, r
<1>5. Range(Append(q, e)) = Range(q) \cup {e}
  BY <1>3, <1>4, AppendFacts, SMTT(30)
<1>6. WorkerOf[e.trace] = w
  BY <1>4 DEF IInv, RouteInv, From, Own, l, w, WorkerFor
<1>7. \A x \in Senders : Range(sending[x]) \subseteq Range(sending'[x]) \cup {e}
  BY <1>1, <1>3, <1>4, Zenon DEF l
<1>8. \A v \in Workers : Range(queue[v]) \subseteq Range(queue'[v])
  BY <1>1, <1>2, <1>3, <1>5, Zenon DEF q
<1>9. e \in Range(queue'[w])
  BY <1>1, <1>2, <1>3, <1>5, Zenon
<1>. QED BY <1>1, <1>2, <1>6, <1>7, <1>8, <1>9, Zenon DEF Pending

\* A goroutine puts an event into a channel.
LEMMA SendStep ==
  ASSUME IInv, NEW s \in Senders, Send(s)
  PROVE  IInv'
<1>. DEFINE w == WorkerFor(s)
            l == sending[s]
            e == Head(l)
            r == Tail(l)
            q == queue[w]
            a == Append(q, e)
<1>1. /\ l # <<>> /\ Len(q) < QueueSize
      /\ queue' = [queue EXCEPT ![w] = a] /\ sending' = [sending EXCEPT ![s] = r]
      /\ UNCHANGED <<ring, content, handler, consumed, adding, timers, getting, calling, life, delivered>>
  BY Zenon DEF Send, store
<1>2. s[2] \in Batches /\ s = <<s[1], s[2]>> /\ w \in Workers
  BY NamesAssumption DEF Senders, WorkerFor
<1>3. /\ sending \in [Senders -> Seq(Events)] /\ queue \in [Workers -> Seq(Events)]
      /\ l \in Seq(Events) /\ q \in Seq(Events)
  BY <1>2, Zenon DEF IInv, TypeOK
<1>. HIDE DEF l, q, w
<1>4. e \in Events /\ r \in Seq(Events) /\ Range(l) = Range(r) \cup {e}
  BY <1>1, <1>3, TailFacts, Zenon
<1>. HIDE DEF e, r
<1>5. a \in Seq(Events) /\ Range(a) = Range(q) \cup {e} /\ Len(a) = Len(q) + 1
  BY <1>3, <1>4, AppendFacts, AppendProperties
<1>6. DOMAIN q = 1 .. Len(q) /\ DOMAIN a = 1 .. Len(q) + 1 /\ Len(q) \in Nat
  BY <1>3, <1>5, LenProperties, Zenon
<1>7. a[Len(q) + 1] = e /\ \A i \in DOMAIN q : a[i] = q[i]
  BY <1>3, <1>4, <1>6, AppendProperties, SMTT(30)
<1>8. From(s, e)
  BY <1>4, Zenon DEF IInv, RouteInv, l
<1>9. Own(e) /\ e.by = s[2] /\ WorkerOf[e.trace] = w
  BY <1>8, Zenon DEF From, Own, w, WorkerFor
<1>. HIDE DEF a
<1>10. /\ queue' \in [Workers -> Seq(Events)] /\ queue'[w] = a
       /\ \A v \in Workers : v # w => queue'[v] = queue[v]
       /\ sending' \in [Senders -> Seq(Events)] /\ sending'[s] = r
       /\ \A x \in Senders : x # s => sending'[x] = sending[x]
  BY <1>1, <1>2, <1>3, <1>4, <1>5, Zenon
<1>11. TypeOK'
  <2>1. \A v \in Workers : Len(queue'[v]) <= QueueSize
    BY <1>1, <1>5, <1>6, <1>10, SizesAssumption, SMTT(30) DEF IInv, TypeOK
  <2>. QED BY <2>1, <1>1, <1>10, Zenon DEF IInv, TypeOK
<1>12. RingInv'
  BY <1>1, ZenonT(40) DEF IInv, RingInv
<1>13. RouteInv'
  BY <1>1, <1>4, <1>5, <1>9, <1>10 DEF IInv, RouteInv, l, q
<1>14. ExpiryPending'
  <2>1. \A t \in Traces : Pending("expired", t) => Pending("expired", t)'
    BY SendPending, Zenon
  <2>. QED BY <2>1, <1>1, Zenon DEF IInv, ExpiryPending, closed, InRing
<1>15. ReleaseInv'
  <2>1. ASSUME NEW b \in Batches
        PROVE  /\ <<"release", b>> \in Senders
               /\ \A rss \in SUBSET Batches : Released(b, rss) \in Events
               /\ Removed(b, TraceOf[b]) \in Events
    BY EventFacts, Zenon
  <2>2. ASSUME NEW b \in Batches, s = <<"release", b>>
        PROVE  /\ r = <<>> \/ r = <<Removed(b, TraceOf[b])>>
               /\ e.typ = "released" => r = <<Removed(b, TraceOf[b])>> /\ e.by = b /\ e.trace = TraceOf[b]
               /\ \A t : l = <<Removed(b, t)>> => e = Removed(b, t)
    <3>1. Pair(b, l) \/ l = <<Removed(b, TraceOf[b])>>
      BY <1>1, <2>2, Zenon DEF IInv, ReleaseInv, l
    <3>2. CASE Pair(b, l)
      <4>1. PICK rss \in SUBSET Batches : l = <<Released(b, rss), Removed(b, TraceOf[b])>>
        BY <3>2, Zenon DEF Pair
      <4>2. e = Released(b, rss) /\ r = <<Removed(b, TraceOf[b])>>
        BY <4>1, <2>1, ShortFacts DEF e, r
      <4>3. \A t : l # <<Removed(b, t)>>
        BY <4>1, Zenon
      <4>. QED BY <4>2, <4>3, Zenon DEF Released
    <3>3. CASE l = <<Removed(b, TraceOf[b])>>
      <4>1. e = Removed(b, TraceOf[b]) /\ r = <<>>
        BY <3>3, <2>1, ShortFacts, Zenon DEF e, r
      <4>2. \A t : l = <<Removed(b, t)>> => e = Removed(b, t)
        BY <4>1, <3>3, Zenon
      <4>. QED BY <4>1, <4>2, Zenon DEF Removed
    <3>. QED BY <3>1, <3>2, <3>3, Zenon
  <2>3. ASSUME NEW b \in Batches
        PROVE  \/ sending'[<<"release", b>>] = <<>> \/ Pair(b, sending'[<<"release", b>>])
               \/ sending'[<<"release", b>>] = <<Removed(b, TraceOf[b])>>
    <3>1. CASE <<"release", b>> = s
      BY <3>1, <2>2, <1>10, ZenonT(40)
    <3>2. CASE <<"release", b>> # s
      BY <3>2, <2>1, <1>10, Zenon DEF IInv, ReleaseInv
    <3>. QED BY <3>1, <3>2, Zenon
  <2>4. \A v \in Workers : Followed(queue[v], sending)
    BY Zenon DEF IInv, ReleaseInv
  <2>5. ASSUME NEW v \in Workers, v # w PROVE Followed(queue[v], sending')
    <3>. SUFFICES ASSUME NEW i \in DOMAIN queue[v], queue[v][i].typ = "released"
                  PROVE  <<"release", queue[v][i].by>> # s /\ queue[v][i].by \in Batches
      BY <2>1, <2>4, <1>10, Zenon DEF Followed
    <3>1. queue[v][i] \in Range(queue[v]) /\ queue[v][i] \in Events
      BY <1>3, ElementOfSeq DEF Range
    <3>2. queue[v][i].trace = TraceOf[queue[v][i].by] /\ WorkerOf[queue[v][i].trace] = v
      BY <3>1, Zenon DEF IInv, RouteInv, Own
    <3>3. s[2] # queue[v][i].by
      BY <3>2, <2>5, Zenon DEF w, WorkerFor
    <3>. QED BY <3>1, <3>3, <1>2, SMTT(30) DEF Events
  <2>6. Followed(a, sending')
    <3>. SUFFICES ASSUME NEW i \in DOMAIN a, a[i].typ = "released",
                         ~(\E j \in DOMAIN a : i < j /\ a[j] = Removed(a[i].by, a[i].trace))
                  PROVE  sending'[<<"release", a[i].by>>] = <<Removed(a[i].by, a[i].trace)>>
      BY Zenon DEF Followed
    <3>1. CASE i = Len(q) + 1
      <4>1. a[i] = e /\ s[1] = "release"
        BY <3>1, <1>7, <1>8, Zenon DEF From, TypesOf, Senders
      <4>2. s = <<"release", s[2]>>
        BY <4>1, <1>2, Zenon
      <4>3. r = <<Removed(s[2], TraceOf[s[2]])>> /\ e.by = s[2] /\ e.trace = TraceOf[s[2]]
        BY <4>1, <4>2, <2>2, <1>2, Zenon
      <4>. QED BY <4>1, <4>2, <4>3, <1>10, Zenon
    <3>2. CASE i # Len(q) + 1
      <4>1. i \in DOMAIN q /\ a[i] = q[i] /\ Len(q) + 1 \in DOMAIN a /\ i < Len(q) + 1
        BY <3>2, <1>6, <1>7
      <4>2. \A j \in DOMAIN q : j \in DOMAIN a /\ a[j] = q[j]
        BY <1>6, <1>7
      <4>3. sending[<<"release", a[i].by>>] = <<Removed(a[i].by, a[i].trace)>>
        BY <4>1, <4>2, <2>4, <1>2, Zenon DEF Followed, q
      <4>4. a[i].by \in Batches
        BY <4>1, <1>2, QueueFacts, Zenon DEF IInv, q
      <4>5. <<"release", a[i].by>> # s
        BY <4>1, <4>3, <4>4, <2>2, <1>7 DEF l
      <4>. QED BY <4>3, <4>4, <4>5, <2>1, <1>10, Zenon
    <3>. QED BY <3>1, <3>2, Zenon
  <2>7. ~closed
    BY <1>1, Zenon DEF IInv, ReleaseInv, l
  <2>8. \A v \in Workers : Followed(queue'[v], sending')
    BY <2>5, <2>6, <1>10, Zenon
  <2>. QED BY <2>3, <2>7, <2>8, <1>1, Zenon DEF IInv, ReleaseInv, closed
<1>. QED BY <1>11, <1>12, <1>13, <1>14, <1>15, Zenon DEF IInv

-----------------------------------------------------------------------------
(* The end of a handler, and the shutdown *)

\* The handler of a new trace goes on after the eviction.
LEMMA ReceiveEndStep ==
  ASSUME IInv, NEW b \in Batches, ReceiveEnd(b)
  PROVE  IInv'
<1>. DEFINE w == WorkerOf[TraceOf[b]]
<1>1. /\ adding' = adding \ {b} /\ timers' = timers \cup {b}
      /\ content' = [content EXCEPT ![TraceOf[b]] = @ \cup {b}]
      /\ Loop(w) \/ UNCHANGED handler
      /\ UNCHANGED <<ring, queue, consumed, getting, calling, sending, life, delivered>>
  BY Zenon DEF ReceiveEnd, AddSpans
<1>2. TraceOf[b] \in Traces /\ w \in Workers
  BY NamesAssumption, Zenon
<1>3. handler' \in [Workers -> Batches \cup {"idle", "stopped"}]
  BY <1>1, <1>2, LoopType, Zenon DEF IInv, TypeOK
<1>4. TypeOK'
  BY <1>1, <1>2, <1>3, Zenon DEF IInv, TypeOK
<1>5. RingInv' /\ RouteInv' /\ ReleaseInv'
  BY <1>1, Zenon DEF IInv, RingInv, RouteInv, ReleaseInv, closed
<1>6. timers \cup adding \subseteq timers' \cup adding'
  <2>1. adding' = adding \ {b} /\ timers' = timers \cup {b}
    BY ONLY <1>1, Zenon
  <2>. QED BY ONLY <2>1, SMTT(30)
<1>7. \A t \in Traces : Pending("expired", t) => Pending("expired", t)'
  BY <1>1, Zenon DEF Pending
<1>8. ExpiryPending'
  BY <1>1, <1>6, <1>7, Zenon DEF IInv, ExpiryPending, closed, InRing
<1>. QED BY <1>4, <1>5, <1>8, Zenon DEF IInv

\* A worker gives up a handler, or stops.
LEMMA HandlerStep ==
  ASSUME IInv, NEW w \in Workers, Abort(w) \/ Stop(w)
  PROVE  IInv'
<1>1. UNCHANGED <<ring, queue, content, consumed, adding, timers, getting, calling, sending, life, delivered>>
  BY Zenon DEF Abort, Stop, store
<1>2. handler' \in [Workers -> Batches \cup {"idle", "stopped"}]
  BY LoopType, Zenon DEF Abort, Stop, IInv, TypeOK
<1>3. TypeOK'
  BY <1>1, <1>2, Zenon DEF IInv, TypeOK
<1>4. \A t \in Traces : Pending("expired", t)' <=> Pending("expired", t)
  BY <1>1, Zenon DEF Pending
<1>. QED BY <1>1, <1>3, <1>4, Zenon DEF IInv, RingInv, RouteInv, ReleaseInv, ExpiryPending, InRing, closed

\* The steps of the shutdown.
LEMMA LifeStep ==
  ASSUME IInv, Shutdown \/ LockAndClose \/ CloseWorkers
  PROVE  IInv'
<1>1. UNCHANGED <<ring, queue, handler, content, consumed, adding, timers, getting, calling, sending, delivered>>
  BY Zenon DEF Shutdown, LockAndClose, CloseWorkers, Live, store
<1>2. life' \in {"locking", "draining", "stopped"} /\ (closed => closed')
  BY Zenon DEF Shutdown, LockAndClose, CloseWorkers, Live, closed
<1>3. closed' => \A s \in Senders : sending[s] = <<>>
  BY Zenon DEF Shutdown, LockAndClose, CloseWorkers, Live, closed, IInv, ReleaseInv
<1>4. TypeOK'
  BY <1>1, <1>2, Zenon DEF IInv, TypeOK
<1>5. \A t \in Traces : Pending("expired", t)' <=> Pending("expired", t)
  BY <1>1, Zenon DEF Pending
<1>6. ExpiryPending'
  BY <1>1, <1>2, <1>5, Zenon DEF IInv, ExpiryPending, InRing
<1>7. ReleaseInv'
  BY <1>1, <1>3, Zenon DEF IInv, ReleaseInv
<1>. QED BY <1>1, <1>4, <1>6, <1>7, Zenon DEF IInv, RingInv, RouteInv

\* The machine starts in the invariant.
LEMMA Initial == Init => IInv
<1>. SUFFICES ASSUME Init PROVE IInv
  BY Zenon
<1>. DEFINE rg == [index |-> -1, ids |-> [i \in 0 .. RingSize - 1 |-> Empty],
                   idToIndex |-> [t \in Traces |-> NotFound]]
<1>1. -1 \in -1 .. RingSize - 1 /\ NotFound \in NotFound .. RingSize - 1
  BY SizesAssumption DEF NotFound
<1>2. rg \in RingType
  BY <1>1, Zenon DEF RingType
<1>3. /\ \A i \in 0 .. RingSize - 1 : rg.ids[i] = Empty
      /\ \A t \in Traces : ~BufferContains(rg, t)
  BY Zenon DEF BufferContains
<1>4. \A w \in Workers : ring[w] = rg /\ queue[w] = <<>>
  BY Zenon DEF Init
<1>5. ring \in [Workers -> RingType]
  BY <1>2, Zenon DEF Init
<1>. HIDE DEF rg
<1>6. RingInv
  BY <1>3, <1>4, Zenon DEF RingInv, Consistent
<1>7. <<>> \in Seq(Events) /\ Range(<<>>) = {} /\ DOMAIN <<>> = {} /\ Len(<<>>) = 0
  BY SMTT(30) DEF Range
<1>8. TypeOK
  <2>1. \A w \in Workers : Len(queue[w]) <= QueueSize
    BY <1>4, <1>7, SizesAssumption
  <2>2. queue \in [Workers -> Seq(Events)]
    BY <1>7, Zenon DEF Init
  <2>3. calling \in [Senders -> Seq(Events)] /\ sending \in [Senders -> Seq(Events)]
    BY <1>7, Zenon DEF Init
  <2>4. handler \in [Workers -> Batches \cup {"idle", "stopped"}] /\ content \in [Traces -> SUBSET Batches]
    BY Zenon DEF Init
  <2>5. delivered \in [Batches -> Nat]
    BY Zenon DEF Init
  <2>. QED BY <2>1, <2>2, <2>3, <2>4, <2>5, <1>5, Zenon DEF Init, TypeOK, RingType
<1>9. (\A s \in Senders : calling[s] = <<>> /\ sending[s] = <<>>) /\ ~closed
  BY Zenon DEF Init, closed
<1>10. RouteInv
  BY <1>4, <1>7, <1>9, Zenon DEF RouteInv
<1>11. ExpiryPending
  BY <1>3, <1>4, NamesAssumption, Zenon DEF ExpiryPending, InRing
<1>12. ReleaseInv
  <2>1. \A b \in Batches : <<"release", b>> \in Senders
    BY EventFacts, Zenon
  <2>. QED BY <2>1, <1>4, <1>7, <1>9, Zenon DEF ReleaseInv, Followed
<1>. QED BY <1>6, <1>8, <1>10, <1>11, <1>12, Zenon DEF IInv

\* No step leaves the invariant.
LEMMA Inductive == IInv /\ [Next]_vars => IInv'
<1>. SUFFICES ASSUME IInv, [Next]_vars PROVE IInv'
  BY Zenon
<1>1. ASSUME NEW b \in Batches, Consume(b) \/ TimerFires(b) \/ ReceiveEnd(b) \/ MarkAsReleased(b)
      PROVE  IInv'
  BY <1>1, ConsumeStep, TimerFiresStep, ReceiveEndStep, MarkStep, Zenon
<1>2. ASSUME NEW s \in Senders, Fire(s) \/ Send(s) PROVE IInv'
  BY <1>2, FireStep, SendStep, Zenon
<1>3. ASSUME NEW w \in Workers, Work(w) PROVE IInv'
  BY <1>3, ReceiveKnownStep, ReceiveNewStep, ReceiveEvictStep, ExpiredStep, ExpiredSkipStep,
     ReleasedStep, RemovedStep, HandlerStep, Zenon DEF Work
<1>4. ASSUME Shutdown \/ LockAndClose \/ CloseWorkers PROVE IInv'
  BY <1>4, LifeStep, Zenon
<1>5. CASE UNCHANGED vars
  <2>1. \A t \in Traces : Pending("expired", t)' <=> Pending("expired", t)
    BY <1>5, Zenon DEF vars, Pending
  <2>2. TypeOK'
    BY <1>5, Zenon DEF IInv, vars, TypeOK
  <2>. QED BY <1>5, <2>1, <2>2, ZenonT(40) DEF vars, IInv, RingInv, RouteInv, ReleaseInv, ExpiryPending, InRing, closed
<1>. QED BY <1>1, <1>2, <1>3, <1>4, <1>5, Zenon DEF Next

\* The channels stay within their capacity and every cursor within its ring.
THEOREM TypeCorrect == Spec => []TypeOK
<1>1. IInv => TypeOK
  BY Zenon DEF IInv
<1>. QED BY Initial, Inductive, <1>1, PTL DEF Spec

\* ringBuffer.ids and idToIndex stay inverse to each other under put, evict and
\* delete, for a ring of any size.
THEOREM RingsAreConsistent == Spec => []RingConsistent
<1>1. IInv => RingConsistent
  BY Zenon DEF IInv, RingInv, Consistent, RingConsistent
<1>. QED BY Initial, Inductive, <1>1, PTL DEF Spec

\* Until the machine is closed every trace in a ring buffer has a timer, a
\* handler that is about to set one, or an expired event on its way, even when
\* workers give up on their handlers.
THEOREM EveryTraceExpires == Spec => []ExpiryPending
<1>1. IInv => ExpiryPending
  BY Zenon DEF IInv
<1>. QED BY Initial, Inductive, <1>1, PTL DEF Spec

\* A shutdown never separates the removal of a trace from its release, because
\* markAsReleased fires both under one read lock.
THEOREM ReleasesAreComplete == Spec => []ReleasedIsRemoved
<1>1. IInv => ReleasedIsRemoved
  <2>. SUFFICES ASSUME IInv, closed, NEW w \in Workers, NEW i \in DOMAIN queue[w],
                       queue[w][i].typ = "released"
                PROVE  \E j \in DOMAIN queue[w] :
                         i < j /\ queue[w][j] = Removed(queue[w][i].by, queue[w][i].trace)
    BY Zenon DEF ReleasedIsRemoved
  <2>1. queue[w][i].by \in Batches
    BY QueueFacts, Zenon DEF IInv
  <2>2. sending[<<"release", queue[w][i].by>>] = <<>>
    BY <2>1, EventFacts, Zenon DEF IInv, ReleaseInv
  <2>3. Followed(queue[w], sending)
    BY Zenon DEF IInv, ReleaseInv
  <2>. QED BY <2>2, <2>3 DEF Followed
<1>. QED BY Initial, Inductive, <1>1, PTL DEF Spec

-----------------------------------------------------------------------------
(* Nothing is left behind in the storage: on top of IInv this needs that a   *)
(* worker waits for its handler, and therefore that no handler is given up.  *)

Handling == \A b \in adding : handler[WorkerOf[TraceOf[b]]] = b /\ InRing(TraceOf[b])

Evicting ==
  \A b \in Batches : \/ b \in adding
                     \/ calling[<<"evict", b>>] = <<>> /\ sending[<<"evict", b>>] = <<>>

StoreInv == Handling /\ Evicting /\ StorageOwned

\* An event that is pending stays so when another is taken.
LEMMA PendingTake ==
  ASSUME TypeOK, RouteInv, NEW w \in Workers, NEW typ, Take(w, typ), UNCHANGED <<calling, sending>>,
         NEW k, NEW t \in Traces, Pending(k, t), k # typ \/ t # Head(queue[w]).trace
  PROVE  Pending(k, t)'
<1>. DEFINE e == Head(queue[w])
<1>1. /\ \A v \in Workers : \A x \in Range(queue[v]) : x \in Range(queue'[v]) \/ x = e
      /\ e.typ = typ
  BY TakeFacts, Zenon
<1>. HIDE DEF e
<1>2. WorkerOf[t] \in Workers /\ (k # typ \/ t # e.trace)
  BY NamesAssumption, Zenon DEF e
<1>. QED BY <1>1, <1>2, Zenon DEF Pending

\* An idle worker has no handler: the handlers of the others go on undisturbed
\* when it loops.
LEMMA HandlingTake ==
  ASSUME IInv, StoreInv, NEW w \in Workers, handler[w] = "idle", adding' \subseteq adding,
         \A v \in Workers : v # w => handler'[v] = handler[v],
         \A q \in Traces : InRing(q) /\ WorkerOf[q] # w => InRing(q)'
  PROVE  Handling'
<1>. SUFFICES ASSUME NEW b \in adding
              PROVE  handler'[WorkerOf[TraceOf[b]]] = b /\ InRing(TraceOf[b])'
  BY Zenon DEF Handling
<1>1. /\ b \in Batches /\ TraceOf[b] \in Traces /\ WorkerOf[TraceOf[b]] \in Workers
      /\ handler[WorkerOf[TraceOf[b]]] = b /\ InRing(TraceOf[b])
  BY NamesAssumption, Zenon DEF IInv, TypeOK, StoreInv, Handling
<1>2. WorkerOf[TraceOf[b]] # w
  BY <1>1, NamesAssumption, Zenon
<1>. QED BY <1>1, <1>2, Zenon

\* A handler is that of its worker only.
LEMMA LoopFacts ==
  ASSUME TypeOK, NEW w \in Workers, Loop(w)
  PROVE  \A v \in Workers : v # w => handler'[v] = handler[v]
BY Zenon DEF TypeOK, Loop

\* Appending to a trace that the ring has.
LEMMA StoreReceiveKnown ==
  ASSUME IInv, StoreInv, NEW w \in Workers, ReceiveKnown(w)
  PROVE  StoreInv'
<1>. DEFINE b == Head(queue[w]).by
<1>1. /\ Take(w, "received") /\ BufferContains(ring[w], TraceOf[b])
      /\ content' = [content EXCEPT ![TraceOf[b]] = @ \cup {b}] /\ Loop(w) /\ handler[w] = "idle"
      /\ UNCHANGED <<ring, consumed, adding, timers, getting, calling, sending, life, delivered>>
  BY Zenon DEF ReceiveKnown, AddSpans, Take
<1>2. b \in Batches /\ WorkerOf[TraceOf[b]] = w
  BY <1>1, TakeFacts, Zenon DEF IInv
<1>3. \A t \in Traces : Pending("removed", t) => Pending("removed", t)'
  BY <1>1, PendingTake DEF IInv
<1>. HIDE DEF b
<1>4. Handling'
  BY <1>1, HandlingTake, LoopFacts, Zenon DEF IInv, InRing
<1>5. StorageOwned'
  <2>1. \A t \in Traces : t # TraceOf[b] => content'[t] = content[t]
    BY <1>1, Zenon DEF IInv, TypeOK
  <2>2. InRing(TraceOf[b])
    BY <1>1, <1>2, Zenon DEF InRing
  <2>. QED BY <2>1, <2>2, <1>1, <1>3, Zenon DEF StoreInv, StorageOwned, InRing, closed
<1>. QED BY <1>1, <1>4, <1>5, Zenon DEF StoreInv, Evicting

\* Storing the first batch of a trace.
LEMMA StoreReceiveNew ==
  ASSUME IInv, StoreInv, NEW w \in Workers, ReceiveNew(w)
  PROVE  StoreInv'
<1>0. PICK b : b = Head(queue[w]).by
  BY Zenon
<1>. DEFINE t == TraceOf[b]
<1>1. /\ Take(w, "received") /\ ~BufferContains(ring[w], t) /\ EvictedBy(ring[w]) = Empty
      /\ ring' = [ring EXCEPT ![w] = Put(@, t)]
      /\ content' = [content EXCEPT ![t] = @ \cup {b}] /\ Loop(w) /\ handler[w] = "idle"
      /\ UNCHANGED <<consumed, adding, getting, calling, sending, life, delivered>>
  BY <1>0, Zenon DEF ReceiveNew, AddSpans, Take
<1>2. b \in Batches /\ WorkerOf[t] = w
  BY <1>0, <1>1, TakeFacts, Zenon DEF IInv
<1>3. \A q \in Traces : Pending("removed", q) => Pending("removed", q)'
  BY <1>1, PendingTake DEF IInv
<1>4. t \in Traces
  BY <1>2, NamesAssumption, Zenon
<1>. HIDE DEF t
<1>5. InRing(t)' /\ \A q \in Traces : InRing(q) => InRing(q)'
  BY <1>1, <1>2, <1>4, PutStep, NamesAssumption, Zenon
<1>6. Handling'
  BY <1>1, <1>5, HandlingTake, LoopFacts, Zenon DEF IInv
<1>7. StorageOwned'
  <2>1. \A q \in Traces : q # t => content'[q] = content[q]
    BY <1>1, Zenon DEF IInv, TypeOK
  <2>. QED BY <2>1, <1>1, <1>3, <1>5, Zenon DEF StoreInv, StorageOwned, closed
<1>. QED BY <1>1, <1>6, <1>7, Zenon DEF StoreInv, Evicting

\* A trace is in the ring before its batch is stored.
LEMMA StoreReceiveEvict ==
  ASSUME IInv, StoreInv, NEW w \in Workers, ReceiveEvict(w)
  PROVE  StoreInv'
<1>0. PICK b, e : b = Head(queue[w]).by /\ e = EvictedBy(ring[w])
  BY Zenon
<1>. DEFINE t == TraceOf[b]
            s == <<"evict", b>>
            l == <<Removed(b, e)>>
<1>1. /\ Take(w, "received") /\ ~BufferContains(ring[w], t) /\ e # Empty
      /\ ring' = [ring EXCEPT ![w] = Put(@, t)]
      /\ calling' = [calling EXCEPT ![s] = l] /\ handler[w] = "idle"
      /\ adding' = adding \cup {b} /\ handler' = [handler EXCEPT ![w] = b]
      /\ UNCHANGED <<content, consumed, timers, getting, sending, life, delivered>>
  BY <1>0, Zenon DEF ReceiveEvict, Take
<1>2. /\ b \in Batches /\ WorkerOf[t] = w
      /\ \A v \in Workers : \A x \in Range(queue[v]) : x.typ = "removed" => x \in Range(queue'[v])
  BY <1>0, <1>1, TakeFacts, ZenonT(40) DEF IInv
<1>3. t \in Traces
  BY <1>2, NamesAssumption, Zenon
<1>4. /\ InRing(t)' /\ e \in Traces /\ WorkerOf[e] = w
      /\ \A q \in Traces : InRing(q) => InRing(q)' \/ q = e
  BY <1>0, <1>1, <1>2, <1>3, PutStep, Zenon
<1>5. s \in Senders /\ l # <<>> /\ Range(l) = {Removed(b, e)}
  <2>1. s \in Senders /\ Removed(b, e) \in Events
    BY <1>2, <1>4, EventFacts, Zenon
  <2>. QED BY <2>1, ShortFacts, Zenon
<1>. HIDE DEF l
<1>6. b \notin adding
  BY <1>1, <1>2, NamesAssumption, Zenon DEF StoreInv, Handling
<1>7. calling[s] = <<>> /\ Range(calling[s]) = {}
  BY <1>2, <1>6 DEF StoreInv, Evicting, Range
<1>8. calling'[s] = l /\ \A r \in Senders : r # s => calling'[r] = calling[r]
  BY <1>1, <1>5 DEF IInv, TypeOK
<1>9. Handling'
  <2>1. handler'[w] = b /\ \A v \in Workers : v # w => handler'[v] = handler[v]
    BY <1>1, Zenon DEF IInv, TypeOK
  <2>2. ASSUME NEW c \in adding PROVE handler'[WorkerOf[TraceOf[c]]] = c /\ InRing(TraceOf[c])'
    <3>1. /\ c \in Batches /\ TraceOf[c] \in Traces /\ WorkerOf[TraceOf[c]] \in Workers
          /\ handler[WorkerOf[TraceOf[c]]] = c /\ InRing(TraceOf[c])
      BY NamesAssumption, Zenon DEF IInv, TypeOK, StoreInv, Handling
    <3>2. WorkerOf[TraceOf[c]] # w
      BY <3>1, <1>1, NamesAssumption, Zenon
    <3>. QED BY <3>1, <3>2, <2>1, <1>4, Zenon
  <2>. QED BY <2>1, <2>2, <1>1, <1>2, <1>4, Zenon DEF Handling
<1>10. Evicting'
  <2>1. \A c \in Batches : c # b => <<"evict", c>> \in Senders /\ <<"evict", c>> # s
    BY EventFacts, Zenon
  <2>. QED BY <2>1, <1>1, <1>8, Zenon DEF StoreInv, Evicting
<1>11. StorageOwned'
  <2>1. Pending("removed", e)'
    <3>1. Removed(b, e) \in Range(calling'[s])
      BY <1>5, <1>8, Zenon
    <3>2. Removed(b, e).typ = "removed" /\ Removed(b, e).trace = e
      BY Zenon DEF Removed
    <3>. HIDE DEF s
    <3>. QED BY <3>1, <3>2, <1>5, Zenon DEF Pending
  <2>2. ASSUME NEW q \in Traces, Pending("removed", q) PROVE Pending("removed", q)'
    <3>1. \A r \in Senders : Range(calling[r]) \subseteq Range(calling'[r])
      BY <1>7, <1>8, Zenon
    <3>2. WorkerOf[q] \in Workers
      BY NamesAssumption, Zenon
    <3>. HIDE DEF s
    <3>. QED BY <2>2, <3>1, <3>2, <1>1, <1>2, Zenon DEF Pending
  <2>. QED BY <2>1, <2>2, <1>1, <1>4, Zenon DEF StoreInv, StorageOwned, closed
<1>. QED BY <1>9, <1>10, <1>11, Zenon DEF StoreInv

\* The batch of a trace that evicted another is stored while its worker is busy
\* with it.
LEMMA StoreReceiveEnd ==
  ASSUME IInv, StoreInv, NEW b \in Batches, ReceiveEnd(b)
  PROVE  StoreInv'
<1>. DEFINE w == WorkerOf[TraceOf[b]]
<1>1. /\ b \in adding /\ adding' = adding \ {b}
      /\ calling[<<"evict", b>>] = <<>> /\ sending[<<"evict", b>>] = <<>>
      /\ content' = [content EXCEPT ![TraceOf[b]] = @ \cup {b}]
      /\ Loop(w) \/ UNCHANGED handler
      /\ UNCHANGED <<ring, queue, consumed, getting, calling, sending, life, delivered>>
  BY Zenon DEF ReceiveEnd, AddSpans
<1>2. TraceOf[b] \in Traces /\ w \in Workers /\ handler[w] = b /\ InRing(TraceOf[b])
  BY <1>1, NamesAssumption, Zenon DEF StoreInv, Handling
<1>3. Handling'
  <2>. SUFFICES ASSUME NEW c \in adding, c # b
                PROVE  handler'[WorkerOf[TraceOf[c]]] = c /\ InRing(TraceOf[c])
    BY <1>1, Zenon DEF Handling, InRing
  <2>1. handler[WorkerOf[TraceOf[c]]] = c /\ InRing(TraceOf[c]) /\ WorkerOf[TraceOf[c]] \in Workers
    BY NamesAssumption, Zenon DEF StoreInv, Handling, IInv, TypeOK
  <2>2. WorkerOf[TraceOf[c]] # w
    BY <2>1, <1>2, Zenon
  <2>. QED BY <2>1, <2>2, <1>1, <1>2, LoopFacts, Zenon DEF IInv
<1>4. Evicting'
  BY <1>1, Zenon DEF StoreInv, Evicting
<1>5. StorageOwned'
  <2>1. \A t \in Traces : Pending("removed", t) => Pending("removed", t)'
    BY <1>1, Zenon DEF Pending
  <2>2. \A t \in Traces : t # TraceOf[b] => content'[t] = content[t]
    BY <1>1, Zenon DEF IInv, TypeOK
  <2>. QED BY <2>1, <2>2, <1>1, <1>2, Zenon DEF StoreInv, StorageOwned, InRing, closed
<1>. QED BY <1>3, <1>4, <1>5, Zenon DEF StoreInv

\* An expired trace is owned by its release.
LEMMA StoreExpired ==
  ASSUME IInv, StoreInv, NEW w \in Workers, OnTraceExpired(w)
  PROVE  StoreInv'
<1>0. PICK e : e = Head(queue[w])
  BY Zenon
<1>1. /\ Take(w, "expired") /\ ring' = [ring EXCEPT ![w] = Delete(@, e.trace)] /\ Loop(w)
      /\ getting' = getting \cup {e.by} /\ handler[w] = "idle"
      /\ UNCHANGED <<content, consumed, adding, timers, calling, sending, life, delivered>>
  BY <1>0, Zenon DEF OnTraceExpired, Take
<1>2. /\ e.trace \in Traces /\ WorkerOf[e.trace] = w /\ e.trace = TraceOf[e.by]
  BY <1>0, <1>1, TakeFacts, SMTT(30) DEF IInv, Own
<1>3. \A q \in Traces : InRing(q)' <=> InRing(q) /\ q # e.trace
  BY <1>1, <1>2, DeleteStep, Zenon
<1>4. \A q \in Traces : Pending("removed", q) => Pending("removed", q)'
  BY <1>1, PendingTake DEF IInv
<1>5. Handling'
  BY <1>1, <1>2, <1>3, HandlingTake, LoopFacts, Zenon DEF IInv
<1>6. StorageOwned'
  BY <1>1, <1>2, <1>3, <1>4, Zenon DEF StoreInv, StorageOwned, closed
<1>. QED BY <1>1, <1>5, <1>6, Zenon DEF StoreInv, Evicting

\* The other steps of a worker leave the ring alone.
LEMMA StoreOther ==
  ASSUME IInv, StoreInv, NEW w \in Workers,
         OnTraceExpiredSkip(w) \/ OnTraceReleased(w) \/ OnTraceRemoved(w) \/ Stop(w)
  PROVE  StoreInv'
<1>1. handler[w] = "idle" /\ UNCHANGED <<ring, adding, getting, calling, sending, life>>
  BY Zenon DEF OnTraceExpiredSkip, OnTraceReleased, OnTraceRemoved, Stop, Take, store
<1>2. \A v \in Workers : v # w => handler'[v] = handler[v]
  BY LoopFacts, Zenon DEF IInv, TypeOK, OnTraceExpiredSkip, OnTraceReleased, OnTraceRemoved, Stop
<1>3. Handling'
  BY <1>1, <1>2, HandlingTake, Zenon DEF InRing
<1>4. StorageOwned'
  <2>1. CASE OnTraceExpiredSkip(w) \/ OnTraceReleased(w)
    <3>1. \A q \in Traces : Pending("removed", q) => Pending("removed", q)'
      BY <2>1, <1>1, PendingTake, SMTT(30) DEF IInv, OnTraceExpiredSkip, OnTraceReleased
    <3>2. UNCHANGED content
      BY <2>1, Zenon DEF OnTraceExpiredSkip, OnTraceReleased, store
    <3>. QED BY <3>1, <3>2, <1>1, Zenon DEF StoreInv, StorageOwned, InRing, closed
  <2>2. CASE OnTraceRemoved(w)
    <3>1. PICK t : t = Head(queue[w]).trace
      BY Zenon
    <3>2. Take(w, "removed") /\ content' = [content EXCEPT ![t] = {}]
      BY <2>2, <3>1, Zenon DEF OnTraceRemoved
    <3>3. t \in Traces
      BY <3>1, <3>2, TakeFacts, Zenon DEF IInv
    <3>4. content'[t] = {} /\ \A q \in Traces : q # t => content'[q] = content[q]
      BY <3>2, <3>3, Zenon DEF IInv, TypeOK
    <3>5. \A q \in Traces : q # t /\ Pending("removed", q) => Pending("removed", q)'
      BY <3>1, <3>2, <1>1, PendingTake, Zenon DEF IInv
    <3>. QED BY <3>4, <3>5, <1>1, Zenon DEF StoreInv, StorageOwned, InRing, closed
  <2>3. CASE Stop(w)
    <3>1. UNCHANGED <<content, queue>>
      BY <2>3, Zenon DEF Stop, store
    <3>2. \A q \in Traces : Pending("removed", q) => Pending("removed", q)'
      BY <3>1, <1>1, Zenon DEF Pending
    <3>. QED BY <3>1, <3>2, <1>1, Zenon DEF StoreInv, StorageOwned, InRing, closed
  <2>. QED BY <2>1, <2>2, <2>3, Zenon
<1>. QED BY <1>1, <1>3, <1>4, Zenon DEF StoreInv, Evicting

\* Goroutines that begin own no stored trace.
LEMMA StoreCall ==
  ASSUME IInv, StoreInv, NEW b \in Batches, Consume(b) \/ TimerFires(b)
  PROVE  StoreInv'
<1>1. PICK s, l : /\ s \in {<<"consume", b>>, <<"timer", b>>}
                  /\ calling' = [calling EXCEPT ![s] = l]
  BY SMTT(30) DEF Consume, TimerFires
<1>2. UNCHANGED <<ring, content, queue, handler, adding, getting, sending, life>>
  BY Zenon DEF Consume, TimerFires, store
<1>3. s \in Senders /\ s[1] \in {"consume", "timer"}
  BY <1>1 DEF Senders
<1>4. \A x \in Range(calling[s]) : x.typ # "removed"
  BY <1>3, Zenon DEF IInv, RouteInv, From, TypesOf
<1>5. \A r \in Senders : r # s => calling'[r] = calling[r]
  BY <1>1, Zenon DEF IInv, TypeOK
<1>6. \A c \in Batches : <<"evict", c>> \in Senders /\ <<"evict", c>> # s
  BY <1>3 DEF Senders
<1>7. \A q \in Traces : Pending("removed", q) => Pending("removed", q)'
  BY <1>2, <1>4, <1>5, Zenon DEF Pending
<1>8. Handling' /\ Evicting'
  BY <1>2, <1>5, <1>6, Zenon DEF StoreInv, Handling, Evicting, InRing
<1>9. StorageOwned'
  BY <1>2, <1>7, Zenon DEF StoreInv, StorageOwned, InRing, closed
<1>. QED BY <1>8, <1>9, Zenon DEF StoreInv

\* A trace that was copied is owned by the removal that follows.
LEMMA StoreMark ==
  ASSUME IInv, StoreInv, NEW b \in Batches, MarkAsReleased(b)
  PROVE  StoreInv'
<1>. DEFINE s == <<"release", b>>
            t == TraceOf[b]
            y == Removed(b, t)
<1>0. PICK rss : rss = content[t]
  BY Zenon
<1>. DEFINE l == IF rss = {} THEN <<>> ELSE <<Released(b, rss), y>>
<1>1. /\ getting' = getting \ {b} /\ calling' = [calling EXCEPT ![s] = l]
      /\ UNCHANGED <<ring, content, queue, handler, adding, sending, life>>
  BY <1>0, Zenon DEF MarkAsReleased, store
<1>2. s \in Senders /\ t \in Traces
  BY EventFacts, Zenon
<1>3. \A x \in Range(calling[s]) : x.trace = t
  BY <1>2, Zenon DEF IInv, RouteInv, From
<1>4. \A c \in Batches : <<"evict", c>> \in Senders /\ <<"evict", c>> # s
  BY EventFacts, Zenon
<1>5. rss # {} => y \in Range(l)
  <2>1. <<Released(b, rss), y>>[2] = y /\ 2 \in DOMAIN <<Released(b, rss), y>>
    OBVIOUS
  <2>. QED BY <2>1, Zenon DEF Range
<1>. HIDE DEF s, l
<1>6. calling'[s] = l /\ \A r \in Senders : r # s => calling'[r] = calling[r]
  BY <1>1, <1>2, Zenon DEF IInv, TypeOK
<1>7. content[t] # {} => Pending("removed", t)'
  <2>1. y.typ = "removed" /\ y.trace = t
    BY DEF Removed
  <2>. HIDE DEF y
  <2>. QED BY <2>1, <1>0, <1>2, <1>5, <1>6, Zenon DEF Pending
<1>8. \A q \in Traces : q # t /\ Pending("removed", q) => Pending("removed", q)'
  BY <1>1, <1>3, <1>6, Zenon DEF Pending
<1>9. Handling' /\ Evicting'
  BY <1>1, <1>4, <1>6, Zenon DEF StoreInv, Handling, Evicting, InRing
<1>10. StorageOwned'
  BY <1>1, <1>7, <1>8, Zenon DEF StoreInv, StorageOwned, InRing, closed
<1>. QED BY <1>9, <1>10, Zenon DEF StoreInv

\* Events on their way keep owning what they remove.
LEMMA StoreFireSend ==
  ASSUME IInv, StoreInv, NEW s \in Senders, Fire(s) \/ Send(s)
  PROVE  StoreInv'
<1>1. UNCHANGED <<ring, content, handler, adding, getting, life>>
  BY Zenon DEF Fire, Send, store
<1>2. ~closed => \A t \in Traces : Pending("removed", t) => Pending("removed", t)'
  BY FirePending, SendPending, Zenon
<1>3. \A b \in Batches : <<"evict", b>> \in Senders
  BY EventFacts, Zenon
<1>4. /\ calling[s] # <<>> \/ sending[s] # <<>>
      /\ \A r \in Senders : r # s => calling'[r] = calling[r] /\ sending'[r] = sending[r]
  BY Zenon DEF Fire, Send, IInv, TypeOK
<1>5. Evicting'
  BY <1>1, <1>3, <1>4, Zenon DEF StoreInv, Evicting
<1>6. Handling' /\ StorageOwned'
  BY <1>1, <1>2, Zenon DEF StoreInv, Handling, StorageOwned, InRing, closed
<1>. QED BY <1>5, <1>6, Zenon DEF StoreInv

\* With handlers that finish in time, evictions and releases leave nothing
\* behind in the storage: what is stored is in a ring, or its removal is on its
\* way to the worker.
THEOREM StorageIsOwned == Spec => [](~Stalls => StorageOwned)
<1>. DEFINE I == IInv /\ (~Stalls => StoreInv)
<1>1. Init => I
  <2>. SUFFICES ASSUME Init PROVE StoreInv
    BY Initial, Zenon
  <2>1. adding = {} /\ \A t \in Traces : content[t] = {}
    BY Zenon DEF Init
  <2>2. \A b \in Batches : <<"evict", b>> \in Senders
    BY EventFacts, Zenon
  <2>. QED BY <2>1, <2>2, Zenon DEF Init, StoreInv, Handling, Evicting, StorageOwned
<1>2. I /\ [Next]_vars => I'
  <2>. SUFFICES ASSUME IInv, StoreInv, [Next]_vars, ~Stalls PROVE StoreInv'
    BY Inductive, Zenon
  <2>1. ASSUME NEW b \in Batches, Consume(b) \/ TimerFires(b) \/ ReceiveEnd(b) \/ MarkAsReleased(b)
        PROVE  StoreInv'
    BY <2>1, StoreCall, StoreReceiveEnd, StoreMark, Zenon
  <2>2. ASSUME NEW s \in Senders, Fire(s) \/ Send(s) PROVE StoreInv'
    BY <2>2, StoreFireSend, Zenon
  <2>3. ASSUME NEW w \in Workers, Work(w) PROVE StoreInv'
    <3>1. ~Abort(w)
      BY Zenon DEF Abort
    <3>. QED BY <2>3, <3>1, StoreReceiveKnown, StoreReceiveNew, StoreReceiveEvict, StoreExpired,
                StoreOther, Zenon DEF Work
  <2>4. ASSUME Shutdown \/ LockAndClose \/ CloseWorkers \/ UNCHANGED vars PROVE StoreInv'
    <3>1. UNCHANGED <<ring, queue, handler, content, adding, getting, calling, sending>> /\ (closed => closed')
      BY <2>4, Zenon DEF Shutdown, LockAndClose, CloseWorkers, Live, store, vars, closed
    <3>2. \A t \in Traces : Pending("removed", t)' <=> Pending("removed", t)
      BY <3>1, Zenon DEF Pending
    <3>. QED BY <3>1, <3>2, Zenon DEF StoreInv, Handling, Evicting, StorageOwned, InRing
  <2>. QED BY <2>1, <2>2, <2>3, <2>4, Zenon DEF Next
<1>3. I => (~Stalls => StorageOwned)
  BY Zenon DEF StoreInv
<1>. QED BY <1>1, <1>2, <1>3, PTL DEF Spec
===============================================================================
