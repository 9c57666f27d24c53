------------------------- MODULE QueueStorageProofs -------------------------
(***************************************************************************)
(* What QueueStorage guarantees for every number of segments and items,    *)
(* every max_open_segments and every bound on the indices: the open files  *)
(* whatever fails; that no item becomes unreachable or is lost and that    *)
(* ItemStore is implemented, under the faults that SafeFaults allows; and  *)
(* that consumed segments are removed.                                     *)
(***************************************************************************)
EXTENDS QueueStorage, SeqFacts, FiniteSetTheorems

\* The leaves are first-order, except for those that cite SMT.
USE ZenonT(30)

-----------------------------------------------------------------------------
(* The list of open segments *)

\* What is true of the list between any two steps, whatever fails: the write
\* segment occurs in it once, so a list at its limit always has a victim.
ListInv ==
  Up => /\ Len(openList) <= MaxOpen
        /\ open \subseteq Range(openList)
        /\ writeSegment \in open
        /\ Once(openList, writeSegment)
        /\ \A s \in Range(openList) : s <= writeSegment

\* The registry is sorted, and its files exist.
RegistryInv ==
  /\ Up => /\ writeSegment \in segments /\ segments \subseteq DOMAIN disk
           /\ \A s \in segments : s <= writeSegment
  /\ ~Up => batch = NoBatch /\ todo = {} /\ touched = {}
  /\ pc \in {"gc", "migrate"} => todo = {}
  /\ pc = "migrate" => nextWriteIdx \in DOMAIN disk /\ nextWriteIdx > writeSegment
  /\ pc \in {"idle", "walk"} => batch = NoBatch
  /\ batch.sets # {} => wi > 0

\* What holds whatever fails.
BaseInv == TypeOK /\ RegistryInv /\ ListInv

\* The victim is an element of the list other than the write segment, and a
\* list of two or more has one.
LEMMA VictimFacts ==
  ASSUME NEW list \in Seq(Indices), NEW ws
  PROVE  /\ \/ Victim(list, ws) = {}
            \/ \E v \in Range(list) : v # ws /\ Victim(list, ws) = {v}
         /\ Once(list, ws) /\ Len(list) >= 2 => Victim(list, ws) # {}
<1>. DEFINE I == {j \in 1 .. Len(list) : list[j] # ws}
<1>1. /\ I # {} => Greatest(I) \in DOMAIN list /\ list[Greatest(I)] # ws /\ Greatest(I) # 0
      /\ Once(list, ws) /\ Len(list) >= 2 => I # {}
  BY LastOtherFacts
<1>2. LruEvictCandidate(list, ws) = IF I # {} THEN Greatest(I) ELSE 0
  BY DEF LruEvictCandidate
<1>. HIDE DEF I
<1>3. CASE I = {}
  BY <1>1, <1>2, <1>3 DEF Victim
<1>4. CASE I # {}
  BY <1>1, <1>2, <1>4 DEF Victim, Range
<1>. QED BY <1>3, <1>4

\* Taking the victim out of the list.
LEMMA RemoveVictimFacts ==
  ASSUME NEW list \in Seq(Indices), NEW gone, NEW ws, Once(list, ws),
         gone = {} \/ \E v \in Range(list) : v # ws /\ gone = {v}
  PROVE  LET r == RemoveFromOpenList(list, gone)
         IN  /\ r \in Seq(Indices) /\ Once(r, ws)
             /\ Range(r) \subseteq Range(list)
             /\ \A x \in Range(list) : x \notin gone => x \in Range(r)
             /\ Len(r) = IF gone = {} THEN Len(list) ELSE Len(list) - 1
<1>1. CASE gone = {}
  BY <1>1 DEF RemoveFromOpenList
<1>2. ASSUME NEW v \in Range(list), v # ws, gone = {v}
      PROVE  RemoveFromOpenList(list, gone) = RemoveFirst(list, v)
  BY <1>2 DEF RemoveFromOpenList
<1>3. CASE gone # {}
  <2>1. PICK v \in Range(list) : v # ws /\ gone = {v}
    BY <1>3
  <2>2. RemoveFromOpenList(list, gone) = RemoveFirst(list, v)
    BY <2>1, <1>2
  <2>3. Once(RemoveFirst(list, v), ws)
    BY RemoveFirstOnce
  <2>. DEFINE r == RemoveFirst(list, v)
  <2>4. /\ r \in Seq(Indices) /\ Range(r) \subseteq Range(list)
        /\ \A x \in Range(list) : x # v => x \in Range(r)
        /\ Len(r) = Len(list) - 1
    BY RemoveFirstFacts
  <2>. HIDE DEF r
  <2>5. RemoveFromOpenList(list, gone) = r /\ Once(r, ws)
    BY <2>2, <2>3 DEF r
  <2>. QED BY <2>1, <2>4, <2>5
<1>. QED BY <1>1, <1>3

\* ensureOpen evicts exactly when the list is full.
LEMMA EvictedFacts ==
  ASSUME BaseInv, Up
  PROVE  /\ Evicted = {} \/ \E v \in Range(openList) : v # writeSegment /\ Evicted = {v}
         /\ Len(openList) = MaxOpen => Evicted # {}
         /\ Len(openList) < MaxOpen => Evicted = {}
<1>1. openList \in Seq(Indices) /\ Len(openList) \in Nat
  BY LenProperties DEF BaseInv, TypeOK
<1>2. Once(openList, writeSegment) /\ Len(openList) <= MaxOpen
  BY DEF BaseInv, ListInv
<1>. QED BY <1>1, <1>2, VictimFacts, MaxOpenAssumption, SMTT(30) DEF Evicted

\* ensureOpen opens the segment within the limit and keeps the write segment.
LEMMA EnsureOpenFacts ==
  ASSUME BaseInv, Up, NEW s \in segments, EnsureOpen(s)
  PROVE  /\ openList' \in Seq(Indices) /\ Len(openList') <= MaxOpen
         /\ open' \subseteq segments /\ open' \subseteq Range(openList')
         /\ writeSegment \in open' /\ s \in open'
         /\ Once(openList', writeSegment)
         /\ \A t \in Range(openList') : t <= writeSegment
<1>1. /\ openList \in Seq(Indices) /\ Len(openList) \in Nat /\ s \in Indices
      /\ open \subseteq segments
  BY LenProperties DEF BaseInv, TypeOK
<1>2. /\ Once(openList, writeSegment) /\ Len(openList) <= MaxOpen
      /\ open \subseteq Range(openList) /\ writeSegment \in open
      /\ \A t \in Range(openList) : t <= writeSegment
      /\ s <= writeSegment
  BY DEF BaseInv, ListInv, RegistryInv
<1>3. CASE s \in open
  <2>. DEFINE r == RemoveFirst(openList, s)
  <2>1. /\ r \in Seq(Indices) /\ Once(r, writeSegment)
        /\ s = writeSegment => s \notin Range(r)
    BY <1>1, <1>2, RemoveFirstFacts, RemoveFirstOnce
  <2>2. /\ Range(r) \subseteq Range(openList) /\ Len(r) = Len(openList) - 1
        /\ \A x \in Range(openList) : x # s => x \in Range(r)
    BY <1>1, <1>2, <1>3, RemoveFirstFacts
  <2>3. openList' = <<s>> \o r /\ open' = open
    BY <1>3 DEF EnsureOpen
  <2>. HIDE DEF r
  <2>4. /\ openList' \in Seq(Indices) /\ Len(openList') = Len(openList)
        /\ Range(openList') = Range(r) \cup {s} /\ Once(openList', writeSegment)
    BY <1>1, <2>1, <2>2, <2>3, PrependFacts, PrependOnce, SMTT(30)
  <2>. QED BY <1>1, <1>2, <1>3, <2>2, <2>3, <2>4
<1>4. CASE s \notin open
  <2>. DEFINE r == RemoveFromOpenList(openList, Evicted)
  <2>1. /\ Evicted = {} \/ \E v \in Range(openList) : v # writeSegment /\ Evicted = {v}
        /\ Len(openList) = MaxOpen => Evicted # {}
    BY EvictedFacts
  <2>2. /\ r \in Seq(Indices) /\ Once(r, writeSegment) /\ Range(r) \subseteq Range(openList)
        /\ \A x \in Range(openList) : x \notin Evicted => x \in Range(r)
        /\ Len(r) = IF Evicted = {} THEN Len(openList) ELSE Len(openList) - 1
    BY <1>1, <1>2, <2>1, RemoveVictimFacts, ZenonT(40)
  <2>3. openList' = <<s>> \o r /\ open' = (open \ Evicted) \cup {s}
    BY <1>4 DEF EnsureOpen
  <2>. HIDE DEF r
  <2>4. s # writeSegment
    BY <1>2, <1>4
  <2>5. /\ openList' \in Seq(Indices) /\ Len(openList') = Len(r) + 1
        /\ Range(openList') = Range(r) \cup {s} /\ Once(openList', writeSegment)
    BY <1>1, <2>2, <2>3, <2>4, PrependFacts, PrependOnce, SMTT(30)
  <2>6. Len(openList') <= MaxOpen
    BY <1>1, <1>2, <2>1, <2>2, <2>5, MaxOpenAssumption, SMTT(30)
  <2>7. writeSegment \in open'
    BY <1>2, <2>1, <2>3
  <2>. QED BY <1>1, <1>2, <2>2, <2>3, <2>5, <2>6, <2>7
<1>. QED BY <1>3, <1>4

\* A failing ensureOpen may close a segment but keeps the list sound.
LEMMA EnsureOpenFailsFacts ==
  ASSUME BaseInv, Up, NEW s \in segments, EnsureOpenFails(s)
  PROVE  /\ openList' \in Seq(Indices) /\ Len(openList') <= MaxOpen
         /\ open' \subseteq open /\ open' \subseteq Range(openList')
         /\ writeSegment \in open'
         /\ Once(openList', writeSegment)
         /\ Range(openList') \subseteq Range(openList)
<1>1. openList \in Seq(Indices) /\ Len(openList) \in Nat
  BY LenProperties DEF BaseInv, TypeOK
<1>2. /\ Once(openList, writeSegment) /\ Len(openList) <= MaxOpen
      /\ open \subseteq Range(openList) /\ writeSegment \in open
  BY DEF BaseInv, ListInv
<1>. DEFINE r == RemoveFromOpenList(openList, Evicted)
<1>3. Evicted = {} \/ \E v \in Range(openList) : v # writeSegment /\ Evicted = {v}
  BY EvictedFacts
<1>4. /\ r \in Seq(Indices) /\ Once(r, writeSegment) /\ Range(r) \subseteq Range(openList)
      /\ \A x \in Range(openList) : x \notin Evicted => x \in Range(r)
      /\ Len(r) = IF Evicted = {} THEN Len(openList) ELSE Len(openList) - 1
  BY <1>1, <1>2, <1>3, RemoveVictimFacts
<1>5. open' = open \ Evicted /\ (openList' = openList \/ openList' = r)
  BY DEF EnsureOpenFails
<1>. HIDE DEF r
<1>6. writeSegment \in open'
  BY <1>2, <1>3, <1>5
<1>7. Len(openList') <= MaxOpen
  BY <1>1, <1>2, <1>4, <1>5, MaxOpenAssumption, SMTT(30)
<1>. QED BY <1>1, <1>2, <1>4, <1>5, <1>6, <1>7

-----------------------------------------------------------------------------
(* What the steps do to the files *)

\* Sets of items can be counted.
LEMMA ItemsFinite ==
  ASSUME NEW K, K \subseteq Items
  PROVE  IsFiniteSet(K) /\ Cardinality(K) \in Nat
<1>1. IsFiniteSet(Items)
  BY FS_Interval, BoundsAssumption, SMTT(30) DEF Items
<1>2. IsFiniteSet(K)
  BY <1>1, FS_Subset
<1>. QED BY <1>2, FS_CardinalityType

\* Put adds or replaces one entry.
LEMMA PutFacts ==
  ASSUME NEW f, NEW x, NEW v
  PROVE  /\ DOMAIN Put(f, x, v) = DOMAIN f \cup {x}
         /\ Put(f, x, v)[x] = v
         /\ \A y \in DOMAIN f : y # x => Put(f, x, v)[y] = f[y]
BY DEF Put

\* Drop removes one entry.
LEMMA DropFacts ==
  ASSUME NEW f, NEW x
  PROVE  /\ DOMAIN Drop(f, x) = DOMAIN f \ {x}
         /\ \A y \in DOMAIN f \ {x} : Drop(f, x)[y] = f[y]
BY DEF Drop

\* A transaction changes one bucket.
LEMMA ExecBatchFacts ==
  ASSUME TypeOK, NEW s \in DOMAIN disk, ExecBatch(s)
  PROVE  /\ DOMAIN disk' = DOMAIN disk
         /\ \A t \in DOMAIN disk : t # s => disk'[t] = disk[t]
         /\ disk'[s].items = (disk[s].items \cup SetsOf(s)) \ DelsOf(s)
         /\ disk'[s].meta = IF s = writeSegment /\ batch.meta THEN wi ELSE disk[s].meta
         /\ disk'[s] \in Bucket
         /\ full' \subseteq DOMAIN disk
<1>1. disk[s] \in Bucket /\ SetsOf(s) \subseteq Items /\ wi \in Indices
  BY DEF TypeOK, SetsOf, Batch
<1>2. /\ DOMAIN disk' = DOMAIN disk
      /\ \A t \in DOMAIN disk : t # s => disk'[t] = disk[t]
  BY DEF ExecBatch
<1>3. disk'[s] = [disk[s] EXCEPT
        !.items = (disk[s].items \cup SetsOf(s)) \ DelsOf(s),
        !.meta = IF s = writeSegment /\ batch.meta THEN wi ELSE disk[s].meta]
  BY DEF ExecBatch
<1>4. full' \subseteq DOMAIN disk
  BY DEF ExecBatch, Grow, TypeOK
<1>. QED BY <1>1, <1>2, <1>3, <1>4 DEF Bucket

\* Counting keeps liveKeys a count of every segment.
LEMMA CountFacts ==
  ASSUME TypeOK, NEW s \in segments, CountLiveKeys(s)
  PROVE  liveKeys' \in [segments -> Nat]
<1>1. SetsOf(s) \subseteq Items /\ DelsOf(s) \subseteq Items
  BY DEF TypeOK, SetsOf, DelsOf, Batch
<1>2. Cardinality(SetsOf(s)) \in Nat /\ Cardinality(DelsOf(s)) \in Nat
  BY <1>1, ItemsFinite
<1>. QED BY <1>2, SMTT(30) DEF CountLiveKeys, TypeOK

-----------------------------------------------------------------------------
(* The base invariant holds whatever fails *)

\* Before the first start the registry is empty.
LEMMA BaseInit == Init => BaseInv
<1>. SUFFICES ASSUME Init PROVE BaseInv
  OBVIOUS
<1>1. 0 \in Indices /\ 0 \notin {NoMeta}
  BY BoundsAssumption, SMTT(30) DEF Indices, NoMeta
<1>2. TypeOK
  BY <1>1, EmptySeq DEF Init, TypeOK, Batch, NoBatch
<1>. QED BY <1>2 DEF Init, BaseInv, RegistryInv, ListInv, Up, NoBatch

\* A call that ends: what Return leaves.
LEMMA ReturnFacts ==
  ASSUME Return
  PROVE  /\ pc' = "idle" /\ batch' = NoBatch /\ todo' = {} /\ touched' = {}
         /\ batch' \in Batch /\ batch'.sets = {} /\ batch'.dels = {}
BY DEF Return, NoBatch, Batch

\* A call that begins.
LEMMA BatchFacts ==
  ASSUME BaseInv, Up, NEW b \in Batch, BatchLocked(b)
  PROVE  /\ batch' = b /\ pc' = "exec" /\ touched' = {}
         /\ todo' \subseteq segments
         /\ UNCHANGED <<disk, full, segments, writeSegment, open, openList, liveKeys>>
BY DEF BatchLocked, Targets, BaseInv, RegistryInv, durable

\* initRegistry builds a registry within the bound on open files.
LEMMA BaseStart ==
  ASSUME BaseInv, StartEmpty \/ \E last \in DOMAIN disk : StartExisting(last)
  PROVE  BaseInv'
<1>0. 0 \in Indices /\ NoMeta \in Int
  BY BoundsAssumption, SMTT(30) DEF Indices, NoMeta
<1>1. CASE StartEmpty
  <2>1. /\ DOMAIN disk' = {0} /\ disk'[0] = Empty /\ full' \subseteq {0}
    <3>1. disk' = Put(disk, 0, Empty) /\ DOMAIN disk = {} /\ full = {}
      BY <1>1 DEF StartEmpty, BaseInv, TypeOK
    <3>2. full' \subseteq {0}
      BY <1>1, <3>1 DEF StartEmpty, Grow
    <3>3. DOMAIN disk' = {0} /\ disk'[0] = Empty
      BY <3>1 DEF Put
    <3>. QED BY <3>2, <3>3
  <2>2. Empty \in Bucket
    BY DEF Empty, Bucket, NoMeta
  <2>3. /\ segments' = {0} /\ writeSegment' = 0 /\ open' = {0} /\ openList' = <<0>>
        /\ liveKeys' \in [{0} -> Nat] /\ nextWriteIdx' = 0 /\ pc' = "idle" /\ wi' = 0
        /\ batch' = NoBatch /\ todo' = {} /\ touched' = {} /\ live' = live
    BY <1>1 DEF StartEmpty, BaseInv, RegistryInv, Up
  <2>4. <<0>> \in Seq(Indices) /\ Len(<<0>>) = 1 /\ Range(<<0>>) = {0} /\ Once(<<0>>, 0)
    BY <1>0, SMTT(30) DEF Range, Once
  <2>5. NoBatch \in Batch /\ NoBatch.sets = {}
    BY DEF NoBatch, Batch
  <2>6. TypeOK'
    BY <1>0, <2>1, <2>2, <2>3, <2>4, <2>5 DEF BaseInv, TypeOK
  <2>7. RegistryInv'
    BY <2>1, <2>3, <2>5, SMTT(30) DEF RegistryInv, Up
  <2>8. ListInv'
    BY <2>3, <2>4, MaxOpenAssumption, SMTT(30) DEF ListInv, Up
  <2>. QED BY <2>6, <2>7, <2>8 DEF BaseInv
<1>2. ASSUME NEW last \in DOMAIN disk, StartExisting(last) PROVE BaseInv'
  <2>1. /\ disk' = disk /\ full' = full /\ live' = live
        /\ segments' = DOMAIN disk /\ writeSegment' = last /\ open' = {last}
        /\ openList' = <<last>> /\ pc' = "idle"
        /\ batch' = NoBatch /\ todo' = {} /\ touched' = {}
    BY <1>2 DEF StartExisting, BaseInv, RegistryInv, Up, durable
  <2>2. last \in Indices /\ disk[last] \in Bucket
    BY DEF BaseInv, TypeOK
  <2>3. <<last>> \in Seq(Indices) /\ Len(<<last>>) = 1 /\ Range(<<last>>) = {last} /\ Once(<<last>>, last)
    BY <2>2, SMTT(30) DEF Range, Once
  <2>4. liveKeys' \in [DOMAIN disk -> Nat]
    <3>1. \A s \in DOMAIN disk : disk[s].items \subseteq Items
      BY DEF BaseInv, TypeOK, Bucket
    <3>2. \A s \in DOMAIN disk : Cardinality(disk[s].items) \in Nat
      BY <3>1, ItemsFinite
    <3>. QED BY <1>2, <3>2 DEF StartExisting, CountNumericKeys
  <2>5. nextWriteIdx' \in Indices /\ wi' \in Indices
    BY <1>2, <1>0, <2>2, BoundsAssumption, SMTT(30)
       DEF StartExisting, Bucket, Items, Indices, IsEmpty, NextAfter, ReadNonNumericKeys
  <2>6. NoBatch \in Batch /\ NoBatch.sets = {}
    BY DEF NoBatch, Batch
  <2>7. TypeOK'
    BY <2>1, <2>2, <2>3, <2>4, <2>5, <2>6 DEF BaseInv, TypeOK
  <2>8. RegistryInv'
    BY <1>2, <2>1, <2>6, SMTT(30) DEF RegistryInv, Up, StartExisting
  <2>9. ListInv'
    BY <2>1, <2>2, <2>3, MaxOpenAssumption, SMTT(30) DEF ListInv, Up, Indices
  <2>. QED BY <2>7, <2>8, <2>9 DEF BaseInv
<1>. QED BY <1>1, <1>2

\* Close and a crash leave the files.
LEMMA BaseStop ==
  ASSUME BaseInv, Close \/ Crash
  PROVE  BaseInv'
<1>1. Forget
  BY DEF Close, Crash
<1>2. 0 \in Indices /\ <<>> \in Seq(Indices) /\ NoBatch \in Batch /\ NoBatch.sets = {}
  BY BoundsAssumption, SMTT(30) DEF Indices, NoBatch, Batch
<1>3. TypeOK'
  BY <1>1, <1>2 DEF Forget, BaseInv, TypeOK, durable, client
<1>. QED BY <1>1, <1>2, <1>3 DEF Forget, BaseInv, RegistryInv, ListInv, Up

\* The calls that begin a batch or a walk.
LEMMA BaseCall ==
  ASSUME BaseInv,
         \/ Offer
         \/ \E K \in KeySets(0 .. wi - 1), m \in WithMeta : Read(K, m) \/ Ack(K, m)
         \/ Walk
         \/ \E K \in KeySets(Items) : WalkApply(K)
  PROVE  BaseInv'
<1>0. wi \in Indices /\ nextWriteIdx \in Indices /\ live \subseteq Items
  BY DEF BaseInv, TypeOK
<1>1. CASE Offer
  <2>. DEFINE b == [NoBatch EXCEPT !.sets = {wi}, !.meta = TRUE]
  <2>1. wi \in Items /\ wi + 1 \in Indices
    BY <1>0, <1>1, BoundsAssumption, SMTT(30) DEF Offer, Items, Indices
  <2>2. b \in Batch /\ b.sets = {wi}
    BY <2>1 DEF NoBatch, Batch
  <2>3. Up /\ BatchLocked(b)
    BY <1>1 DEF Offer, Up
  <2>. HIDE DEF b
  <2>4. /\ batch' = b /\ pc' = "exec" /\ touched' = {} /\ todo' \subseteq segments
        /\ UNCHANGED <<disk, full, segments, writeSegment, open, openList, liveKeys>>
    BY <2>2, <2>3, BatchFacts
  <2>5. /\ nextWriteIdx' \in Indices /\ wi' = wi + 1 /\ live' = live
    BY <1>0, <1>1, <2>1 DEF Offer, NextAfter
  <2>6. wi' > 0
    BY <1>0, <2>5, BoundsAssumption, SMTT(30) DEF Indices
  <2>7. TypeOK'
    BY <1>0, <2>1, <2>2, <2>4, <2>5 DEF BaseInv, TypeOK
  <2>8. RegistryInv'
    BY <2>3, <2>4, <2>6 DEF BaseInv, RegistryInv, Up
  <2>9. ListInv'
    BY <2>3, <2>4 DEF BaseInv, ListInv, Up
  <2>. QED BY <2>7, <2>8, <2>9 DEF BaseInv
<1>2. ASSUME NEW b \in Batch, b.sets = {}, Up, BatchLocked(b), live' \subseteq live,
             UNCHANGED <<nextWriteIdx, wi>>
      PROVE  BaseInv'
  <2>4. /\ batch' = b /\ pc' = "exec" /\ touched' = {} /\ todo' \subseteq segments
        /\ UNCHANGED <<disk, full, segments, writeSegment, open, openList, liveKeys>>
    BY <1>2, BatchFacts
  <2>7. TypeOK'
    BY <1>0, <1>2, <2>4 DEF BaseInv, TypeOK
  <2>8. RegistryInv'
    BY <1>2, <2>4 DEF BaseInv, RegistryInv, Up
  <2>9. ListInv'
    BY <1>2, <2>4 DEF BaseInv, ListInv, Up
  <2>. QED BY <2>7, <2>8, <2>9 DEF BaseInv
<1>3. ASSUME NEW K \in KeySets(0 .. wi - 1), NEW m \in WithMeta, Read(K, m) PROVE BaseInv'
  <2>. DEFINE b == [NoBatch EXCEPT !.gets = K, !.meta = m]
  <2>1. K \subseteq Items /\ m \in BOOLEAN
    <3>1. 0 .. wi - 1 \subseteq Items
      BY <1>0, BoundsAssumption, SMTT(30) DEF Items, Indices
    <3>2. m \in BOOLEAN
      BY DEF WithMeta
    <3>. QED BY <3>1, <3>2 DEF KeySets
  <2>2. b \in Batch /\ b.sets = {}
    BY <2>1, ZenonT(40) DEF NoBatch, Batch
  <2>3. Up /\ BatchLocked(b) /\ live' \subseteq live /\ UNCHANGED <<nextWriteIdx, wi>>
    BY <1>3 DEF Read, Up, client
  <2>. HIDE DEF b
  <2>. QED BY <1>2, <2>2, <2>3
<1>4. ASSUME NEW K \in KeySets(0 .. wi - 1), NEW m \in WithMeta, Ack(K, m) PROVE BaseInv'
  <2>. DEFINE b == [NoBatch EXCEPT !.dels = K, !.meta = m]
  <2>1. K \subseteq Items /\ m \in BOOLEAN
    <3>1. 0 .. wi - 1 \subseteq Items
      BY <1>0, BoundsAssumption, SMTT(30) DEF Items, Indices
    <3>2. m \in BOOLEAN
      BY DEF WithMeta
    <3>. QED BY <3>1, <3>2 DEF KeySets
  <2>2. b \in Batch /\ b.sets = {}
    BY <2>1 DEF NoBatch, Batch
  <2>3. Up /\ BatchLocked(b) /\ live' \subseteq live /\ UNCHANGED <<nextWriteIdx, wi>>
    BY <1>4 DEF Ack, Up
  <2>. HIDE DEF b
  <2>. QED BY <1>2, <2>2, <2>3
<1>5. ASSUME NEW K \in KeySets(Items), WalkApply(K) PROVE BaseInv'
  <2>. DEFINE b == [NoBatch EXCEPT !.dels = K]
  <2>1. K \subseteq Items
    BY DEF KeySets
  <2>2. b \in Batch /\ b.sets = {}
    BY <2>1 DEF NoBatch, Batch
  <2>3. Up /\ BatchLocked(b) /\ live' \subseteq live /\ UNCHANGED <<nextWriteIdx, wi>>
    BY <1>5 DEF WalkApply, Up
  <2>. HIDE DEF b
  <2>. QED BY <1>2, <2>2, <2>3
<1>6. CASE Walk
  <2>1. /\ UNCHANGED <<disk, full, segments, writeSegment, open, openList, liveKeys,
                       nextWriteIdx, batch, touched, wi, live>>
        /\ pc = "idle" /\ pc' = "walk" /\ todo' = segments
    BY <1>6 DEF Walk, durable, registry, client
  <2>2. TypeOK'
    BY <2>1 DEF BaseInv, TypeOK
  <2>3. RegistryInv' /\ ListInv'
    BY <2>1 DEF BaseInv, RegistryInv, ListInv, Up
  <2>. QED BY <2>2, <2>3 DEF BaseInv
<1>. QED BY <1>1, <1>3, <1>4, <1>5, <1>6, SMTT(30)

\* The groups of a batch and the segments of a walk.
LEMMA BaseGroup ==
  ASSUME BaseInv, NEW s \in todo,
         ExecGroup(s) \/ ExecFails(s) \/ WalkSegment(s) \/ WalkFails(s)
  PROVE  BaseInv'
<1>0. /\ s \in segments /\ s \in DOMAIN disk /\ Up
      /\ writeSegment \in segments /\ segments \subseteq DOMAIN disk
      /\ \A t \in segments : t <= writeSegment
  <2>1. Up
    BY DEF Up, BaseInv, RegistryInv
  <2>. QED BY <2>1 DEF BaseInv, TypeOK, RegistryInv
<1>1. ASSUME EnsureOpen(s)
      PROVE  /\ openList' \in Seq(Indices) /\ Len(openList') <= MaxOpen
             /\ open' \subseteq segments /\ open' \subseteq Range(openList')
             /\ writeSegment \in open' /\ Once(openList', writeSegment)
             /\ \A t \in Range(openList') : t <= writeSegment
  BY <1>0, <1>1, EnsureOpenFacts
<1>2. ASSUME EnsureOpenFails(s)
      PROVE  /\ openList' \in Seq(Indices) /\ Len(openList') <= MaxOpen
             /\ open' \subseteq segments /\ open' \subseteq Range(openList')
             /\ writeSegment \in open' /\ Once(openList', writeSegment)
             /\ \A t \in Range(openList') : t <= writeSegment
  <2>1. open \subseteq segments /\ \A t \in Range(openList) : t <= writeSegment
    BY <1>0 DEF BaseInv, TypeOK, ListInv
  <2>. QED BY <1>0, <1>2, <2>1, EnsureOpenFailsFacts
<1>3. CASE ExecGroup(s)
  <2>1. /\ DOMAIN disk' = DOMAIN disk /\ \A t \in DOMAIN disk : disk'[t] \in Bucket
        /\ full' \subseteq DOMAIN disk
    BY <1>0, <1>3, ExecBatchFacts DEF ExecGroup, BaseInv, TypeOK
  <2>2. liveKeys' \in [segments -> Nat]
    BY <1>0, <1>3, CountFacts DEF ExecGroup, BaseInv
  <2>3. /\ UNCHANGED <<segments, writeSegment, nextWriteIdx, batch, wi, live>>
        /\ todo' = todo \ {s} /\ touched' = touched \cup {s}
        /\ pc = "exec" /\ pc' = IF todo = {s} THEN "gc" ELSE "exec"
    BY <1>3 DEF ExecGroup, client
  <2>4. EnsureOpen(s)
    BY <1>3 DEF ExecGroup
  <2>5. TypeOK'
    BY <1>0, <1>1, <2>1, <2>2, <2>3, <2>4 DEF BaseInv, TypeOK
  <2>6. RegistryInv'
    BY <1>0, <2>1, <2>3 DEF BaseInv, RegistryInv, Up
  <2>7. ListInv'
    BY <1>1, <2>3, <2>4 DEF ListInv
  <2>. QED BY <2>5, <2>6, <2>7 DEF BaseInv
<1>4. CASE ExecFails(s)
  <2>1. /\ UNCHANGED <<disk, full, segments, writeSegment, liveKeys, nextWriteIdx, live>>
        /\ pc' = "idle" /\ batch' = NoBatch /\ todo' = {} /\ touched' = {}
        /\ batch' \in Batch /\ batch'.sets = {}
    BY <1>4, ReturnFacts DEF ExecFails, durable
  <2>2. wi' \in Indices
    <3>1. batch.sets # {} => wi > 0
      BY DEF BaseInv, RegistryInv
    <3>. QED BY <1>4, <3>1, BoundsAssumption, SMTT(30) DEF ExecFails, BaseInv, TypeOK, Indices
  <2>3. EnsureOpen(s) \/ EnsureOpenFails(s)
    BY <1>4 DEF ExecFails
  <2>4. TypeOK'
    BY <1>0, <1>1, <1>2, <2>1, <2>2, <2>3 DEF BaseInv, TypeOK
  <2>5. RegistryInv'
    BY <1>0, <2>1 DEF RegistryInv, Up
  <2>6. ListInv'
    BY <1>1, <1>2, <2>1, <2>3 DEF ListInv
  <2>. QED BY <2>4, <2>5, <2>6 DEF BaseInv
<1>5. CASE WalkSegment(s)
  <2>1. /\ UNCHANGED <<disk, full, segments, writeSegment, liveKeys, nextWriteIdx,
                       pc, batch, touched, wi, live>>
        /\ todo' = todo \ {s} /\ pc = "walk" /\ EnsureOpen(s)
    BY <1>5 DEF WalkSegment, durable, client
  <2>2. TypeOK'
    BY <1>0, <1>1, <2>1 DEF BaseInv, TypeOK
  <2>3. RegistryInv'
    BY <1>0, <2>1 DEF BaseInv, RegistryInv, Up
  <2>4. ListInv'
    BY <1>1, <2>1, SMTT(30) DEF ListInv
  <2>. QED BY <2>2, <2>3, <2>4 DEF BaseInv
<1>6. CASE WalkFails(s)
  <2>1. /\ UNCHANGED <<disk, full, segments, writeSegment, liveKeys, nextWriteIdx, wi, live>>
        /\ pc' = "idle" /\ batch' = NoBatch /\ todo' = {} /\ touched' = {}
        /\ batch' \in Batch /\ batch'.sets = {} /\ EnsureOpenFails(s)
    BY <1>6, ReturnFacts DEF WalkFails, durable, client
  <2>2. TypeOK'
    BY <1>0, <1>2, <2>1 DEF BaseInv, TypeOK
  <2>3. RegistryInv'
    BY <1>0, <2>1 DEF RegistryInv, Up
  <2>4. ListInv'
    BY <1>2, <2>1 DEF ListInv
  <2>. QED BY <2>2, <2>3, <2>4 DEF BaseInv
<1>. QED BY <1>3, <1>4, <1>5, <1>6

\* Collecting a segment.
LEMMA BaseGc ==
  ASSUME BaseInv, NEW s \in touched, GcSkip(s) \/ GcSegment(s)
  PROVE  BaseInv'
<1>0. /\ Up /\ pc = "gc" /\ todo = {}
      /\ writeSegment \in segments /\ segments \subseteq DOMAIN disk
      /\ \A t \in segments : t <= writeSegment
  BY DEF GcSkip, GcSegment, BaseInv, RegistryInv, Up
<1>1. CASE GcSkip(s)
  <2>1. /\ UNCHANGED <<disk, full, segments, writeSegment, open, openList, liveKeys,
                       nextWriteIdx, pc, batch, todo, wi, live>>
        /\ touched' \subseteq touched
    BY <1>1 DEF GcSkip, durable, registry, client
  <2>2. TypeOK'
    BY <2>1 DEF BaseInv, TypeOK
  <2>3. RegistryInv' /\ ListInv'
    BY <1>0, <2>1 DEF BaseInv, RegistryInv, ListInv, Up
  <2>. QED BY <2>2, <2>3 DEF BaseInv
<1>2. CASE GcSegment(s)
  <2>1. /\ UNCHANGED <<writeSegment, nextWriteIdx, pc, batch, todo, wi, live>>
        /\ touched' \subseteq touched /\ s # writeSegment
        /\ openList' = RemoveFirst(openList, s) /\ open' = open \ {s}
    BY <1>2 DEF GcSegment, client, Collectable
  <2>2. \/ /\ disk' = Drop(disk, s) /\ full' = full \ {s}
           /\ segments' = segments \ {s} /\ liveKeys' = Drop(liveKeys, s)
        \/ UNCHANGED <<disk, full, segments, liveKeys>>
    BY <1>2 DEF GcSegment, durable
  <2>3. /\ DOMAIN disk' \subseteq DOMAIN disk /\ \A t \in DOMAIN disk' : disk'[t] = disk[t]
        /\ full' \subseteq DOMAIN disk' /\ liveKeys' \in [segments' -> Nat]
        /\ segments' \subseteq segments /\ open' \subseteq segments'
        /\ writeSegment \in segments' /\ segments' \subseteq DOMAIN disk'
    <3>0. /\ full \subseteq DOMAIN disk /\ liveKeys \in [segments -> Nat]
          /\ open \subseteq segments
      BY DEF BaseInv, TypeOK
    <3>1. CASE UNCHANGED <<disk, full, segments, liveKeys>>
      BY <1>0, <2>1, <3>0, <3>1, SMTT(30)
    <3>2. CASE /\ disk' = Drop(disk, s) /\ full' = full \ {s}
               /\ segments' = segments \ {s} /\ liveKeys' = Drop(liveKeys, s)
      <4>1. /\ DOMAIN disk' = DOMAIN disk \ {s}
            /\ \A t \in DOMAIN disk' : disk'[t] = disk[t]
        BY <3>2 DEF Drop
      <4>2. liveKeys' \in [segments' -> Nat]
        BY <3>0, <3>2 DEF Drop
      <4>. QED BY <1>0, <2>1, <3>0, <3>2, <4>1, <4>2, SMTT(30)
    <3>. QED BY <2>2, <3>1, <3>2, SMTT(30)
  <2>4. /\ openList \in Seq(Indices) /\ Once(openList, writeSegment)
        /\ open \subseteq Range(openList) /\ writeSegment \in open
        /\ Len(openList) <= MaxOpen /\ Len(openList) \in Nat
        /\ \A t \in Range(openList) : t <= writeSegment
    BY <1>0, LenProperties DEF BaseInv, TypeOK, ListInv
  <2>. DEFINE r == RemoveFirst(openList, s)
  <2>5. /\ r \in Seq(Indices) /\ Range(r) \subseteq Range(openList)
        /\ \A x \in Range(openList) : x # s => x \in Range(r)
        /\ Len(r) = IF s \in Range(openList) THEN Len(openList) - 1 ELSE Len(openList)
    BY <2>4, RemoveFirstFacts
  <2>6. Once(r, writeSegment)
    BY <2>4, RemoveFirstOnce
  <2>. HIDE DEF r
  <2>7. openList' = r /\ Len(r) <= MaxOpen
    BY <2>1, <2>4, <2>5, MaxOpenAssumption, SMTT(30) DEF r
  <2>8. TypeOK'
    BY <1>0, <2>1, <2>3, <2>5, <2>7, SMTT(30) DEF BaseInv, TypeOK
  <2>9. RegistryInv'
    BY <1>0, <2>1, <2>3 DEF BaseInv, RegistryInv, Up
  <2>10. ListInv'
    BY <2>1, <2>4, <2>5, <2>6, <2>7 DEF ListInv
  <2>. QED BY <2>8, <2>9, <2>10 DEF BaseInv
<1>. QED BY <1>1, <1>2

\* A call that ends without touching the registry.
LEMMA BaseReturn ==
  ASSUME BaseInv, Up, Return, UNCHANGED registry, wi' = wi, live' \subseteq Items,
         segments \subseteq DOMAIN disk', DOMAIN disk' \subseteq DOMAIN disk,
         \A t \in DOMAIN disk' : disk'[t] = disk[t], full' \subseteq DOMAIN disk'
  PROVE  BaseInv'
<1>1. /\ UNCHANGED <<segments, writeSegment, open, openList, liveKeys, nextWriteIdx>>
      /\ pc' = "idle" /\ batch' = NoBatch /\ todo' = {} /\ touched' = {}
      /\ batch' \in Batch /\ batch'.sets = {}
  BY ReturnFacts DEF registry
<1>2. TypeOK'
  BY <1>1 DEF BaseInv, TypeOK
<1>3. RegistryInv' /\ ListInv'
  BY <1>1 DEF BaseInv, RegistryInv, ListInv, Up
<1>. QED BY <1>2, <1>3 DEF BaseInv

\* Rolling the write segment, and the ends of a call.
LEMMA BaseRoll ==
  ASSUME BaseInv,
         NoRoll \/ RollCreate \/ RollCreateFails \/ RollMigrate \/ RollMigrateFails \/ WalkEnds
  PROVE  BaseInv'
<1>0. /\ Up /\ writeSegment \in segments /\ segments \subseteq DOMAIN disk
      /\ \A t \in segments : t <= writeSegment
      /\ batch.sets \subseteq Items /\ live \subseteq Items
      /\ full \subseteq DOMAIN disk
  <2>1. Up
    BY DEF NoRoll, RollCreate, RollCreateFails, RollMigrate, RollMigrateFails, WalkEnds, Up
  <2>. QED BY <2>1 DEF BaseInv, RegistryInv, TypeOK, Batch
<1>1. CASE NoRoll \/ RollCreateFails \/ WalkEnds
  BY <1>0, <1>1, BaseReturn, SMTT(30)
     DEF NoRoll, RollCreateFails, WalkEnds, ReturnOK, durable, client
<1>2. CASE RollMigrateFails
  <2>1. /\ pc = "migrate" /\ nextWriteIdx > writeSegment /\ Return /\ UNCHANGED registry
        /\ wi' = wi /\ live' \subseteq Items
    BY <1>0, <1>2 DEF RollMigrateFails, ReturnOK, BaseInv, RegistryInv
  <2>2. nextWriteIdx \notin segments
    BY <1>0, <2>1, SMTT(30) DEF BaseInv, TypeOK, Indices
  <2>3. /\ segments \subseteq DOMAIN disk' /\ DOMAIN disk' \subseteq DOMAIN disk
        /\ \A t \in DOMAIN disk' : disk'[t] = disk[t] /\ full' \subseteq DOMAIN disk'
    BY <1>0, <1>2, <2>2, SMTT(30) DEF RollMigrateFails, Drop, durable
  <2>. QED BY <1>0, <2>1, <2>3, BaseReturn, SMTT(30)
<1>3. CASE RollCreate
  <2>1. /\ UNCHANGED <<segments, writeSegment, open, openList, liveKeys, nextWriteIdx,
                       batch, todo, touched, wi, live>>
        /\ pc = "gc" /\ pc' = "migrate" /\ nextWriteIdx > writeSegment
    BY <1>3 DEF RollCreate, registry, client
  <2>2. Empty \in Bucket
    BY DEF Empty, Bucket, NoMeta
  <2>3. /\ DOMAIN disk' = DOMAIN disk \cup {nextWriteIdx}
        /\ \A t \in DOMAIN disk' : disk'[t] \in Bucket
    BY <1>3, <2>2, SMTT(30) DEF RollCreate, Put, BaseInv, TypeOK
  <2>4. full' \subseteq DOMAIN disk'
    BY <1>0, <1>3, <2>3 DEF RollCreate, Grow
  <2>5. TypeOK'
    BY <2>1, <2>3, <2>4 DEF BaseInv, TypeOK
  <2>6. RegistryInv'
    BY <1>0, <2>1, <2>3 DEF BaseInv, RegistryInv, Up
  <2>7. ListInv'
    BY <1>0, <2>1, SMTT(30) DEF BaseInv, ListInv
  <2>. QED BY <2>5, <2>6, <2>7, SMTT(30) DEF BaseInv
<1>4. CASE RollMigrate
  <2>. DEFINE new == nextWriteIdx
              longer == <<new>> \o openList
              evicted == OverCapacity(longer, new)
  <2>1. /\ new \in Indices /\ new \in DOMAIN disk /\ disk[new] \in Bucket
        /\ disk[writeSegment] \in Bucket /\ new > writeSegment
        /\ pc = "migrate"
    BY <1>0, <1>4 DEF RollMigrate, BaseInv, TypeOK, RegistryInv
  <2>2. /\ pc' = "idle" /\ batch' = NoBatch /\ todo' = {} /\ touched' = {}
        /\ batch' \in Batch /\ batch'.sets = {} /\ wi' = wi /\ live' \subseteq Items
        /\ full' = full /\ nextWriteIdx' = nextWriteIdx
        /\ segments' = segments \cup {new} /\ writeSegment' = new
    BY <1>0, <1>4, ReturnFacts DEF RollMigrate, ReturnOK
  <2>3. /\ DOMAIN disk' = DOMAIN disk /\ \A t \in DOMAIN disk' : disk'[t] \in Bucket
    <3>. DEFINE v == IF ReadNonNumericKeys(writeSegment) = NoMeta THEN disk[new].meta
                     ELSE ReadNonNumericKeys(writeSegment)
    <3>1. v \in Indices \cup {NoMeta} /\ disk' = [disk EXCEPT ![new].meta = v]
      BY <1>4, <2>1 DEF RollMigrate, Bucket, ReadNonNumericKeys
    <3>. HIDE DEF v
    <3>2. [disk[new] EXCEPT !.meta = v] \in Bucket
      BY <2>1, <3>1 DEF Bucket
    <3>3. \A t \in DOMAIN disk : disk[t] \in Bucket
      BY DEF BaseInv, TypeOK
    <3>. QED BY <2>1, <3>1, <3>2, <3>3
  <2>4. liveKeys' \in [segments' -> Nat]
    <3>1. Cardinality(disk[new].items) \in Nat
      BY <2>1, ItemsFinite DEF Bucket
    <3>. QED BY <1>4, <2>2, <3>1 DEF RollMigrate, Put, CountNumericKeys, BaseInv, TypeOK
  <2>5. /\ openList \in Seq(Indices) /\ Len(openList) <= MaxOpen /\ Len(openList) \in Nat
        /\ open \subseteq Range(openList) /\ \A t \in Range(openList) : t <= writeSegment
        /\ open \subseteq segments
    BY <1>0, LenProperties DEF BaseInv, TypeOK, ListInv
  <2>6. new \notin Range(openList)
    <3>1. writeSegment \in Int /\ new \in Int
      BY <2>1, SMTT(30) DEF BaseInv, TypeOK, Indices
    <3>. QED BY <2>1, <2>5, <3>1, SMTT(30)
  <2>7. /\ longer \in Seq(Indices) /\ Len(longer) = Len(openList) + 1
        /\ Range(longer) = Range(openList) \cup {new} /\ Once(longer, new)
    <3>1. Once(openList, new)
      BY <2>6 DEF Once, Range
    <3>2. Once(longer, new)
      BY <2>1, <2>5, <2>6, <3>1, PrependOnce
    <3>. QED BY <2>1, <2>5, <3>2, PrependFacts, SMTT(30)
  <2>8. openList' = RemoveFromOpenList(longer, evicted) /\ open' = (open \cup {new}) \ evicted
    BY <1>4 DEF RollMigrate
  <2>. HIDE DEF longer
  <2>9. /\ evicted = {} \/ \E v \in Range(longer) : v # new /\ evicted = {v}
        /\ Len(longer) > MaxOpen => evicted # {}
    BY <2>5, <2>7, VictimFacts, MaxOpenAssumption, SMTT(30) DEF OverCapacity
  <2>. DEFINE r == RemoveFromOpenList(longer, evicted)
  <2>. HIDE DEF evicted
  <2>10. /\ r \in Seq(Indices) /\ Once(r, new) /\ Range(r) \subseteq Range(longer)
         /\ \A x \in Range(longer) : x \notin evicted => x \in Range(r)
         /\ Len(r) = IF evicted = {} THEN Len(longer) ELSE Len(longer) - 1
    <3>1. evicted = {} \/ \E v \in Range(longer) : v # new /\ evicted = {v}
      BY <2>9
    <3>2. longer \in Seq(Indices) /\ Once(longer, new)
      BY <2>7
    <3>. QED BY <3>1, <3>2, RemoveVictimFacts
  <2>. HIDE DEF r
  <2>11. Len(r) <= MaxOpen
    BY <2>5, <2>7, <2>9, <2>10, MaxOpenAssumption, SMTT(30)
  <2>12. openList' = r
    BY <2>8 DEF r
  <2>13. TypeOK'
    BY <1>0, <2>1, <2>2, <2>3, <2>4, <2>5, <2>8, <2>10, <2>12 DEF BaseInv, TypeOK
  <2>14. RegistryInv'
    <3>1. writeSegment \in Int /\ new \in Int /\ \A t \in segments : t \in Int
      BY <2>1, SMTT(30) DEF BaseInv, TypeOK, Indices
    <3>2. /\ segments' = segments \cup {new} /\ new > writeSegment
          /\ \A t \in segments : t <= writeSegment
      BY <1>0, <2>1, <2>2, SMTT(30)
    <3>3. \A t \in segments' : t <= new
      BY <3>1, <3>2, SMTT(30)
    <3>. QED BY <1>0, <2>1, <2>2, <2>3, <3>3, SMTT(30) DEF RegistryInv, Up
  <2>15. ListInv'
    <3>0. /\ writeSegment \in Int /\ new \in Int /\ new > writeSegment
          /\ \A t \in Indices : t \in Int
      BY <2>1, SMTT(30) DEF BaseInv, TypeOK, Indices
    <3>2. /\ Range(r) \subseteq Range(openList) \cup {new}
          /\ \A t \in Range(openList) : t <= writeSegment /\ t \in Indices
      BY <2>5, <2>7, <2>10, RangeType, SMTT(30)
    <3>1. \A t \in Range(r) : t <= new
      BY <3>0, <3>2, SMTT(30)
    <3>. QED BY <2>2, <2>5, <2>7, <2>8, <2>9, <2>10, <2>11, <2>12, <3>1, SMTT(30) DEF ListInv
  <2>. QED BY <2>13, <2>14, <2>15 DEF BaseInv
<1>. QED BY <1>1, <1>2, <1>3, <1>4

\* Every step, whatever fails, keeps the registry in order.
LEMMA BaseStep == BaseInv /\ [Next]_vars => BaseInv'
<1>. SUFFICES ASSUME BaseInv, [Next]_vars PROVE BaseInv'
  OBVIOUS
<1>1. CASE UNCHANGED vars
  <2>1. UNCHANGED <<disk, full, segments, writeSegment, open, openList, liveKeys,
                    nextWriteIdx, pc, batch, todo, touched, wi, live>>
    BY <1>1 DEF vars, durable, registry, call, client
  <2>. QED BY <2>1, SMTT(30) DEF BaseInv, TypeOK, RegistryInv, ListInv, Up
<1>2. CASE Next
  BY <1>2, BaseStart, BaseStop, BaseCall, BaseGroup, BaseGc, BaseRoll, SMTT(30) DEF Next
<1>. QED BY <1>1, <1>2

\* For every choice of what may fail, every variable keeps its type.
THEOREM TypeCorrect == Spec => []TypeOK
<1>1. BaseInv => TypeOK
  BY DEF BaseInv
<1>. QED BY BaseInit, BaseStep, <1>1, PTL DEF Spec

\* For every choice of what may fail, max_open_segments is never exceeded, no
\* open file escapes the list that eviction works from and the write segment
\* stays open.
THEOREM OpenFilesAreBounded == Spec => []OpenFilesBounded
<1>1. BaseInv => OpenFilesBounded
  BY DEF BaseInv, ListInv, OpenFilesBounded
<1>. QED BY BaseInit, BaseStep, <1>1, PTL DEF Spec

-----------------------------------------------------------------------------
(* Items stay where routeRead looks for them *)

\* Excluded are the faults after which a restart may find a file without
\* metadata or the queue may offer an index twice, and the ones that let an
\* Offer fail when a batch without qmv0 may follow it.
SafeFaults ==
  /\ Faults \cap {"rollCrash", "cleanup", "retry"} = {}
  /\ "bare" \in Faults => Faults \cap {"close", "reopen", "commit"} = {}

\* The write index in file n is above every file and every item.
Covers(n) ==
  LET m == IF disk[n].meta = NoMeta THEN 0 ELSE disk[n].meta
  IN  \A s \in DOMAIN disk : s <= m /\ \A k \in disk[s].items : k < m

\* Each item lies between the start of its file and the start of the next one,
\* and below the index from which the next file will start.
KeyInv ==
  /\ \A s \in DOMAIN disk : \A k \in disk[s].items :
       s <= k /\ \A t \in DOMAIN disk : s < t => k < t
  /\ Up => /\ writeSegment <= nextWriteIdx /\ nextWriteIdx <= wi
           /\ \A k \in disk[writeSegment].items : k < nextWriteIdx
  /\ Up /\ pc # "migrate" => DOMAIN disk = segments
  /\ pc = "migrate" => /\ DOMAIN disk = segments \cup {nextWriteIdx}
                       /\ nextWriteIdx \notin segments
                       /\ disk[nextWriteIdx].items = {}
  /\ \A k \in batch.sets : k = wi - 1 /\ writeSegment <= k /\ k < nextWriteIdx

\* The write index on disk, and that a batch brings it up to date before its
\* roll can name a new file after nextWriteIdx.
IndexInv ==
  /\ Up => Covers(writeSegment) /\ disk[writeSegment].meta <= wi
  /\ ~Up => \A n \in DOMAIN disk : (\A s \in DOMAIN disk : s <= n) => Covers(n)
  /\ pc = "exec" => \/ batch.meta /\ writeSegment \in todo
                    \/ disk[writeSegment].meta = wi
  /\ "bare" \in Faults /\ pc \in {"idle", "walk"} => disk[writeSegment].meta = wi \/ wi = 0
  /\ pc \in {"gc", "migrate"} => disk[writeSegment].meta = wi

\* What holds under SafeFaults.
SafeInv == BaseInv /\ KeyInv /\ IndexInv

-----------------------------------------------------------------------------
(* Steps that leave files, boundaries and indices alone *)

\* Steps that touch neither the files nor the indices.
LEMMA QuietStep ==
  ASSUME SafeInv, Up, pc # "migrate", pc' \in {"idle", "gc", "walk"},
         pc' = "gc" => pc = "gc", pc = "exec" => "bare" \notin Faults,
         batch'.sets \subseteq batch.sets,
         UNCHANGED <<disk, segments, writeSegment, nextWriteIdx, wi>>
  PROVE  KeyInv' /\ IndexInv'
<1>1. KeyInv'
  BY DEF SafeInv, KeyInv, Up
<1>2. pc \in {"idle", "exec", "gc", "walk"}
  BY DEF SafeInv, BaseInv, TypeOK, Up
<1>3. IndexInv'
  BY <1>2 DEF SafeInv, IndexInv, Covers, Up
<1>. QED BY <1>1, <1>3

\* The integers among the state.
LEMMA TypesOf ==
  ASSUME BaseInv
  PROVE  /\ \A s \in DOMAIN disk : /\ disk[s] \in Bucket /\ s \in Int
                                   /\ disk[s].meta \in Int /\ disk[s].meta >= -1
                                   /\ \A k \in disk[s].items : k \in Int
         /\ writeSegment \in Int /\ nextWriteIdx \in Int /\ wi \in Int
         /\ wi >= 0 /\ nextWriteIdx >= 0 /\ writeSegment >= 0
         /\ \A s \in segments : s \in Int
         /\ \A s \in Indices : s \in Int /\ s >= 0
         /\ \A k \in Items : k \in Int /\ k >= 0
<1>1. \A s \in Indices : s \in Int /\ s >= 0
  BY BoundsAssumption, SMTT(30) DEF Indices
<1>2. \A k \in Items : k \in Int /\ k >= 0
  BY BoundsAssumption, SMTT(30) DEF Items
<1>3. \A s \in DOMAIN disk : disk[s] \in Bucket /\ s \in Indices
  BY DEF BaseInv, TypeOK
<1>4. \A s \in DOMAIN disk : /\ disk[s].meta \in Indices \cup {-1}
                             /\ disk[s].items \subseteq Items
  BY <1>3 DEF Bucket, NoMeta
<1>5. \A s \in DOMAIN disk : /\ disk[s].meta \in Int /\ disk[s].meta >= -1
                             /\ \A k \in disk[s].items : k \in Int
  BY <1>1, <1>2, <1>4, SMTT(30)
<1>6. /\ writeSegment \in Indices /\ nextWriteIdx \in Indices /\ wi \in Indices
      /\ segments \subseteq Indices
  BY DEF BaseInv, TypeOK
<1>. QED BY <1>1, <1>2, <1>3, <1>5, <1>6

-----------------------------------------------------------------------------
(* One lemma per group of actions *)

\* A start finds the files in order and derives the index from them.
LEMMA SafeStart ==
  ASSUME SafeInv, StartEmpty \/ \E last \in DOMAIN disk : StartExisting(last)
  PROVE  KeyInv' /\ IndexInv'
<1>0. BaseInv /\ pc = "down" /\ pc' = "idle" /\ Up' /\ batch' = NoBatch /\ batch'.sets = {}
  BY SMTT(30) DEF StartEmpty, StartExisting, SafeInv, BaseInv, RegistryInv, Up, NoBatch
<1>1. CASE StartEmpty
  <2>1. /\ DOMAIN disk' = {0} /\ disk'[0] = Empty /\ segments' = {0} /\ writeSegment' = 0
        /\ nextWriteIdx' = 0 /\ wi' = 0
    BY <1>1 DEF StartEmpty, Put
  <2>2. disk'[0].items = {} /\ disk'[0].meta = -1
    BY <2>1, SMTT(30) DEF Empty, NoMeta
  <2>3. KeyInv'
    BY <1>0, <2>1, <2>2, SMTT(30) DEF KeyInv
  <2>4. IndexInv'
    BY <1>0, <2>1, <2>2, SMTT(30) DEF IndexInv, Covers, NoMeta
  <2>. QED BY <2>3, <2>4
<1>2. ASSUME NEW last \in DOMAIN disk, StartExisting(last) PROVE KeyInv' /\ IndexInv'
  <2>. DEFINE m == IF disk[last].meta = NoMeta THEN 0 ELSE disk[last].meta
  <2>1. /\ disk' = disk /\ segments' = DOMAIN disk /\ writeSegment' = last
        /\ wi' = m /\ \A s \in DOMAIN disk : s <= last
    BY <1>2 DEF StartExisting, durable, ReadNonNumericKeys
  <2>2. \A s \in DOMAIN disk : s <= m /\ \A k \in disk[s].items : k < m
    BY <1>0, <2>1 DEF SafeInv, IndexInv, Up, Covers
  <2>3. /\ \A s \in DOMAIN disk : s \in Int /\ \A k \in disk[s].items : k \in Int
        /\ disk[last].meta \in Int /\ disk[last].meta >= -1
    BY <1>0, TypesOf
  <2>4. /\ \A s \in DOMAIN disk : \A k \in disk[s].items :
             s <= k /\ \A t \in DOMAIN disk : s < t => k < t
    BY DEF SafeInv, KeyInv
  <2>5. m \in Int
    BY <2>3, SMTT(30) DEF NoMeta
  <2>6. disk[last].meta <= m
    BY <2>3, SMTT(30) DEF NoMeta
  <2>. HIDE DEF m
  <2>7. CASE disk[last].items = {} /\ nextWriteIdx' = last
    <3>1. last <= nextWriteIdx' /\ nextWriteIdx' <= m
      BY <2>2, <2>3, <2>7, SMTT(30)
    <3>. QED BY <1>0, <2>1, <2>2, <2>4, <2>6, <2>7, <3>1, SMTT(30)
             DEF KeyInv, IndexInv, Covers, m
  <2>8. ASSUME NEW maxKey \in disk[last].items, \A k \in disk[last].items : k <= maxKey,
               nextWriteIdx' = maxKey + 1
        PROVE  KeyInv' /\ IndexInv'
    <3>1. /\ last <= maxKey /\ maxKey < m /\ maxKey \in Int
      BY <2>2, <2>3, <2>4
    <3>2. last <= nextWriteIdx' /\ nextWriteIdx' <= m
      BY <2>3, <2>5, <2>8, <3>1, SMTT(30)
    <3>3. \A k \in disk[last].items : k < nextWriteIdx'
      BY <2>3, <2>8, <3>1, SMTT(30)
    <3>. QED BY <1>0, <2>1, <2>2, <2>4, <2>6, <3>2, <3>3, SMTT(30) DEF KeyInv, IndexInv, Covers, m
  <2>. QED BY <1>2, <2>7, <2>8 DEF StartExisting, IsEmpty, NextAfter
<1>. QED BY <1>1, <1>2

\* Close and a crash outside a roll leave the files in order.
LEMMA SafeStop ==
  ASSUME SafeInv, SafeFaults, Close \/ Crash
  PROVE  KeyInv' /\ IndexInv'
<1>1. /\ pc # "migrate" /\ Up /\ Forget /\ BaseInv
  BY DEF Close, Crash, SafeFaults, Up, SafeInv
<1>2. /\ disk' = disk /\ pc' = "down" /\ batch'.sets = {} /\ wi' = wi
  BY <1>1 DEF Forget, durable, client, NoBatch
<1>3. /\ DOMAIN disk = segments /\ \A s \in segments : s <= writeSegment
      /\ writeSegment \in segments /\ Covers(writeSegment)
  BY <1>1 DEF SafeInv, KeyInv, IndexInv, BaseInv, RegistryInv
<1>4. KeyInv'
  BY <1>2 DEF SafeInv, KeyInv, Up
<1>5. ASSUME NEW n \in DOMAIN disk, \A s \in DOMAIN disk : s <= n PROVE n = writeSegment
  <2>1. n <= writeSegment /\ writeSegment <= n /\ n \in Int /\ writeSegment \in Int
    BY <1>1, <1>3, <1>5, TypesOf
  <2>. QED BY <2>1, SMTT(30)
<1>6. IndexInv'
  BY <1>2, <1>3, <1>5 DEF IndexInv, Covers, Up
<1>. QED BY <1>4, <1>6

\* An offer names an index above all items and files.
LEMMA SafeOffer ==
  ASSUME SafeInv, Offer
  PROVE  KeyInv' /\ IndexInv'
<1>. DEFINE b == [NoBatch EXCEPT !.sets = {wi}, !.meta = TRUE]
<1>1. /\ pc = "idle" /\ Up /\ BatchLocked(b) /\ BaseInv /\ KeyInv /\ IndexInv
  BY DEF Offer, Up, SafeInv
<1>2. b.sets = {wi} /\ b.meta
  BY DEF NoBatch
<1>3. /\ pc' = "exec" /\ batch' = b /\ todo' = Targets(b)
      /\ UNCHANGED <<disk, segments, writeSegment>>
  BY <1>1 DEF BatchLocked, durable
<1>4. writeSegment \in todo'
  BY <1>2, <1>3 DEF Targets
<1>. HIDE DEF b
<1>5. /\ writeSegment \in Int /\ nextWriteIdx \in Int /\ wi \in Int
      /\ writeSegment <= nextWriteIdx /\ nextWriteIdx <= wi
      /\ writeSegment \in DOMAIN disk
      /\ \A k \in disk[writeSegment].items : k < nextWriteIdx
      /\ disk[writeSegment].meta <= wi /\ Covers(writeSegment)
  BY <1>1, TypesOf DEF KeyInv, IndexInv, BaseInv, RegistryInv
<1>6. disk[writeSegment].meta \in Int /\ \A k \in disk[writeSegment].items : k \in Int
  BY <1>1, <1>5, TypesOf
<1>7. nextWriteIdx' = wi + 1 /\ wi' = wi + 1
  BY <1>5, SMTT(30) DEF Offer, NextAfter
<1>8. /\ writeSegment <= nextWriteIdx' /\ nextWriteIdx' <= wi'
      /\ \A k \in disk[writeSegment].items : k < nextWriteIdx'
      /\ \A k \in batch'.sets : k = wi' - 1 /\ writeSegment <= k /\ k < nextWriteIdx'
      /\ disk[writeSegment].meta <= wi'
  BY <1>2, <1>3, <1>5, <1>6, <1>7, SMTT(30)
<1>9. KeyInv'
  BY <1>1, <1>3, <1>8 DEF KeyInv, Up
<1>10. IndexInv'
  BY <1>1, <1>2, <1>3, <1>4, <1>5, <1>8 DEF IndexInv, Covers, Up
<1>. QED BY <1>9, <1>10

\* A batch that stores no item, and writes qmv0 unless that is up to date.
LEMMA SafeOther ==
  ASSUME SafeInv, Up, pc # "migrate", NEW b, b.sets = {}, BatchLocked(b),
         b.meta \/ disk[writeSegment].meta = wi,
         UNCHANGED <<nextWriteIdx, wi>>
  PROVE  KeyInv' /\ IndexInv'
<1>1. /\ pc' = "exec" /\ batch' = b /\ todo' = Targets(b)
      /\ UNCHANGED <<disk, segments, writeSegment>>
  BY DEF BatchLocked, durable
<1>2. b.meta => writeSegment \in todo'
  BY <1>1 DEF Targets
<1>3. KeyInv'
  BY <1>1 DEF SafeInv, KeyInv, Up
<1>4. IndexInv'
  BY <1>1, <1>2 DEF SafeInv, IndexInv, Covers, Up
<1>. QED BY <1>3, <1>4

\* The begin of a call changes no file.
LEMMA SafeCall ==
  ASSUME SafeInv, SafeFaults,
         \/ Offer
         \/ \E K \in KeySets(0 .. wi - 1), m \in WithMeta : Read(K, m) \/ Ack(K, m)
         \/ Walk
         \/ \E K \in KeySets(Items) : WalkApply(K)
  PROVE  KeyInv' /\ IndexInv'
<1>1. ASSUME "bare" \in Faults, pc \in {"idle", "walk"}, wi # 0 PROVE disk[writeSegment].meta = wi
  BY <1>1 DEF SafeInv, IndexInv
<1>2. ASSUME NEW K \in KeySets(0 .. wi - 1), NEW m \in WithMeta, Read(K, m) \/ Ack(K, m)
      PROVE  KeyInv' /\ IndexInv'
  <2>. DEFINE r == [NoBatch EXCEPT !.gets = K, !.meta = m]
              d == [NoBatch EXCEPT !.dels = K, !.meta = m]
  <2>1. r.sets = {} /\ r.meta = m /\ d.sets = {} /\ d.meta = m
    BY DEF NoBatch
  <2>2. /\ Up /\ pc = "idle" /\ UNCHANGED <<nextWriteIdx, wi>>
        /\ BatchLocked(r) \/ BatchLocked(d)
    BY <1>2 DEF Read, Ack, Up, client
  <2>3. m \/ "bare" \in Faults
    BY DEF WithMeta
  <2>4. wi # 0
    <3>1. PICK k \in 0 .. wi - 1 : TRUE
      BY DEF KeySets
    <3>. QED BY <3>1, SMTT(30)
  <2>. HIDE DEF r, d
  <2>. QED BY <1>1, <2>1, <2>2, <2>3, <2>4, SafeOther
<1>3. CASE Walk
  BY <1>3, QuietStep DEF Walk, durable, registry, client, Up
<1>4. ASSUME NEW K \in KeySets(Items), WalkApply(K) PROVE KeyInv' /\ IndexInv'
  <2>. DEFINE d == [NoBatch EXCEPT !.dels = K]
  <2>1. /\ Up /\ pc = "walk" /\ UNCHANGED <<nextWriteIdx, wi>> /\ BatchLocked(d)
        /\ "bare" \in Faults /\ K # {} /\ K \subseteq UNION {disk[s].items : s \in segments \ todo}
    BY <1>4 DEF WalkApply, Up, KeySets
  <2>2. PICK s \in segments, k \in Int : k \in disk[s].items /\ k >= 0
    <3>1. PICK s \in segments, k \in K : k \in disk[s].items
      BY <2>1
    <3>2. k \in Items
      BY DEF KeySets
    <3>. QED BY <3>1, <3>2, TypesOf DEF SafeInv
  <2>3. Covers(writeSegment) /\ disk[writeSegment].meta <= wi /\ s \in DOMAIN disk
        /\ writeSegment \in DOMAIN disk
    BY <2>1 DEF SafeInv, BaseInv, RegistryInv, IndexInv
  <2>4. disk[writeSegment].meta \in Int /\ wi \in Int
    BY <2>3, TypesOf DEF SafeInv
  <2>5. wi # 0
    BY <2>2, <2>3, <2>4, SMTT(30) DEF Covers, NoMeta
  <2>6. d.sets = {}
    BY DEF NoBatch
  <2>. HIDE DEF d
  <2>. QED BY <1>1, <2>1, <2>5, <2>6, SafeOther
<1>. QED BY <1>2, <1>3, <1>4, SafeOffer

\* The transaction of one group: the write segment's group brings the item and
\* the index together, the other groups only delete.
LEMMA SafeExec ==
  ASSUME SafeInv, NEW s \in todo, ExecGroup(s)
  PROVE  KeyInv' /\ IndexInv'
<1>. DEFINE W == writeSegment
<1>1. /\ BaseInv /\ KeyInv /\ IndexInv /\ pc = "exec" /\ Up /\ NextGroup(s) /\ ExecBatch(s)
      /\ UNCHANGED <<segments, writeSegment, nextWriteIdx, batch, wi>>
      /\ pc' = IF todo = {s} THEN "gc" ELSE "exec"
      /\ todo' = todo \ {s}
  BY DEF ExecGroup, SafeInv, client, Up
<1>2. /\ DOMAIN disk = segments /\ s \in segments /\ W \in segments
      /\ \A t \in segments : t <= W
  BY <1>1 DEF BaseInv, TypeOK, RegistryInv, KeyInv
<1>3. /\ DOMAIN disk' = DOMAIN disk
      /\ \A t \in DOMAIN disk : t # s => disk'[t] = disk[t]
      /\ disk'[s].items = (disk[s].items \cup SetsOf(s)) \ DelsOf(s)
      /\ disk'[s].meta = IF s = W /\ batch.meta THEN wi ELSE disk[s].meta
  BY <1>1, <1>2, ExecBatchFacts DEF BaseInv
<1>4. (batch.meta /\ W \in todo) \/ disk[W].meta = wi
  BY <1>1 DEF IndexInv
<1>5. \A t \in DOMAIN disk : \A k \in disk'[t].items :
        k \in disk[t].items \/ (t = W /\ k \in batch.sets)
  BY <1>3 DEF SetsOf
<1>6. /\ \A t \in DOMAIN disk : t \in Int /\ \A k \in disk[t].items : k \in Int
      /\ W \in Int /\ nextWriteIdx \in Int /\ wi \in Int /\ wi >= 0
      /\ disk[W].meta \in Int
  BY <1>1, <1>2, TypesOf
<1>7. \A k \in batch.sets : k = wi - 1 /\ W <= k /\ k < nextWriteIdx
  BY <1>1 DEF KeyInv
<1>8. ASSUME NEW t \in DOMAIN disk, NEW k \in disk'[t].items
      PROVE  /\ t <= k /\ \A u \in DOMAIN disk : t < u => k < u
             /\ t = W => k < nextWriteIdx
  <2>1. CASE k \in disk[t].items
    BY <1>1, <2>1 DEF KeyInv
  <2>2. CASE t = W /\ k \in batch.sets
    BY <1>2, <1>6, <1>7, <2>2, SMTT(30)
  <2>. QED BY <1>5, <2>1, <2>2
<1>9. KeyInv'
  <2>1. writeSegment <= nextWriteIdx /\ nextWriteIdx <= wi
    BY <1>1 DEF KeyInv
  <2>. QED BY <1>1, <1>2, <1>3, <1>7, <1>8, <2>1, SMTT(30) DEF KeyInv
<1>10. /\ W \notin todo' => disk'[W].meta = wi
       /\ disk'[W].meta = wi \/ disk'[W].meta = disk[W].meta
  BY <1>1, <1>2, <1>3, <1>4 DEF NextGroup
<1>11. disk[W].meta <= wi /\ Covers(W)
  BY <1>1 DEF IndexInv
<1>12. \A t \in DOMAIN disk : t <= wi /\ \A k \in disk'[t].items : k < wi
  <2>1. ASSUME NEW t \in DOMAIN disk PROVE t <= wi /\ \A k \in disk[t].items : k < wi
    BY <1>6, <1>11, <2>1, SMTT(30) DEF Covers
  <2>2. \A k \in batch.sets : k < wi
    BY <1>6, <1>7, SMTT(30)
  <2>. QED BY <1>5, <2>1, <2>2
<1>13. Covers(W)'
  <2>1. CASE disk'[W].meta = wi
    BY <1>1, <1>3, <1>6, <1>12, <2>1, SMTT(30) DEF Covers, NoMeta
  <2>2. CASE disk'[W].meta # wi
    <3>1. s # W /\ disk'[W] = disk[W]
      BY <1>2, <1>3, <1>4, <2>2
    <3>2. \A t \in DOMAIN disk : \A k \in disk'[t].items : k \in disk[t].items
      BY <1>3, <3>1 DEF SetsOf
    <3>. QED BY <1>1, <1>3, <1>11, <3>1, <3>2 DEF Covers
  <2>. QED BY <2>1, <2>2
<1>14. IndexInv'
  BY <1>1, <1>4, <1>6, <1>10, <1>11, <1>13, SMTT(30) DEF IndexInv, Up
<1>. QED BY <1>9, <1>14

\* Removing a segment other than the write segment keeps the order of the
\* files.
LEMMA SafeGc ==
  ASSUME SafeInv, NEW s \in touched, GcSkip(s) \/ GcSegment(s)
  PROVE  KeyInv' /\ IndexInv'
<1>1. CASE GcSkip(s)
  BY <1>1, QuietStep DEF GcSkip, durable, registry, client, Up
<1>2. CASE GcSegment(s)
  <2>1. /\ pc = "gc" /\ pc' = "gc" /\ s # writeSegment
        /\ UNCHANGED <<writeSegment, nextWriteIdx, batch, todo, wi>>
        /\ \/ disk' = Drop(disk, s) /\ segments' = segments \ {s}
           \/ UNCHANGED <<disk, segments>>
    BY <1>2 DEF GcSegment, Collectable, durable, client
  <2>2. writeSegment \in DOMAIN disk /\ DOMAIN disk = segments
    BY <2>1 DEF SafeInv, BaseInv, RegistryInv, KeyInv, Up
  <2>3. CASE disk' = Drop(disk, s) /\ segments' = segments \ {s}
    <3>1. /\ DOMAIN disk' = DOMAIN disk \ {s} /\ \A t \in DOMAIN disk' : disk'[t] = disk[t]
      BY <2>3 DEF Drop
    <3>2. writeSegment \in DOMAIN disk'
      BY <2>1, <2>2, <3>1
    <3>3. KeyInv'
      BY <2>1, <2>2, <2>3, <3>1, <3>2 DEF SafeInv, KeyInv, Up
    <3>4. IndexInv'
      BY <2>1, <2>2, <3>1, <3>2 DEF SafeInv, IndexInv, Covers, Up
    <3>. QED BY <3>3, <3>4
  <2>4. CASE UNCHANGED <<disk, segments>>
    BY <2>1, <2>4, QuietStep DEF Up
  <2>. QED BY <2>1, <2>3, <2>4
<1>. QED BY <1>1, <1>2

\* A roll, also one that fails, keeps the order of the files and the recorded
\* index.
LEMMA SafeRoll ==
  ASSUME SafeInv, SafeFaults,
         NoRoll \/ RollCreate \/ RollCreateFails \/ RollMigrate \/ RollMigrateFails \/ WalkEnds
  PROVE  KeyInv' /\ IndexInv'
<1>. DEFINE W == writeSegment
            new == nextWriteIdx
<1>0. BaseInv /\ KeyInv /\ IndexInv /\ Up
  BY DEF NoRoll, RollCreate, RollCreateFails, RollMigrate, RollMigrateFails, WalkEnds,
         Up, SafeInv
<1>1. CASE NoRoll \/ RollCreateFails \/ WalkEnds
  BY <1>1, QuietStep, ReturnFacts
     DEF NoRoll, RollCreateFails, WalkEnds, ReturnOK, durable, registry, client, Up
<1>2. /\ W \in segments /\ segments \subseteq DOMAIN disk /\ \A t \in segments : t <= W
      /\ \A t \in DOMAIN disk : t \in Int /\ \A k \in disk[t].items : k \in Int
      /\ W \in Int /\ new \in Int /\ wi \in Int /\ wi >= 0
  BY <1>0, TypesOf DEF BaseInv, RegistryInv
<1>3. CASE RollCreate
  <2>1. /\ pc = "gc" /\ pc' = "migrate" /\ new > W
        /\ UNCHANGED <<segments, writeSegment, nextWriteIdx, batch, wi>>
        /\ disk' = Put(disk, new, IF new \in DOMAIN disk THEN disk[new] ELSE Empty)
    BY <1>3 DEF RollCreate, registry, client
  <2>2. DOMAIN disk = segments /\ new \notin DOMAIN disk
    BY <1>0, <1>2, <2>1, SMTT(30) DEF KeyInv
  <2>3. /\ DOMAIN disk' = segments \cup {new} /\ disk'[new].items = {}
        /\ \A t \in segments : disk'[t] = disk[t]
    BY <2>1, <2>2 DEF Put, Empty
  <2>4. /\ disk[W].meta = wi /\ new <= wi
        /\ \A k \in disk[W].items : k < new
    BY <1>0, <2>1 DEF KeyInv, IndexInv
  <2>5. ASSUME NEW t \in segments, NEW k \in disk[t].items PROVE k < new
    <3>1. CASE t = W
      BY <2>4, <2>5, <3>1
    <3>2. CASE t # W
      <4>1. t < W
        BY <1>2, <3>2, SMTT(30)
      <4>2. k < W
        BY <1>0, <1>2, <2>2, <2>5, <4>1 DEF KeyInv
      <4>3. k \in Int
        BY <1>2, <2>2, <2>5
      <4>. QED BY <1>2, <2>1, <4>2, <4>3, SMTT(30)
    <3>. QED BY <3>1, <3>2
  <2>6. /\ W <= new /\ \A t \in segments : t < new /\ ~(new < t)
    BY <1>2, <2>1, SMTT(30)
  <2>7. KeyInv'
    <3>1. \A t \in DOMAIN disk' : \A k \in disk'[t].items :
            t <= k /\ \A u \in DOMAIN disk' : t < u => k < u
      BY <1>0, <2>2, <2>3, <2>5, SMTT(30) DEF KeyInv
    <3>. QED BY <1>0, <1>2, <2>1, <2>2, <2>3, <2>4, <2>6, <3>1, SMTT(30) DEF KeyInv, Up
  <2>8. IndexInv'
    <3>1. disk'[W].meta = wi /\ disk[W].meta # NoMeta
      BY <1>2, <2>3, <2>4, SMTT(30) DEF NoMeta
    <3>2. \A t \in segments : t <= wi /\ \A k \in disk[t].items : k < wi
      BY <1>0, <2>2, <2>4, <3>1 DEF IndexInv, Covers
    <3>3. \A t \in DOMAIN disk' : t <= wi /\ \A k \in disk'[t].items : k < wi
      BY <2>3, <2>4, <3>2, SMTT(30)
    <3>4. Covers(W)'
      BY <2>1, <2>4, <3>1, <3>3, SMTT(30) DEF Covers
    <3>. QED BY <1>2, <2>1, <3>1, <3>4, SMTT(30) DEF IndexInv, Up
  <2>. QED BY <2>7, <2>8
<1>4. CASE RollMigrate
  <2>1. /\ pc = "migrate" /\ pc' = "idle" /\ batch'.sets = {} /\ wi' = wi
        /\ nextWriteIdx' = new /\ segments' = segments \cup {new} /\ writeSegment' = new
    BY <1>4, ReturnFacts DEF RollMigrate, ReturnOK
  <2>2. /\ DOMAIN disk = segments \cup {new} /\ disk[new].items = {}
        /\ disk[W].meta = wi /\ new <= wi /\ new > W
    BY <1>0, <2>1 DEF KeyInv, IndexInv, BaseInv, RegistryInv
  <2>3. disk' = [disk EXCEPT ![new].meta = wi]
    <3>1. ReadNonNumericKeys(writeSegment) = wi /\ wi # NoMeta
      BY <1>2, <2>2, SMTT(30) DEF ReadNonNumericKeys, NoMeta
    <3>2. disk' = [disk EXCEPT ![nextWriteIdx].meta =
                     IF ReadNonNumericKeys(writeSegment) = NoMeta THEN @
                     ELSE ReadNonNumericKeys(writeSegment)]
      BY <1>4 DEF RollMigrate
    <3>. QED BY <3>1, <3>2
  <2>4. /\ DOMAIN disk' = segments' /\ \A t \in DOMAIN disk' : disk'[t].items = disk[t].items
        /\ disk'[new].meta = wi
    <3>1. disk[new] \in Bucket
      BY <1>0, <2>2, TypesOf
    <3>. QED BY <2>1, <2>2, <2>3, <3>1 DEF Bucket
  <2>5. \A t \in DOMAIN disk : t <= wi /\ \A k \in disk[t].items : k < wi
    BY <1>0, <1>2, <2>2, SMTT(30) DEF IndexInv, Covers, NoMeta
  <2>6. KeyInv'
    BY <1>0, <1>2, <2>1, <2>2, <2>4, SMTT(30) DEF KeyInv
  <2>7. IndexInv'
    BY <1>2, <2>1, <2>2, <2>4, <2>5, SMTT(30) DEF IndexInv, Covers, Up, NoMeta
  <2>. QED BY <2>6, <2>7
<1>5. CASE RollMigrateFails
  <2>1. /\ pc = "migrate" /\ pc' = "idle" /\ batch'.sets = {} /\ wi' = wi
        /\ UNCHANGED <<segments, writeSegment, nextWriteIdx>>
        /\ disk' = Drop(disk, new)
    BY <1>5, ReturnFacts DEF RollMigrateFails, ReturnOK, registry, SafeFaults
  <2>2. DOMAIN disk = segments \cup {new} /\ new \notin segments
    BY <1>0, <2>1 DEF KeyInv
  <2>3. DOMAIN disk' = segments /\ \A t \in segments : disk'[t] = disk[t]
    BY <2>1, <2>2 DEF Drop
  <2>4. KeyInv'
    BY <1>0, <1>2, <2>1, <2>3, SMTT(30) DEF KeyInv
  <2>5. IndexInv'
    BY <1>0, <1>2, <2>1, <2>3 DEF IndexInv, Covers, Up
  <2>. QED BY <2>4, <2>5
<1>. QED BY <1>1, <1>3, <1>4, <1>5

\* There are no files at first.
LEMMA SafeInit == Init => SafeInv
<1>. SUFFICES ASSUME Init PROVE SafeInv
  OBVIOUS
<1>1. BaseInv
  BY BaseInit
<1>2. DOMAIN disk = {} /\ pc = "down" /\ batch.sets = {}
  BY DEF Init, NoBatch
<1>3. KeyInv /\ IndexInv
  BY <1>2 DEF KeyInv, IndexInv, Up
<1>. QED BY <1>1, <1>3 DEF SafeInv

\* Every step under the safe faults keeps items where reads look for them, and
\* below the index.
LEMMA SafeStep ==
  ASSUME SafeFaults, SafeInv, [Next]_vars
  PROVE  SafeInv'
<1>1. BaseInv'
  BY BaseStep DEF SafeInv
<1>2. KeyInv' /\ IndexInv'
  <2>1. CASE UNCHANGED vars
    <3>1. UNCHANGED <<disk, segments, writeSegment, nextWriteIdx, pc, batch, todo, wi>>
      BY <2>1, SMTT(30) DEF vars, durable, registry, call, client
    <3>2. KeyInv'
      BY <3>1, SMTT(30) DEF SafeInv, KeyInv, Up
    <3>3. IndexInv'
      BY <3>1 DEF SafeInv, IndexInv, Covers, Up
    <3>. QED BY <3>2, <3>3, SMTT(30)
  <2>2. ASSUME NEW s \in todo, ExecFails(s) \/ WalkSegment(s) \/ WalkFails(s)
        PROVE  KeyInv' /\ IndexInv'
    <3>1. CASE ExecFails(s) \/ WalkFails(s)
      <4>1. /\ UNCHANGED <<disk, segments, writeSegment, nextWriteIdx, wi>>
            /\ pc \in {"exec", "walk"} /\ Return
        BY <3>1 DEF ExecFails, WalkFails, SafeFaults, durable, client
      <4>2. pc = "exec" => "bare" \notin Faults
        BY <3>1 DEF ExecFails, WalkFails, EnsureOpenFails, SafeFaults
      <4>. QED BY <4>1, <4>2, ReturnFacts, QuietStep, SMTT(30) DEF Up
    <3>2. CASE WalkSegment(s)
      BY <3>2, QuietStep DEF WalkSegment, durable, client, Up
    <3>. QED BY <2>2, <3>1, <3>2, SMTT(30)
  <2>. QED BY <2>1, <2>2, SafeStart, SafeStop, SafeCall, SafeExec, SafeGc, SafeRoll, SMTT(30) DEF Next
<1>. QED BY <1>1, <1>2 DEF SafeInv

\* The file that an item lies in is the one that routeRead picks.
LEMMA Routable == SafeInv => ItemsRoutable
<1>. SUFFICES ASSUME SafeInv, Up, NEW s \in segments, NEW k \in disk[s].items
              PROVE  RouteRead(k, s)
  BY DEF ItemsRoutable
<1>1. /\ segments \subseteq DOMAIN disk /\ s <= k
      /\ \A t \in segments : s < t => k < t
  BY DEF SafeInv, BaseInv, RegistryInv, KeyInv
<1>2. k \in Int /\ \A t \in segments : t \in Int
  BY <1>1, TypesOf DEF SafeInv
<1>3. \A t \in segments : t <= k => t <= s
  BY <1>1, <1>2, SMTT(30)
<1>. QED BY <1>1, <1>3 DEF RouteRead

\* Without the faults that SafeFaults excludes, every stored item lies in the
\* segment that routeRead picks for it, for any number of rolls, collections,
\* failures and restarts.
THEOREM ItemsStayRoutable == SafeFaults => (Spec => []ItemsRoutable)
<1>. SUFFICES ASSUME SafeFaults PROVE Spec => []ItemsRoutable
  OBVIOUS
<1>1. SafeInv /\ [Next]_vars => SafeInv'
  BY SafeStep
<1>. QED BY SafeInit, Routable, <1>1, PTL DEF Spec

\* Under the same condition the write index kept in the write segment is above
\* every stored item whenever no call is in progress.
THEOREM IndexAlwaysCovers == SafeFaults => (Spec => []IndexCoversItems)
<1>. SUFFICES ASSUME SafeFaults PROVE Spec => []IndexCoversItems
  OBVIOUS
<1>1. SafeInv /\ [Next]_vars => SafeInv'
  BY SafeStep
<1>2. SafeInv => IndexCoversItems
  <2>. SUFFICES ASSUME SafeInv, pc = "idle", NEW s \in segments, NEW k \in disk[s].items
                PROVE  k < disk[writeSegment].meta
    BY DEF IndexCoversItems
  <2>1. /\ segments \subseteq DOMAIN disk /\ writeSegment \in segments /\ Covers(writeSegment)
        /\ s <= k
    BY DEF SafeInv, BaseInv, RegistryInv, IndexInv, KeyInv, Up
  <2>2. k \in Int /\ k >= 0 /\ disk[writeSegment].meta \in Int
    <3>1. disk[s].items \subseteq Items
      BY <2>1, TypesOf, SMTT(30) DEF SafeInv, Bucket
    <3>. QED BY <2>1, <3>1, TypesOf, SMTT(30) DEF SafeInv
  <2>. QED BY <2>1, <2>2, SMTT(30) DEF Covers
<1>. QED BY SafeInit, <1>1, <1>2, PTL DEF Spec

-----------------------------------------------------------------------------
(* The open list as an LRU list *)

\* No segment is listed twice.
Distinct(l) == \A i, j \in DOMAIN l : l[i] = l[j] => i = j

\* The members of T come first.
Recent(l, T) == \A i, j \in DOMAIN l : i < j /\ l[j] \in T => l[i] \in T

\* Unless closing a file can fail, the list names the open files exactly.
ExactInv == Up /\ "close" \notin Faults => Distinct(openList) /\ Range(openList) \subseteq open

\* Distinct elements occur once each.
LEMMA DistinctOnce ==
  ASSUME NEW l
  PROVE  Distinct(l) <=> \A x : Once(l, x)
BY DEF Distinct, Once

\* Taking one element out of the list and putting one in front keep it an LRU
\* list.
LEMMA RemoveFirstRecent ==
  ASSUME NEW S, NEW l \in Seq(S), NEW e, NEW T, Distinct(l), Recent(l, T)
  PROVE  LET r == RemoveFirst(l, e)
         IN  r \in Seq(S) /\ Distinct(r) /\ Recent(r, T) /\ Range(r) \subseteq Range(l) \ {e}
<1>. DEFINE r == RemoveFirst(l, e)
<1>1. r \in Seq(S) /\ Range(r) \subseteq Range(l)
  BY RemoveFirstFacts
<1>2. Distinct(r) /\ e \notin Range(r)
  BY DistinctOnce, RemoveFirstOnce
<1>3. Recent(r, T)
  <2>. DEFINE I == Places(l, e)
              i == Least(I)
  <2>0. DOMAIN l = 1 .. Len(l) /\ Len(l) \in Nat
    BY LenProperties
  <2>1. CASE I = {}
    BY <2>1 DEF RemoveFirst
  <2>2. CASE I # {}
    <3>1. I \subseteq Nat /\ I \subseteq 1 .. Len(l)
      BY <2>0, SMTT(30) DEF Places
    <3>2. i \in 1 .. Len(l)
      BY <2>2, <3>1, MinIsLeast
    <3>3. r = RemoveAt(l, i)
      BY <2>2 DEF RemoveFirst
    <3>4. /\ DOMAIN r = 1 .. Len(l) - 1
          /\ \A j \in 1 .. Len(l) - 1 : r[j] = IF j < i THEN l[j] ELSE l[j + 1]
      BY <1>1, <3>2, <3>3, RemoveAtFacts, LenProperties
    <3>. HIDE DEF r, i
    <3>5. ASSUME NEW j \in DOMAIN r, NEW k \in DOMAIN r, j < k, r[k] \in T PROVE r[j] \in T
      <4>. DEFINE f(n) == IF n < i THEN n ELSE n + 1
      <4>1. /\ f(j) \in DOMAIN l /\ f(k) \in DOMAIN l /\ f(j) < f(k)
            /\ r[j] = l[f(j)] /\ r[k] = l[f(k)]
        BY <2>0, <3>2, <3>4, <3>5, SMTT(30)
      <4>. HIDE DEF f
      <4>. QED BY <3>5, <4>1 DEF Recent
    <3>. QED BY <3>5 DEF Recent
  <2>. QED BY <2>1, <2>2
<1>. QED BY <1>1, <1>2, <1>3

\* The list p is l with e put in front of it.
Fronted(p, l, e, T) == Distinct(p) /\ Recent(p, T \cup {e}) /\ Range(p) = Range(l) \cup {e}

\* Putting a segment in front of the list makes it the most recent.
LEMMA PrependRecent ==
  ASSUME NEW S, NEW l \in Seq(S), NEW e \in S, NEW T, Distinct(l), Recent(l, T), e \notin Range(l)
  PROVE  Fronted(<<e>> \o l, l, e, T)
<1>. DEFINE h == <<e>>
            r == h \o l
<1>1. h \in Seq(S) /\ Len(h) = 1 /\ h[1] = e
  BY SMTT(30)
<1>2. /\ r \in Seq(S) /\ Len(r) = Len(h) + Len(l)
      /\ \A i \in 1 .. Len(h) + Len(l) : r[i] = IF i <= Len(h) THEN h[i] ELSE l[i - Len(h)]
  BY <1>1, ConcatProperties
<1>3. DOMAIN l = 1 .. Len(l) /\ Len(l) \in Nat /\ DOMAIN r = 1 .. Len(r)
  BY <1>2, LenProperties
<1>4. Distinct(r) /\ Range(r) = Range(l) \cup {e}
  BY DistinctOnce, PrependOnce, PrependFacts
<1>. HIDE DEF r, h
<1>5. \A i \in DOMAIN r : \/ i = 1 /\ r[i] = e
                          \/ i - 1 \in DOMAIN l /\ r[i] = l[i - 1] /\ l[i - 1] # e
  BY <1>1, <1>2, <1>3, SMTT(30) DEF Range
<1>6. ASSUME NEW i \in DOMAIN r, NEW j \in DOMAIN r, i < j, r[j] \in T \cup {e}
      PROVE  r[i] \in T \cup {e}
  <2>1. j # 1 /\ i \in Int /\ j \in Int
    BY <1>3, <1>6, SMTT(30)
  <2>2. CASE i = 1
    BY <1>5, <2>1, <2>2, SMTT(30)
  <2>3. CASE i # 1
    <3>1. /\ i - 1 \in DOMAIN l /\ j - 1 \in DOMAIN l /\ i - 1 < j - 1
          /\ r[i] = l[i - 1] /\ r[j] = l[j - 1] /\ l[j - 1] # e
      BY <1>5, <1>6, <2>1, <2>3, SMTT(30)
    <3>. QED BY <1>6, <3>1 DEF Recent
  <2>. QED BY <2>2, <2>3
<1>7. Recent(r, T \cup {e})
  BY <1>6 DEF Recent
<1>. QED BY <1>4, <1>7 DEF Fronted, r, h

\* Taking the victim out.
LEMMA VictimRecent ==
  ASSUME NEW l \in Seq(Indices), NEW gone, NEW T, Distinct(l), Recent(l, T),
         gone = {} \/ \E v \in Range(l) : gone = {v}
  PROVE  LET r == RemoveFromOpenList(l, gone)
         IN  r \in Seq(Indices) /\ Distinct(r) /\ Recent(r, T) /\ Range(r) \subseteq Range(l) \ gone
<1>1. CASE gone = {}
  BY <1>1 DEF RemoveFromOpenList
<1>2. CASE gone # {}
  <2>1. PICK v \in Range(l) : gone = {v}
    BY <1>2
  <2>2. RemoveFromOpenList(l, gone) = RemoveFirst(l, v)
    BY <2>1 DEF RemoveFromOpenList
  <2>3. LET r == RemoveFirst(l, v)
        IN  r \in Seq(Indices) /\ Distinct(r) /\ Recent(r, T) /\ Range(r) \subseteq Range(l) \ {v}
    BY RemoveFirstRecent
  <2>. QED BY <2>1, <2>2, <2>3
<1>. QED BY <1>1, <1>2

\* ensureOpen makes its segment the most recently used one.
LEMMA EnsureOpenRecent ==
  ASSUME BaseInv, Up, NEW s \in segments, EnsureOpen(s), NEW T, Recent(openList, T),
         Distinct(openList), Range(openList) \subseteq open
  PROVE  /\ Distinct(openList') /\ Range(openList') \subseteq open'
         /\ Recent(openList', T \cup {s})
<1>1. openList \in Seq(Indices) /\ s \in Indices
  BY DEF BaseInv, TypeOK
<1>2. Evicted = {} \/ \E v \in Range(openList) : Evicted = {v}
  BY EvictedFacts
<1>. DEFINE a == RemoveFirst(openList, s)
            b == RemoveFromOpenList(openList, Evicted)
<1>3. a \in Seq(Indices) /\ Distinct(a) /\ Recent(a, T) /\ Range(a) \subseteq Range(openList) \ {s}
  BY <1>1, RemoveFirstRecent
<1>4. b \in Seq(Indices) /\ Distinct(b) /\ Recent(b, T) /\ Range(b) \subseteq Range(openList) \ Evicted
  BY <1>1, <1>2, VictimRecent
<1>5. \/ openList' = <<s>> \o a /\ open' = open /\ s \in open
      \/ openList' = <<s>> \o b /\ open' = (open \ Evicted) \cup {s} /\ s \notin open
  BY DEF EnsureOpen
<1>. HIDE DEF a, b
<1>6. CASE openList' = <<s>> \o a /\ open' = open /\ s \in open
  <2>1. s \notin Range(a)
    BY <1>3
  <2>2. Fronted(<<s>> \o a, a, s, T)
    BY <1>1, <1>3, <2>1, PrependRecent
  <2>. QED BY <1>3, <1>6, <2>2 DEF Fronted
<1>7. CASE openList' = <<s>> \o b /\ open' = (open \ Evicted) \cup {s} /\ s \notin open
  <2>1. s \notin Range(b)
    BY <1>4, <1>7
  <2>2. Fronted(<<s>> \o b, b, s, T)
    BY <1>1, <1>4, <2>1, PrependRecent
  <2>. QED BY <1>4, <1>7, <2>2 DEF Fronted
<1>. QED BY <1>5, <1>6, <1>7

\* A list whose first members are T, fewer than MaxOpen - 1 besides the write
\* segment, evicts none of them.
LEMMA RecentStay ==
  ASSUME BaseInv, Up, NEW T, Recent(openList, T), Distinct(openList),
         IsFiniteSet(T \ {writeSegment}), Cardinality(T \ {writeSegment}) + 1 < MaxOpen
  PROVE  Evicted \cap T = {}
<1>. DEFINE l == openList
            W == writeSegment
            I == {j \in 1 .. Len(l) : l[j] # W}
            g == Greatest(I)
<1>. SUFFICES ASSUME NEW v \in Evicted, v \in T PROVE FALSE
  OBVIOUS
<1>1. l \in Seq(Indices) /\ DOMAIN l = 1 .. Len(l) /\ Len(l) \in Nat
  BY LenProperties DEF BaseInv, TypeOK
<1>2. Len(l) >= MaxOpen /\ v \in Victim(l, W)
  BY DEF Evicted
<1>3. I # {} /\ v = l[g]
  BY <1>2 DEF Victim, LruEvictCandidate
<1>4. g \in I /\ \A j \in I : j <= g
  <2>1. I \subseteq Nat /\ \A j \in I : j <= Len(l)
    BY <1>1, SMTT(30)
  <2>. QED BY <1>1, <1>3, <2>1, MaxIsGreatest
<1>5. ASSUME NEW j \in 1 .. Len(l) PROVE l[j] \in (T \ {W}) \cup {W}
  <2>1. CASE l[j] = W
    BY <2>1
  <2>2. CASE l[j] # W
    <3>1. j \in DOMAIN l /\ g \in DOMAIN l /\ j <= g /\ j \in Int /\ g \in Int
      BY <1>1, <1>4, <2>2, SMTT(30)
    <3>2. l[j] \in T
      BY <1>3, <3>1, SMTT(30) DEF Recent
    <3>. QED BY <2>2, <3>2
  <2>. QED BY <2>1, <2>2
<1>. DEFINE A == (T \ {W}) \cup {W}
<1>6. IsFiniteSet(A) /\ Cardinality(A) = Cardinality(T \ {W}) + 1
  BY FS_AddElement
<1>7. IsFiniteSet(1 .. Len(l)) /\ Cardinality(1 .. Len(l)) = Len(l)
  BY <1>1, FS_Interval, SMTT(30)
<1>8. l \in [1 .. Len(l) -> A]
  <2>1. l \in [1 .. Len(l) -> Indices]
    BY <1>1, LenProperties
  <2>. QED BY <1>5, <2>1
<1>9. Cardinality(A) < Cardinality(1 .. Len(l))
  <2>1. Cardinality(T \ {W}) \in Nat
    BY FS_CardinalityType
  <2>. HIDE DEF A
  <2>. QED BY <1>1, <1>2, <1>6, <1>7, <2>1, MaxOpenAssumption, SMTT(30)
<1>10. \E i, j \in 1 .. Len(l) : i # j /\ l[i] = l[j]
  BY <1>6, <1>7, <1>8, <1>9, FS_PigeonHole
<1>. QED BY <1>1, <1>10 DEF Distinct

\* Nothing is open at first.
LEMMA ExactInit == Init => ExactInv
BY DEF Init, ExactInv, Up

\* The list of open segments and the open files agree, as long as nothing fails
\* to close.
LEMMA ExactStep ==
  ASSUME BaseInv, ExactInv, [Next]_vars
  PROVE  ExactInv'
<1>. SUFFICES ASSUME Up', "close" \notin Faults
              PROVE  Distinct(openList') /\ Range(openList') \subseteq open'
  BY DEF ExactInv
<1>. DEFINE Goal == Distinct(openList') /\ Range(openList') \subseteq open'
<1>0. ASSUME Up PROVE /\ Distinct(openList) /\ Range(openList) \subseteq open
                      /\ openList \in Seq(Indices) /\ Recent(openList, {})
  BY <1>0 DEF ExactInv, BaseInv, TypeOK, Recent
<1>1. ASSUME UNCHANGED <<open, openList, pc>> PROVE Goal
  BY <1>0, <1>1, SMTT(30) DEF Up
<1>2. ASSUME UNCHANGED <<open, openList>>, Up PROVE Goal
  BY <1>0, <1>2, SMTT(30)
<1>3. ASSUME StartEmpty \/ \E last \in DOMAIN disk : StartExisting(last) PROVE Goal
  <2>1. PICK x : openList' = <<x>> /\ open' = {x}
    BY <1>3 DEF StartEmpty, StartExisting
  <2>2. DOMAIN <<x>> = {1} /\ <<x>>[1] = x
    BY SMTT(30)
  <2>3. DOMAIN openList' = {1} /\ openList'[1] = x
    BY <2>1, <2>2
  <2>. QED BY <2>1, <2>3 DEF Distinct, Range
<1>4. ASSUME Close \/ Crash PROVE Goal
  BY <1>4 DEF Close, Crash, Forget, Up
<1>5. ASSUME NEW s \in todo, EnsureOpen(s), Up PROVE Goal
  <2>1. s \in segments
    BY DEF BaseInv, TypeOK
  <2>. QED BY <1>0, <1>5, <2>1, EnsureOpenRecent
<1>6. ASSUME NEW s \in todo, EnsureOpenFails(s), Up PROVE Goal
  <2>. DEFINE b == RemoveFromOpenList(openList, Evicted)
  <2>1. openList' = b /\ open' = open \ Evicted
    BY <1>6 DEF EnsureOpenFails
  <2>2. Evicted = {} \/ \E v \in Range(openList) : Evicted = {v}
    BY <1>6, EvictedFacts
  <2>3. Distinct(b) /\ Range(b) \subseteq Range(openList) \ Evicted
    BY <1>0, <1>6, <2>2, VictimRecent
  <2>. HIDE DEF b
  <2>. QED BY <1>0, <1>6, <2>1, <2>3
<1>7. ASSUME NEW s, GcSegment(s) PROVE Goal
  <2>. DEFINE a == RemoveFirst(openList, s)
  <2>1. openList' = a /\ open' = open \ {s} /\ Up
    BY <1>7 DEF GcSegment, Up
  <2>2. Distinct(a) /\ Range(a) \subseteq Range(openList) \ {s}
    BY <1>0, <2>1, RemoveFirstRecent
  <2>. HIDE DEF a
  <2>. QED BY <1>0, <2>1, <2>2
<1>8. ASSUME RollMigrate PROVE Goal
  <2>. DEFINE new == nextWriteIdx
              longer == <<new>> \o openList
              evicted == OverCapacity(longer, new)
              b == RemoveFromOpenList(longer, evicted)
  <2>1. pc = "migrate" /\ openList' = b /\ open' = (open \cup {new}) \ evicted
    BY <1>8 DEF RollMigrate
  <2>2. /\ new \in Indices /\ new > writeSegment /\ writeSegment \in Indices
        /\ \A t \in Range(openList) : t <= writeSegment
    BY <2>1 DEF BaseInv, TypeOK, RegistryInv, ListInv, Up
  <2>3. /\ Distinct(openList) /\ Range(openList) \subseteq open
        /\ openList \in Seq(Indices) /\ Recent(openList, {})
    BY <1>0, <2>1 DEF Up
  <2>4. new \notin Range(openList)
    BY <2>2, BoundsAssumption, SMTT(30) DEF Indices
  <2>5. Fronted(longer, openList, new, {})
    BY <2>2, <2>3, <2>4, PrependRecent
  <2>6. longer \in Seq(Indices)
    BY <2>2, <2>3, PrependFacts
  <2>. HIDE DEF longer
  <2>7. Distinct(longer) /\ Range(longer) = Range(openList) \cup {new} /\ Recent(longer, {})
    BY <2>5 DEF Fronted, Recent
  <2>8. evicted = {} \/ \E v \in Range(longer) : evicted = {v}
    BY <2>6, VictimFacts DEF OverCapacity
  <2>. HIDE DEF evicted
  <2>9. Distinct(b) /\ Range(b) \subseteq Range(longer) \ evicted
    BY <2>6, <2>7, <2>8, VictimRecent
  <2>. HIDE DEF b
  <2>. QED BY <2>1, <2>3, <2>7, <2>9
<1>9. ASSUME UNCHANGED vars PROVE Goal
  BY <1>1, <1>9 DEF vars, registry, call
<1>10. ASSUME \/ Offer \/ Walk \/ WalkEnds \/ NoRoll \/ RollCreate \/ RollCreateFails
              \/ RollMigrateFails
       PROVE  Goal
  BY <1>2, <1>10 DEF Offer, Walk, WalkEnds, NoRoll, RollCreate, RollCreateFails,
     RollMigrateFails, BatchLocked, registry, Up
<1>11. ASSUME NEW K, NEW m, Read(K, m) \/ Ack(K, m) \/ WalkApply(K) PROVE Goal
  BY <1>2, <1>11 DEF Read, Ack, WalkApply, BatchLocked, Up
<1>12. ASSUME NEW s \in todo, ExecGroup(s) \/ ExecFails(s) \/ WalkSegment(s) \/ WalkFails(s)
       PROVE  Goal
  BY <1>5, <1>6, <1>12 DEF ExecGroup, ExecFails, WalkSegment, WalkFails, Up
<1>13. ASSUME NEW s, GcSkip(s) PROVE Goal
  BY <1>2, <1>13 DEF GcSkip, registry, Up
<1>. HIDE DEF Goal
<1>14. Goal
  BY <1>3, <1>4, <1>7, <1>8, <1>9, <1>10, <1>11, <1>12, <1>13 DEF Next
<1>. QED BY <1>14 DEF Goal

-----------------------------------------------------------------------------
(* Batches that touch fewer segments than may be open *)

\* How many segments a batch can reach: one, or, when closing a file cannot
\* fail, fewer than max_open_segments.
FewKeys == MaxKeys = 1 \/ (MaxKeys < MaxOpen /\ "close" \notin Faults)

\* The segments that the batch in progress has used are still open, the most
\* recently used ones of the list.
CollectInv ==
  /\ pc = "exec" => /\ touched \cap todo = {}
                    /\ Cardinality((touched \cup todo) \ {writeSegment}) <= MaxKeys
                    /\ "close" \notin Faults => Recent(openList, touched)
  /\ pc \in {"exec", "gc"} => touched \ {writeSegment} \subseteq open

\* What was promised is stored, a batch does not delete what was promised or is
\* being offered, and an offer whose transaction is over is stored.
LiveInv ==
  /\ \A k \in live : \E s \in DOMAIN disk : k \in disk[s].items
  /\ batch.dels \cap (live \cup batch.sets) = {}
  /\ pc \in {"gc", "migrate"} \/ (pc = "exec" /\ writeSegment \notin todo)
       => batch.sets \subseteq disk[writeSegment].items

\* What NoItemLost and GcOnlyEmpty follow from.
FullInv == SafeInv /\ ExactInv /\ CollectInv /\ LiveInv

\* Sets of segments can be counted.
LEMMA IndicesFinite ==
  ASSUME NEW S, S \subseteq Indices
  PROVE  IsFiniteSet(S) /\ Cardinality(S) \in Nat
<1>1. IsFiniteSet(Indices)
  BY FS_Interval, BoundsAssumption, SMTT(30) DEF Indices
<1>. QED BY <1>1, FS_Subset, FS_CardinalityType

\* routeRead picks one segment.
LEMMA RouteUnique ==
  ASSUME BaseInv, NEW k \in Items, NEW s, NEW t, RouteRead(k, s), RouteRead(k, t)
  PROVE  s = t
<1>1. s \in segments /\ t \in segments /\ s \in Int /\ t \in Int /\ k \in Int
  BY TypesOf, SMTT(30) DEF RouteRead
<1>. QED BY <1>1, SMTT(30) DEF RouteRead

\* A batch has at most one group per key besides the write segment's.
LEMMA FewTargets ==
  ASSUME BaseInv, NEW K \in SUBSET Items, Cardinality(K) <= MaxKeys,
         NEW b, b.gets \cup b.dels = K
  PROVE  Cardinality(Targets(b) \ {writeSegment}) <= MaxKeys
<1>. DEFINE T == Targets(b) \ {writeSegment}
            J == {k \in K : \E s \in T : RouteRead(k, s)}
            f == [k \in J |-> CHOOSE s \in T : RouteRead(k, s)]
<1>1. \A s \in T : \E k \in K : RouteRead(k, s)
  BY DEF Targets
<1>2. \A k \in J : f[k] \in T /\ RouteRead(k, f[k])
  OBVIOUS
<1>3. \A s \in T : \E k \in J : f[k] = s
  <2>. SUFFICES ASSUME NEW s \in T PROVE \E k \in J : f[k] = s
    OBVIOUS
  <2>1. PICK k \in K : RouteRead(k, s)
    BY <1>1
  <2>2. k \in J /\ k \in Items
    BY <2>1
  <2>3. RouteRead(k, f[k])
    BY <1>2, <2>2
  <2>. HIDE DEF f, J, T
  <2>. QED BY <2>1, <2>2, <2>3, RouteUnique
<1>4. f \in [J -> T]
  BY <1>2
<1>. HIDE DEF f, T
<1>5. f \in Surjection(J, T)
  BY <1>3, <1>4 DEF Surjection
<1>6. IsFiniteSet(K) /\ Cardinality(K) \in Nat /\ J \in SUBSET K
  BY ItemsFinite
<1>. HIDE DEF J
<1>7. IsFiniteSet(J) /\ Cardinality(J) <= Cardinality(K)
  BY <1>6, FS_Subset
<1>8. Cardinality(T) <= Cardinality(J) /\ IsFiniteSet(T)
  BY <1>5, <1>7, FS_Surjection
<1>9. Cardinality(T) \in Nat /\ Cardinality(J) \in Nat
  BY <1>7, <1>8, FS_CardinalityType
<1>10. Cardinality(T) <= MaxKeys
  BY <1>6, <1>7, <1>8, <1>9, BoundsAssumption, SMTT(30)
<1>. QED BY <1>10 DEF T

\* ensureOpen closes none of the segments that the batch has used before.
LEMMA TouchedStay ==
  ASSUME FewKeys, BaseInv, ExactInv, CollectInv, NEW s \in todo, pc = "exec", EnsureOpen(s)
  PROVE  (touched \cup {s}) \ {writeSegment} \subseteq open'
<1>. DEFINE W == writeSegment
            A == (touched \cup todo) \ {W}
            B == touched \ {W}
<1>1. /\ touched \cap todo = {} /\ Cardinality(A) <= MaxKeys /\ B \subseteq open
      /\ "close" \notin Faults => Recent(openList, touched)
  BY DEF CollectInv
<1>2. /\ A \subseteq Indices /\ B \subseteq Indices /\ Up /\ s \in segments
  BY DEF BaseInv, TypeOK, Up
<1>3. s \in open'
  BY <1>2, EnsureOpenFacts
<1>4. CASE open \subseteq open'
  BY <1>1, <1>3, <1>4
<1>5. CASE ~(open \subseteq open')
  <2>1. s \notin open /\ open' = (open \ Evicted) \cup {s}
    BY <1>5 DEF EnsureOpen
  <2>2. s \in A /\ B \subseteq A \ {s}
    <3>1. W \in open
      BY <1>2 DEF BaseInv, ListInv
    <3>. QED BY <1>1, <2>1, <3>1
  <2>3. IsFiniteSet(A) /\ IsFiniteSet(B) /\ Cardinality(A) \in Nat /\ Cardinality(B) \in Nat
    BY <1>2, IndicesFinite
  <2>. HIDE DEF A, B
  <2>4. IsFiniteSet(A \ {s}) /\ Cardinality(A \ {s}) = Cardinality(A) - 1
    BY <2>2, <2>3, FS_RemoveElement
  <2>5. Cardinality(B) <= Cardinality(A \ {s})
    BY <2>2, <2>4, FS_Subset
  <2>6. Cardinality(B) + 1 <= MaxKeys
    BY <1>1, <2>3, <2>4, <2>5, BoundsAssumption, SMTT(30)
  <2>7. Evicted \cap B = {}
    <3>1. CASE MaxKeys = 1
      <4>1. Cardinality(B) = 0
        BY <2>3, <2>6, <3>1, SMTT(30)
      <4>2. B = {}
        BY <2>3, <4>1, FS_EmptySet
      <4>. QED BY <4>2
    <3>2. CASE MaxKeys < MaxOpen /\ "close" \notin Faults
      <4>1. Cardinality(B) + 1 < MaxOpen
        BY <2>3, <2>6, <3>2, MaxOpenAssumption, BoundsAssumption, SMTT(30)
      <4>2. Recent(openList, touched) /\ Distinct(openList)
        BY <1>1, <1>2, <3>2 DEF ExactInv
      <4>3. Evicted \cap touched = {}
        BY <1>2, <2>3, <4>1, <4>2, RecentStay DEF B
      <4>. QED BY <4>3 DEF B
    <3>. QED BY <3>1, <3>2 DEF FewKeys
  <2>. QED BY <1>1, <1>3, <2>1, <2>7 DEF B
<1>. QED BY <1>4, <1>5

\* The segments that the batch in progress has used stay open, so that the
\* collection loop can look into them.
LEMMA CollectStep ==
  ASSUME FewKeys, BaseInv, ExactInv, CollectInv, [Next]_vars
  PROVE  CollectInv'
<1>. DEFINE W == writeSegment
<1>0. wi \in Indices /\ Cardinality({}) = 0 /\ 0 <= MaxKeys
  BY FS_EmptySet, BoundsAssumption, SMTT(30) DEF BaseInv, TypeOK
<1>1. CASE pc' \notin {"exec", "gc"}
  BY <1>1 DEF CollectInv
<1>2. ASSUME NEW b, BatchLocked(b), Cardinality(Targets(b) \ {W}) <= MaxKeys PROVE CollectInv'
  <2>1. /\ pc' = "exec" /\ todo' = Targets(b) /\ touched' = {} /\ writeSegment' = W
    BY <1>2 DEF BatchLocked
  <2>2. (touched' \cup todo') \ {W} = Targets(b) \ {W}
    BY <2>1
  <2>3. Recent(openList', touched')
    BY <2>1 DEF Recent
  <2>. QED BY <1>2, <2>1, <2>2, <2>3 DEF CollectInv
<1>3. CASE Offer
  <2>. DEFINE b == [NoBatch EXCEPT !.sets = {wi}, !.meta = TRUE]
  <2>1. b.gets = {} /\ b.dels = {} /\ BatchLocked(b)
    BY <1>3 DEF NoBatch, Offer
  <2>. HIDE DEF b
  <2>2. Targets(b) \ {W} = {}
    BY <2>1 DEF Targets
  <2>. QED BY <1>0, <1>2, <2>1, <2>2
<1>4. ASSUME NEW K \in SUBSET Items, Cardinality(K) <= MaxKeys,
             NEW b, b.gets \cup b.dels = K, BatchLocked(b)
      PROVE  CollectInv'
  BY <1>2, <1>4, FewTargets
<1>5. ASSUME NEW K \in KeySets(0 .. wi - 1), NEW m \in WithMeta, Read(K, m) \/ Ack(K, m)
      PROVE  CollectInv'
  <2>. DEFINE r == [NoBatch EXCEPT !.gets = K, !.meta = m]
              d == [NoBatch EXCEPT !.dels = K, !.meta = m]
  <2>1. r.gets \cup r.dels = K /\ d.gets \cup d.dels = K
    BY DEF NoBatch
  <2>2. BatchLocked(r) \/ BatchLocked(d)
    BY <1>5 DEF Read, Ack
  <2>. HIDE DEF r, d
  <2>3. K \in SUBSET Items /\ Cardinality(K) <= MaxKeys
    <3>1. 0 .. wi - 1 \subseteq Items
      BY <1>0, BoundsAssumption, SMTT(30) DEF Items, Indices
    <3>. QED BY <3>1 DEF KeySets
  <2>. QED BY <1>4, <2>1, <2>2, <2>3
<1>6. ASSUME NEW K \in KeySets(Items), WalkApply(K) PROVE CollectInv'
  <2>. DEFINE d == [NoBatch EXCEPT !.dels = K]
  <2>1. d.gets \cup d.dels = K
    BY DEF NoBatch
  <2>2. BatchLocked(d) /\ K \in SUBSET Items /\ Cardinality(K) <= MaxKeys
    BY <1>6 DEF WalkApply, KeySets
  <2>. HIDE DEF d
  <2>. QED BY <1>4, <2>1, <2>2
<1>7. ASSUME NEW s \in todo, ExecGroup(s) PROVE CollectInv'
  <2>1. /\ pc = "exec" /\ EnsureOpen(s) /\ writeSegment' = W
        /\ todo' = todo \ {s} /\ touched' = touched \cup {s} /\ s \in segments /\ Up
    BY <1>7 DEF ExecGroup, BaseInv, TypeOK, Up
  <2>2. touched' \ {W} \subseteq open'
    BY <2>1, TouchedStay
  <2>3. /\ touched \cap todo = {} /\ Cardinality((touched \cup todo) \ {W}) <= MaxKeys
        /\ "close" \notin Faults => Recent(openList, touched)
    BY <2>1 DEF CollectInv
  <2>4. touched' \cap todo' = {} /\ (touched' \cup todo') \ {W} = (touched \cup todo) \ {W}
    BY <2>1, <2>3
  <2>5. "close" \notin Faults => Recent(openList', touched')
    BY <2>1, <2>3, EnsureOpenRecent DEF ExactInv
  <2>. QED BY <2>1, <2>2, <2>3, <2>4, <2>5 DEF CollectInv
<1>8. ASSUME NEW s \in touched, GcSkip(s) \/ GcSegment(s) PROVE CollectInv'
  <2>1. /\ pc = "gc" /\ pc' = "gc" /\ touched' = touched \ {s} /\ writeSegment' = writeSegment
        /\ open' = open \/ open' = open \ {s}
    BY <1>8 DEF GcSkip, GcSegment, registry
  <2>. QED BY <2>1 DEF CollectInv
<1>9. CASE UNCHANGED vars
  <2>1. UNCHANGED <<pc, touched, todo, writeSegment, open, openList>>
    BY <1>9 DEF vars, registry, call
  <2>. QED BY <2>1, SMTT(30) DEF CollectInv, Recent
<1>10. ASSUME pc' \in {"exec", "gc"}, Next
       PROVE  \/ Offer
              \/ \E K \in KeySets(0 .. wi - 1), m \in WithMeta : Read(K, m) \/ Ack(K, m)
              \/ \E K \in KeySets(Items) : WalkApply(K)
              \/ \E s \in todo : ExecGroup(s)
              \/ \E s \in touched : GcSkip(s) \/ GcSegment(s)
  BY <1>10
     DEF Next, StartEmpty, StartExisting, Close, Crash, Forget, ExecFails, WalkFails,
         WalkSegment, NoRoll, RollCreate, RollCreateFails, RollMigrate, RollMigrateFails,
         Walk, WalkEnds, ReturnOK, Return
<1>. QED BY <1>1, <1>3, <1>5, <1>6, <1>7, <1>8, <1>9, <1>10

\* A collected segment was still open, so it was scanned and found empty.
LEMMA CollectedIsEmpty ==
  ASSUME CollectInv, NEW s \in touched, GcSegment(s)
  PROVE  disk[s].items = {}
BY DEF CollectInv, GcSegment, Collectable, IsEmpty

\* Steps that keep every item in a file and do not add to what must be kept.
LEMMA LiveQuiet ==
  ASSUME LiveInv, batch'.dels = {}, batch'.sets = {},
         \A s \in DOMAIN disk : disk[s].items # {} =>
           s \in DOMAIN disk' /\ disk'[s].items = disk[s].items,
         \/ live' \subseteq live
         \/ /\ live' = live \cup batch.sets /\ pc \in {"gc", "migrate"}
            /\ writeSegment \in DOMAIN disk
  PROVE  LiveInv'
<1>1. \A k \in live : \E s \in DOMAIN disk' : k \in disk'[s].items
  BY DEF LiveInv
<1>2. \A k \in live' : \E s \in DOMAIN disk' : k \in disk'[s].items
  BY <1>1 DEF LiveInv
<1>. QED BY <1>2 DEF LiveInv

\* What the queue was promised stays stored.
LEMMA LiveStep ==
  ASSUME SafeFaults, FullInv, [Next]_vars
  PROVE  LiveInv'
<1>0. /\ BaseInv /\ SafeInv /\ CollectInv /\ LiveInv /\ KeyInv
      /\ Up => writeSegment \in DOMAIN disk
  BY DEF FullInv, SafeInv, BaseInv, RegistryInv
<1>1. ASSUME StartEmpty \/ \E last \in DOMAIN disk : StartExisting(last) PROVE LiveInv'
  <2>1. batch' = NoBatch /\ live' = live /\ (DOMAIN disk # {} => disk' = disk)
    BY <1>0, <1>1, SMTT(30) DEF StartEmpty, StartExisting, durable, BaseInv, RegistryInv, Up
  <2>2. batch'.dels = {} /\ batch'.sets = {} /\ live' \subseteq live
    BY <2>1 DEF NoBatch
  <2>3. \A s \in DOMAIN disk : s \in DOMAIN disk' /\ disk'[s].items = disk[s].items
    BY <2>1
  <2>. QED BY <1>0, <2>2, <2>3, LiveQuiet, SMTT(30)
<1>2. ASSUME Close \/ Crash PROVE LiveInv'
  <2>1. batch' = NoBatch /\ live' = live /\ disk' = disk
    BY <1>2, SMTT(30) DEF Close, Crash, Forget, durable, client
  <2>. QED BY <1>0, <2>1, LiveQuiet, SMTT(30) DEF NoBatch
<1>3. ASSUME Offer PROVE LiveInv'
  <2>. DEFINE b == [NoBatch EXCEPT !.sets = {wi}, !.meta = TRUE]
  <2>1. b.dels = {} /\ b.meta
    BY DEF NoBatch
  <2>2. /\ pc' = "exec" /\ batch' = b /\ todo' = Targets(b) /\ disk' = disk /\ live' = live
        /\ writeSegment' = writeSegment
    BY <1>3 DEF Offer, BatchLocked, durable
  <2>3. writeSegment' \in todo'
    BY <2>1, <2>2, SMTT(30) DEF Targets
  <2>. QED BY <1>0, <2>1, <2>2, <2>3 DEF LiveInv
<1>4. ASSUME NEW K, NEW m \in WithMeta, Read(K, m) \/ Ack(K, m) PROVE LiveInv'
  <2>. DEFINE r == [NoBatch EXCEPT !.gets = K, !.meta = m]
              d == [NoBatch EXCEPT !.dels = K, !.meta = m]
  <2>1. r.sets = {} /\ r.dels = {} /\ d.sets = {} /\ d.dels = K
    BY DEF NoBatch
  <2>2. /\ disk' = disk
        /\ \/ batch' = r /\ live' = live
           \/ batch' = d /\ live' = live \ K
    BY <1>4 DEF Read, Ack, BatchLocked, durable, client
  <2>. HIDE DEF r, d
  <2>. QED BY <1>0, <2>1, <2>2, SMTT(30) DEF LiveInv
<1>5. ASSUME NEW s \in todo, ExecGroup(s) PROVE LiveInv'
  <2>1. /\ pc = "exec" /\ NextGroup(s) /\ ExecBatch(s) /\ todo' = todo \ {s}
        /\ pc' = IF todo = {s} THEN "gc" ELSE "exec"
        /\ UNCHANGED <<writeSegment, batch, live>> /\ s \in DOMAIN disk /\ TypeOK
    BY <1>0, <1>5, SMTT(30) DEF ExecGroup, client, KeyInv, BaseInv, TypeOK, Up
  <2>2. /\ DOMAIN disk' = DOMAIN disk
        /\ \A t \in DOMAIN disk : t # s => disk'[t] = disk[t]
        /\ disk'[s].items = (disk[s].items \cup SetsOf(s)) \ DelsOf(s)
    BY <2>1, ExecBatchFacts, SMTT(30)
  <2>3. DelsOf(s) \subseteq batch.dels /\ SetsOf(s) \subseteq batch.sets
    BY DEF DelsOf, SetsOf
  <2>4. batch.dels \cap (live \cup batch.sets) = {}
    BY <1>0, SMTT(30) DEF LiveInv
  <2>5. \A k \in live' : \E t \in DOMAIN disk' : k \in disk'[t].items
    BY <1>0, <2>1, <2>2, <2>3, <2>4, SMTT(30) DEF LiveInv
  <2>6. CASE s = writeSegment
    <3>1. batch.sets \subseteq disk'[writeSegment].items
      BY <2>2, <2>4, <2>6, <2>3, SMTT(30) DEF SetsOf
    <3>. QED BY <2>1, <2>4, <2>5, <3>1, SMTT(30) DEF LiveInv
  <2>7. CASE s # writeSegment
    <3>1. writeSegment \notin todo /\ disk'[writeSegment] = disk[writeSegment]
      BY <1>0, <2>1, <2>2, <2>7 DEF NextGroup, Up
    <3>2. batch.sets \subseteq disk[writeSegment].items
      BY <1>0, <2>1, <3>1, SMTT(30) DEF LiveInv
    <3>. QED BY <2>1, <2>4, <2>5, <3>1, <3>2, SMTT(30) DEF LiveInv
  <2>. QED BY <2>6, <2>7, SMTT(30)
<1>6. ASSUME NEW s \in todo, ExecFails(s) \/ WalkFails(s) PROVE LiveInv'
  <2>1. batch' = NoBatch /\ live' = live /\ disk' = disk
    BY <1>6 DEF ExecFails, WalkFails, Return, durable, client
  <2>. QED BY <1>0, <2>1, LiveQuiet, SMTT(30) DEF NoBatch
<1>7. ASSUME NEW s \in todo, WalkSegment(s) PROVE LiveInv'
  <2>1. UNCHANGED <<disk, writeSegment, pc, batch, live>> /\ pc = "walk"
    BY <1>7 DEF WalkSegment, durable, client
  <2>. QED BY <1>0, <2>1, SMTT(30) DEF LiveInv
<1>8. ASSUME NEW s \in touched, GcSkip(s) \/ GcSegment(s) PROVE LiveInv'
  <2>1. CASE GcSkip(s)
    BY <1>0, <2>1, SMTT(30) DEF GcSkip, durable, registry, client, LiveInv
  <2>2. CASE GcSegment(s)
    <3>1. /\ UNCHANGED <<writeSegment, pc, batch, todo, live>> /\ pc = "gc" /\ s # writeSegment
          /\ disk' = Drop(disk, s) \/ disk' = disk
      BY <2>2 DEF GcSegment, Collectable, durable, client
    <3>2. disk[s].items = {}
      BY <1>0, <2>2, CollectedIsEmpty, SMTT(30)
    <3>3. \A t \in DOMAIN disk : t # s => t \in DOMAIN disk' /\ disk'[t] = disk[t]
      BY <3>1 DEF Drop
    <3>4. \A k \in live : \E t \in DOMAIN disk' : k \in disk'[t].items
      BY <1>0, <3>2, <3>3 DEF LiveInv
    <3>5. disk'[writeSegment] = disk[writeSegment]
      BY <1>0, <3>1, <3>3, SMTT(30) DEF Up
    <3>. QED BY <1>0, <3>1, <3>4, <3>5, SMTT(30) DEF LiveInv
  <2>. QED BY <1>8, <2>1, <2>2, SMTT(30)
<1>9. ASSUME NoRoll \/ RollCreateFails \/ WalkEnds PROVE LiveInv'
  <2>1. /\ batch' = NoBatch /\ disk' = disk /\ Up
        /\ live' = live \/ (live' = live \cup batch.sets /\ pc = "gc")
    BY <1>9 DEF NoRoll, RollCreateFails, WalkEnds, ReturnOK, Return, durable, client, Up
  <2>. QED BY <1>0, <2>1, LiveQuiet, SMTT(30) DEF NoBatch
<1>10. ASSUME RollCreate PROVE LiveInv'
  <2>1. /\ UNCHANGED <<writeSegment, batch, todo, live>> /\ pc = "gc" /\ pc' = "migrate" /\ Up
        /\ \A t \in DOMAIN disk : t \in DOMAIN disk' /\ disk'[t] = disk[t]
    BY <1>10 DEF RollCreate, Put, registry, client, Up
  <2>2. disk'[writeSegment] = disk[writeSegment]
    BY <1>0, <2>1
  <2>. QED BY <1>0, <2>1, <2>2, SMTT(30) DEF LiveInv
<1>11. ASSUME RollMigrate PROVE LiveInv'
  <2>1. /\ batch' = NoBatch /\ pc = "migrate" /\ Up /\ live' = live \cup batch.sets
        /\ nextWriteIdx \in DOMAIN disk
    BY <1>0, <1>11 DEF RollMigrate, ReturnOK, Return, Up, BaseInv, RegistryInv
  <2>2. disk[nextWriteIdx] \in Bucket
    BY <1>0, <2>1, TypesOf
  <2>3. DOMAIN disk' = DOMAIN disk /\ \A t \in DOMAIN disk : disk'[t].items = disk[t].items
    BY <1>11, <2>1, <2>2 DEF RollMigrate, Bucket
  <2>. QED BY <1>0, <2>1, <2>3, LiveQuiet, SMTT(30) DEF NoBatch
<1>12. ASSUME RollMigrateFails PROVE LiveInv'
  <2>1. /\ batch' = NoBatch /\ pc = "migrate" /\ Up /\ live' = live \cup batch.sets
        /\ disk' = Drop(disk, nextWriteIdx) /\ disk[nextWriteIdx].items = {}
    BY <1>0, <1>12 DEF RollMigrateFails, ReturnOK, Return, Up, KeyInv, SafeFaults
  <2>. QED BY <1>0, <2>1, LiveQuiet DEF NoBatch, Drop
<1>13. ASSUME Walk PROVE LiveInv'
  <2>1. UNCHANGED <<disk, batch, live>> /\ batch = NoBatch
    BY <1>0, <1>13 DEF Walk, durable, client, BaseInv, RegistryInv
  <2>. QED BY <1>0, <2>1, LiveQuiet DEF NoBatch
<1>14. ASSUME NEW K, WalkApply(K) PROVE LiveInv'
  <2>. DEFINE d == [NoBatch EXCEPT !.dels = K]
  <2>1. d.sets = {} /\ d.dels = K
    BY DEF NoBatch
  <2>2. disk' = disk /\ batch' = d /\ live' = live \ K
    BY <1>14 DEF WalkApply, BatchLocked, durable
  <2>. HIDE DEF d
  <2>. QED BY <1>0, <2>1, <2>2, SMTT(30) DEF LiveInv
<1>15. CASE UNCHANGED vars
  <2>1. UNCHANGED <<disk, writeSegment, pc, batch, todo, live>>
    BY <1>15 DEF vars, durable, registry, call, client
  <2>. QED BY <1>0, <2>1 DEF LiveInv
<1>. QED BY <1>1, <1>2, <1>3, <1>4, <1>5, <1>6, <1>7, <1>8, <1>9, <1>10, <1>11, <1>12,
            <1>13, <1>14, <1>15, ZenonT(40) DEF Next

\* Every step keeps the invariant behind NoItemLost and GcOnlyEmpty.
LEMMA FullStep ==
  ASSUME SafeFaults, FewKeys, FullInv, [Next]_vars
  PROVE  FullInv'
<1>1. SafeInv' /\ LiveInv'
  BY SafeStep, LiveStep DEF FullInv
<1>2. ExactInv' /\ CollectInv'
  BY ExactStep, CollectStep DEF FullInv, SafeInv
<1>. QED BY <1>1, <1>2 DEF FullInv

\* Nothing is promised at first.
LEMMA FullInit == Init => FullInv
<1>. SUFFICES ASSUME Init PROVE FullInv
  OBVIOUS
<1>1. DOMAIN disk = {} /\ pc = "down" /\ batch.sets = {} /\ batch.dels = {} /\ live = {}
  BY DEF Init, NoBatch
<1>2. CollectInv /\ LiveInv
  BY <1>1 DEF CollectInv, LiveInv
<1>. QED BY <1>2, SafeInit, ExactInit DEF FullInv

\* An item whose Offer returned nil can be read until it is deleted, across any
\* number of crashes, failed operations, rolls, collections and restarts, when
\* batches are as small as FewKeys says and the faults of SafeFaults are
\* excluded.
THEOREM NothingIsLost == SafeFaults /\ FewKeys => (Spec => []NoItemLost)
<1>. SUFFICES ASSUME SafeFaults, FewKeys PROVE Spec => []NoItemLost
  OBVIOUS
<1>1. FullInv /\ [Next]_vars => FullInv'
  BY FullStep
<1>2. FullInv => NoItemLost
  <2>. SUFFICES ASSUME FullInv, Up, NEW k \in live
                PROVE  \E s \in segments : RouteRead(k, s) /\ k \in disk[s].items
    BY DEF NoItemLost
  <2>1. PICK s \in DOMAIN disk : k \in disk[s].items
    BY DEF FullInv, LiveInv
  <2>2. s \in segments
    BY <2>1 DEF FullInv, SafeInv, KeyInv, Up
  <2>3. /\ segments \subseteq DOMAIN disk /\ s <= k
        /\ \A t \in segments : s < t => k < t
    BY <2>1, <2>2 DEF FullInv, SafeInv, BaseInv, RegistryInv, KeyInv
  <2>4. k \in Int /\ \A t \in segments : t \in Int
    BY <2>1, TypesOf DEF FullInv, SafeInv
  <2>5. \A t \in segments : t <= k => t <= s
    BY <2>2, <2>3, <2>4, SMTT(30)
  <2>. QED BY <2>1, <2>2, <2>3, <2>5, SMTT(30) DEF RouteRead
<1>. QED BY FullInit, <1>1, <1>2, PTL DEF Spec

\* Under the same conditions a file that is removed holds no item: gcSegment's
\* scan is never skipped for a segment that a batch has just emptied or read.
THEOREM OnlyEmptyIsRemoved == SafeFaults /\ FewKeys => (Spec => GcOnlyEmpty)
<1>. SUFFICES ASSUME SafeFaults, FewKeys PROVE Spec => GcOnlyEmpty
  OBVIOUS
<1>. DEFINE A == \A s \in DOMAIN disk \ DOMAIN disk' : disk[s].items = {}
<1>1. FullInv /\ [Next]_vars => FullInv'
  BY FullStep
<1>2. FullInv /\ [Next]_vars => [A]_vars
  <2>. SUFFICES ASSUME FullInv, Next PROVE A
    OBVIOUS
  <2>1. ASSUME NEW s \in touched, GcSegment(s) PROVE A
    <3>1. disk[s].items = {}
      BY <2>1, CollectedIsEmpty DEF FullInv
    <3>2. disk' = Drop(disk, s) \/ disk' = disk
      BY <2>1 DEF GcSegment, durable
    <3>. QED BY <3>1, <3>2 DEF Drop
  <2>2. ASSUME RollMigrateFails PROVE A
    <3>1. disk[nextWriteIdx].items = {} /\ (disk' = Drop(disk, nextWriteIdx) \/ disk' = disk)
      BY <2>2 DEF FullInv, SafeInv, KeyInv, RollMigrateFails, durable
    <3>. QED BY <3>1 DEF Drop
  <2>3. ASSUME DOMAIN disk \subseteq DOMAIN disk' PROVE A
    BY <2>3
  <2>4. ASSUME NEW s \in todo, ExecGroup(s) PROVE DOMAIN disk \subseteq DOMAIN disk'
    BY <2>4 DEF ExecGroup, ExecBatch
  <2>5. StartEmpty \/ RollCreate \/ RollMigrate => DOMAIN disk \subseteq DOMAIN disk'
    BY DEF StartEmpty, RollCreate, RollMigrate, Put
  <2>6. ASSUME Close \/ Crash \/ Offer \/ NoRoll \/ RollCreateFails \/ Walk \/ WalkEnds
        PROVE  disk' = disk
    BY <2>6 DEF Close, Crash, Forget, Offer, BatchLocked, NoRoll, RollCreateFails, Walk,
                WalkEnds, durable
  <2>7. ASSUME NEW s, StartExisting(s) \/ ExecFails(s) \/ WalkSegment(s) \/ WalkFails(s)
                      \/ GcSkip(s)
        PROVE  disk' = disk
    BY <2>7 DEF StartExisting, ExecFails, WalkSegment, WalkFails, GcSkip, durable
  <2>8. ASSUME NEW K, NEW m, Read(K, m) \/ Ack(K, m) PROVE disk' = disk
    BY <2>8 DEF Read, Ack, BatchLocked, durable
  <2>9. ASSUME NEW K, WalkApply(K) PROVE disk' = disk
    BY <2>9 DEF WalkApply, BatchLocked, durable
  <2>10. ASSUME disk' = disk PROVE A
    BY <2>10
  <2>. HIDE DEF A
  <2>. QED BY <2>1, <2>2, <2>3, <2>4, <2>5, <2>6, <2>7, <2>8, <2>9, <2>10 DEF Next
<1>. QED BY FullInit, <1>1, <1>2, PTL DEF Spec, GcOnlyEmpty

-----------------------------------------------------------------------------
(* What the queue sees: the storage implements ItemStore *)

\* A batch that stores an item deletes none, and until its transaction the
\* recorded index is not above the item.
OfferInv ==
  batch.sets # {} =>
    /\ batch.dels = {} /\ wi - 1 \in batch.sets
    /\ pc = "exec" /\ writeSegment \in todo => disk[writeSegment].meta < wi

\* No batch is in progress at first.
LEMMA OfferInit == Init => OfferInv
BY SMTT(30) DEF Init, NoBatch, OfferInv

\* A batch that stores an item deletes none, and meets an older index in the
\* write segment.
LEMMA OfferStep ==
  ASSUME SafeFaults, SafeInv, OfferInv, [Next]_vars
  PROVE  OfferInv'
<1>1. ASSUME batch'.sets = {} PROVE OfferInv'
  BY <1>1 DEF OfferInv
<1>2. ASSUME batch' = batch, wi' = wi, pc' # "exec" PROVE OfferInv'
  BY <1>2 DEF OfferInv
<1>3. CASE Offer
  <2>. DEFINE b == [NoBatch EXCEPT !.sets = {wi}, !.meta = TRUE]
  <2>1. /\ b.sets = {wi} /\ b.dels = {} /\ batch' = b /\ wi' = wi + 1
        /\ disk' = disk /\ writeSegment' = writeSegment /\ Up
    BY <1>3 DEF Offer, BatchLocked, durable, NoBatch, Up
  <2>2. /\ wi \in Int /\ disk[writeSegment].meta \in Int /\ disk[writeSegment].meta <= wi
    BY <2>1, TypesOf DEF SafeInv, IndexInv, BaseInv, RegistryInv
  <2>. HIDE DEF b
  <2>3. wi' - 1 \in batch'.sets /\ batch'.dels = {} /\ disk'[writeSegment'].meta < wi'
    BY <2>1, <2>2, SMTT(30)
  <2>. QED BY <2>3 DEF OfferInv
<1>4. ASSUME NEW K, NEW m, Read(K, m) \/ Ack(K, m) PROVE batch'.sets = {}
  <2>1. \/ batch' = [NoBatch EXCEPT !.gets = K, !.meta = m]
        \/ batch' = [NoBatch EXCEPT !.dels = K, !.meta = m]
    BY <1>4 DEF Read, Ack, BatchLocked
  <2>. QED BY <2>1 DEF NoBatch
<1>5. ASSUME NEW K, WalkApply(K) PROVE batch'.sets = {}
  <2>1. batch' = [NoBatch EXCEPT !.dels = K]
    BY <1>5 DEF WalkApply, BatchLocked
  <2>. QED BY <2>1 DEF NoBatch
<1>6. ASSUME NEW s \in todo, ExecGroup(s) PROVE OfferInv'
  <2>1. /\ batch' = batch /\ wi' = wi /\ writeSegment' = writeSegment
        /\ todo' = todo \ {s} /\ NextGroup(s)
    BY <1>6 DEF ExecGroup, client
  <2>2. writeSegment \notin todo'
    BY <2>1 DEF NextGroup
  <2>. QED BY <2>1, <2>2 DEF OfferInv
<1>7. ASSUME Return PROVE batch'.sets = {}
  BY <1>7 DEF Return, NoBatch
<1>8. ASSUME Forget PROVE batch'.sets = {}
  BY <1>8 DEF Forget, NoBatch
<1>9. CASE Close \/ Crash \/ NoRoll \/ RollCreateFails \/ RollMigrate \/ RollMigrateFails \/ WalkEnds
  BY <1>1, <1>7, <1>8, <1>9
     DEF Close, Crash, NoRoll, RollCreateFails, RollMigrate, RollMigrateFails, WalkEnds, ReturnOK
<1>10. ASSUME NEW s, ExecFails(s) \/ WalkFails(s) PROVE OfferInv'
  BY <1>1, <1>7, <1>10 DEF ExecFails, WalkFails
<1>11. CASE StartEmpty \/ \E last \in DOMAIN disk : StartExisting(last)
  <2>1. batch' = batch /\ batch = NoBatch
    BY <1>11 DEF StartEmpty, StartExisting, SafeInv, BaseInv, RegistryInv, Up
  <2>. QED BY <1>1, <2>1 DEF NoBatch
<1>12. CASE RollCreate \/ Walk
  BY <1>2, <1>12 DEF RollCreate, Walk, client
<1>13. ASSUME NEW s, GcSkip(s) \/ GcSegment(s) \/ WalkSegment(s) PROVE OfferInv'
  BY <1>2, <1>13 DEF GcSkip, GcSegment, WalkSegment, client
<1>14. CASE UNCHANGED vars
  BY <1>14 DEF vars, durable, registry, call, client, OfferInv
<1>. QED BY <1>1, <1>3, <1>4, <1>5, <1>6, <1>9, <1>10, <1>11, <1>12, <1>13, <1>14 DEF Next

-----------------------------------------------------------------------------
\* The items in the files, wherever they are.
AllItems == UNION {disk[s].items : s \in DOMAIN disk}

\* The items that reads find are all the items in the files.
LEMMA ViewOfItems == SafeInv => StoredItems = AllItems
<1>. SUFFICES ASSUME SafeInv PROVE StoredItems = AllItems
  OBVIOUS
<1>1. CASE ~Up
  BY <1>1 DEF StoredItems, AllItems
<1>2. CASE Up
  <2>1. StoredItems \subseteq AllItems
    <3>1. segments \subseteq DOMAIN disk
      BY <1>2 DEF SafeInv, BaseInv, RegistryInv
    <3>. QED BY <1>2, <3>1 DEF StoredItems, AllItems
  <2>2. ASSUME NEW s \in DOMAIN disk, NEW k \in disk[s].items PROVE k \in StoredItems
    <3>1. s \in segments
      BY <1>2, <2>2 DEF SafeInv, KeyInv
    <3>2. RouteRead(k, s)
      BY <1>2, <3>1, Routable DEF ItemsRoutable
    <3>3. disk[s] \in Bucket
      BY DEF SafeInv, BaseInv, TypeOK
    <3>4. k \in Items
      BY <3>3 DEF Bucket
    <3>. QED BY <1>2, <3>1, <3>2, <3>4 DEF StoredItems
  <2>. QED BY <2>1, <2>2 DEF AllItems
<1>. QED BY <1>1, <1>2

\* What the abstract state is computed from: every file's items, and the file
\* with the highest startIndex.
View ==
  /\ StoredItems = AllItems
  /\ Up => RecordedIndex = disk[writeSegment].meta
  /\ ~Up /\ DOMAIN disk = {} => RecordedIndex = NoMeta
  /\ ~Up => \A n \in DOMAIN disk :
               (\A s \in DOMAIN disk : s <= n) => RecordedIndex = disk[n].meta

\* The same with the index that is read.
LEMMA ViewHolds == SafeInv => View
<1>. SUFFICES ASSUME SafeInv PROVE View
  OBVIOUS
<1>1. ASSUME ~Up, NEW n \in DOMAIN disk, \A s \in DOMAIN disk : s <= n
      PROVE  RecordedIndex = disk[n].meta
  <2>. DEFINE m == CHOOSE s \in DOMAIN disk : \A t \in DOMAIN disk : t <= s
  <2>1. m \in DOMAIN disk /\ \A t \in DOMAIN disk : t <= m
    BY <1>1
  <2>2. m \in Int /\ n \in Int /\ m <= n /\ n <= m
    BY <1>1, <2>1, TypesOf DEF SafeInv
  <2>3. RecordedIndex = disk[m].meta
    BY <1>1 DEF RecordedIndex
  <2>. HIDE DEF m
  <2>. QED BY <2>2, <2>3, SMTT(30)
<1>. QED BY <1>1, ViewOfItems DEF RecordedIndex, View

SameView == StoredItems' = StoredItems /\ RecordedIndex' = RecordedIndex

\* A step that touches no file and no write segment is not seen.
LEMMA ViewQuiet ==
  ASSUME View, View', Up, Up', UNCHANGED <<disk, writeSegment>>
  PROVE  SameView
<1>1. AllItems' = AllItems
  BY DEF AllItems
<1>. QED BY <1>1 DEF View, SameView

\* A start changes nothing that can be read.
LEMMA ViewStart ==
  ASSUME View, View', StartEmpty \/ \E last \in DOMAIN disk : StartExisting(last)
  PROVE  SameView
<1>1. ~Up /\ Up'
  BY DEF StartEmpty, StartExisting, Up
<1>2. CASE StartEmpty
  <2>1. /\ DOMAIN disk = {} /\ DOMAIN disk' = {0} /\ disk'[0] = Empty /\ writeSegment' = 0
    BY <1>2 DEF StartEmpty, Put
  <2>2. disk'[0].items = {} /\ disk'[0].meta = NoMeta
    BY <2>1, SMTT(30) DEF Empty
  <2>3. AllItems' = {} /\ AllItems = {}
    BY <2>1, <2>2 DEF AllItems
  <2>. QED BY <1>1, <2>1, <2>2, <2>3 DEF View, SameView
<1>3. ASSUME NEW last \in DOMAIN disk, StartExisting(last) PROVE SameView
  <2>1. disk' = disk /\ writeSegment' = last /\ \A s \in DOMAIN disk : s <= last
    BY <1>3 DEF StartExisting, durable
  <2>2. AllItems' = AllItems
    BY <2>1 DEF AllItems
  <2>. QED BY <1>1, <2>1, <2>2 DEF View, SameView
<1>. QED BY <1>2, <1>3

\* The write segment is the file that a restart will open.
LEMMA ViewStop ==
  ASSUME View, View', SafeInv, Up, pc # "migrate", Forget
  PROVE  SameView
<1>1. ~Up' /\ disk' = disk
  BY DEF Forget, Up, durable
<1>2. AllItems' = AllItems
  BY <1>1 DEF AllItems
<1>3. writeSegment \in DOMAIN disk /\ \A s \in DOMAIN disk : s <= writeSegment
  BY DEF SafeInv, KeyInv, BaseInv, RegistryInv
<1>4. RecordedIndex' = disk'[writeSegment].meta
  BY <1>1, <1>3 DEF View
<1>. QED BY <1>1, <1>2, <1>4 DEF View, SameView

\* Removing a file without items.
LEMMA ViewDrop ==
  ASSUME View, View', Up, Up', NEW s, disk' = Drop(disk, s), disk[s].items = {},
         s # writeSegment, writeSegment \in DOMAIN disk, writeSegment' = writeSegment
  PROVE  SameView
<1>1. DOMAIN disk' = DOMAIN disk \ {s} /\ \A t \in DOMAIN disk \ {s} : disk'[t] = disk[t]
  BY DEF Drop
<1>2. ASSUME NEW i \in AllItems PROVE i \in AllItems'
  <2>1. PICK t \in DOMAIN disk : i \in disk[t].items
    BY <1>2 DEF AllItems
  <2>2. t # s
    BY <2>1
  <2>. QED BY <1>1, <2>1, <2>2 DEF AllItems
<1>3. ASSUME NEW i \in AllItems' PROVE i \in AllItems
  <2>1. PICK t \in DOMAIN disk' : i \in disk'[t].items
    BY <1>3 DEF AllItems
  <2>. QED BY <1>1, <2>1 DEF AllItems
<1>4. AllItems' = AllItems
  BY <1>2, <1>3
<1>. QED BY <1>1, <1>4 DEF View, SameView

\* Adding a file without items.
LEMMA ViewCreate ==
  ASSUME View, View', SafeInv, RollCreate
  PROVE  SameView
<1>. DEFINE n == nextWriteIdx
<1>1. /\ Up /\ Up' /\ writeSegment' = writeSegment /\ n > writeSegment
      /\ disk' = Put(disk, n, IF n \in DOMAIN disk THEN disk[n] ELSE Empty)
  BY DEF RollCreate, Up, registry
<1>2. writeSegment \in DOMAIN disk /\ n # writeSegment
  BY <1>1, TypesOf, SMTT(30) DEF SafeInv, BaseInv, RegistryInv
<1>3. /\ DOMAIN disk' = DOMAIN disk \cup {n}
      /\ \A t \in DOMAIN disk : disk'[t] = disk[t]
      /\ n \notin DOMAIN disk => disk'[n] = Empty
  BY <1>1 DEF Put
<1>4. Empty.items = {}
  BY DEF Empty
<1>. HIDE DEF n
<1>5. ASSUME NEW i \in AllItems PROVE i \in AllItems'
  <2>1. PICK t \in DOMAIN disk : i \in disk[t].items
    BY <1>5 DEF AllItems
  <2>2. t \in DOMAIN disk' /\ i \in disk'[t].items
    BY <1>3, <2>1
  <2>. QED BY <2>2 DEF AllItems
<1>6. ASSUME NEW i \in AllItems' PROVE i \in AllItems
  <2>1. PICK t \in DOMAIN disk' : i \in disk'[t].items
    BY <1>6 DEF AllItems
  <2>2. t \in DOMAIN disk /\ i \in disk[t].items
    BY <1>3, <1>4, <2>1
  <2>. QED BY <2>2 DEF AllItems
<1>7. AllItems' = AllItems
  BY <1>5, <1>6
<1>. QED BY <1>1, <1>2, <1>3, <1>7 DEF View, SameView

\* The new write segment gets the index of the old one.
LEMMA ViewMigrate ==
  ASSUME View, View', SafeInv, RollMigrate
  PROVE  SameView
<1>. DEFINE n == nextWriteIdx
<1>1. /\ Up /\ Up' /\ pc = "migrate" /\ writeSegment' = n
      /\ disk' = [disk EXCEPT ![n].meta =
                    IF disk[writeSegment].meta = NoMeta THEN @ ELSE disk[writeSegment].meta]
  BY DEF RollMigrate, ReadNonNumericKeys, ReturnOK, Return, Up
<1>2. /\ disk[writeSegment].meta = wi /\ wi \in Int /\ wi >= 0 /\ n \in DOMAIN disk
      /\ \A s \in DOMAIN disk : disk[s] \in Bucket
  BY <1>1, TypesOf DEF SafeInv, IndexInv, KeyInv
<1>3. disk[writeSegment].meta # NoMeta
  BY <1>2, SMTT(30) DEF NoMeta
<1>4. disk' = [disk EXCEPT ![n].meta = disk[writeSegment].meta]
  BY <1>1, <1>3
<1>5. /\ DOMAIN disk' = DOMAIN disk /\ \A s \in DOMAIN disk : s # n => disk'[s] = disk[s]
      /\ disk'[n] = [disk[n] EXCEPT !.meta = disk[writeSegment].meta]
  BY <1>2, <1>4
<1>6. disk'[n].meta = disk[writeSegment].meta /\ disk'[n].items = disk[n].items
  BY <1>2, <1>5, SMTT(30) DEF Bucket
<1>. HIDE DEF n
<1>7. \A s \in DOMAIN disk : disk'[s].items = disk[s].items
  BY <1>5, <1>6
<1>8. AllItems' = AllItems
  BY <1>5, <1>7 DEF AllItems
<1>. QED BY <1>1, <1>6, <1>8 DEF View, SameView

-----------------------------------------------------------------------------
(* Every step is a step of ItemStore, or is not visible *)

StoreStep == [Store!Next]_(Store!vars)

\* A step that leaves what can be read alone is a step of ItemStore that begins
\* or ends a call, or none.
LEMMA Invisible ==
  ASSUME SameView,
         \/ batch'.dels = {}
         \/ batch'.dels = batch.dels
         \/ batch.dels = {} /\ batch'.dels \in SUBSET Items
  PROVE  StoreStep
<1>1. StoredItems' = StoredItems /\ RecordedIndex' = RecordedIndex
  BY DEF SameView
<1>. QED BY <1>1 DEF StoreStep, Store!Next, Store!vars, Store!Begin, Store!End

\* A transaction stores the offered item with its index, or it deletes some of
\* the items that the batch names.
LEMMA ExecIsVisible ==
  ASSUME View, View', SafeInv, OfferInv, NEW s \in todo, ExecGroup(s)
  PROVE  StoreStep
<1>. DEFINE W == writeSegment
<1>1. /\ pc = "exec" /\ Up /\ Up' /\ ExecBatch(s) /\ s \in segments /\ segments \subseteq DOMAIN disk
      /\ W \in DOMAIN disk /\ W' = W /\ batch' = batch /\ DOMAIN disk = segments
      /\ batch \in Batch
  BY DEF ExecGroup, Up, SafeInv, BaseInv, TypeOK, RegistryInv, KeyInv
<1>2. /\ DOMAIN disk' = DOMAIN disk
      /\ \A t \in DOMAIN disk : t # s => disk'[t] = disk[t]
      /\ disk'[s].items = (disk[s].items \cup SetsOf(s)) \ DelsOf(s)
      /\ disk'[s].meta = IF s = W /\ batch.meta THEN wi ELSE disk[s].meta
  BY <1>1, ExecBatchFacts DEF SafeInv, BaseInv
<1>3. /\ StoredItems = AllItems /\ StoredItems' = AllItems'
      /\ RecordedIndex = disk[W].meta /\ RecordedIndex' = disk'[W].meta
  BY <1>1 DEF View
<1>4. disk[W].meta \in Int /\ wi \in Int /\ disk[W].meta <= wi /\ Covers(W)
  BY <1>1, TypesOf DEF SafeInv, IndexInv
<1>5. CASE s = W /\ batch.sets # {}
  <2>. DEFINE k == wi - 1
  <2>1. /\ batch.sets = {k} /\ batch.dels = {} /\ disk[W].meta < wi /\ k \in Items /\ wi > 0
    <3>1. batch.dels = {} /\ k \in batch.sets /\ disk[W].meta < wi
      BY <1>1, <1>5 DEF OfferInv
    <3>2. \A i \in batch.sets : i = k
      BY DEF SafeInv, KeyInv
    <3>3. k \in Items
      BY <1>1, <3>1 DEF Batch
    <3>4. wi > 0
      BY <1>5 DEF SafeInv, BaseInv, RegistryInv
    <3>. HIDE DEF k
    <3>. QED BY <3>1, <3>2, <3>3, <3>4
  <2>2. SetsOf(s) = {k} /\ DelsOf(s) = {}
    BY <1>5, <2>1 DEF SetsOf, DelsOf
  <2>3. AllItems' = AllItems \cup {k}
    <3>. HIDE DEF k
    <3>1. disk'[s].items = disk[s].items \cup {k}
      BY <1>2, <2>2
    <3>2. \A t \in DOMAIN disk : t # s => disk'[t].items = disk[t].items
      BY <1>2
    <3>. QED BY <1>1, <1>2, <3>1, <3>2 DEF AllItems
  <2>4. batch.meta
    <3>1. batch.meta \/ disk[W].meta = wi
      BY <1>1 DEF SafeInv, IndexInv
    <3>. QED BY <1>4, <2>1, <3>1, SMTT(30)
  <2>5. disk'[W].meta = k + 1
    <3>1. disk'[W].meta = wi
      BY <1>2, <1>5, <2>4
    <3>. QED BY <1>4, <3>1, SMTT(30)
  <2>6. ASSUME NEW i \in AllItems PROVE i < k
    <3>1. PICK t \in DOMAIN disk : i \in disk[t].items
      BY <2>6 DEF AllItems
    <3>2. i \in Int
      BY <3>1, TypesOf DEF SafeInv
    <3>3. i < IF disk[W].meta = NoMeta THEN 0 ELSE disk[W].meta
      BY <1>4, <3>1 DEF Covers
    <3>. QED BY <1>4, <2>1, <3>2, <3>3, SMTT(30) DEF NoMeta
  <2>7. k >= disk[W].meta
    BY <1>4, <2>1, SMTT(30)
  <2>. HIDE DEF k
  <2>8. Store!Offer
    BY <1>1, <1>3, <2>1, <2>3, <2>5, <2>6, <2>7 DEF Store!Offer
  <2>. QED BY <2>8 DEF StoreStep, Store!Next
<1>6. CASE ~(s = W /\ batch.sets # {})
  <2>1. SetsOf(s) = {}
    BY <1>6 DEF SetsOf
  <2>2. AllItems' = AllItems \ DelsOf(s)
    <3>1. disk'[s].items = disk[s].items \ DelsOf(s)
      BY <1>2, <2>1
    <3>2. ASSUME NEW t \in DOMAIN disk, t # s PROVE disk[t].items \cap DelsOf(s) = {}
      <4>. SUFFICES ASSUME NEW i \in disk[t].items, i \in DelsOf(s) PROVE FALSE
        OBVIOUS
      <4>1. RouteRead(i, s) /\ i \in batch.dels
        BY DEF DelsOf
      <4>2. i \in Items
        BY <1>1, <4>1 DEF Batch
      <4>3. RouteRead(i, t)
        BY <1>1, Routable DEF ItemsRoutable
      <4>. QED BY <3>2, <4>1, <4>2, <4>3, RouteUnique DEF SafeInv
    <3>3. \A t \in DOMAIN disk : disk'[t].items = disk[t].items \ DelsOf(s)
      <4>1. ASSUME NEW t \in DOMAIN disk, t # s PROVE disk'[t].items = disk[t].items \ DelsOf(s)
        <5>1. disk'[t].items = disk[t].items
          BY <1>2, <4>1
        <5>. QED BY <3>2, <4>1, <5>1
      <4>. QED BY <3>1, <4>1
    <3>4. ASSUME NEW k \in AllItems' PROVE k \in AllItems /\ k \notin DelsOf(s)
      <4>1. PICK t \in DOMAIN disk : k \in disk'[t].items
        BY <1>2, <3>4 DEF AllItems
      <4>. QED BY <3>3, <4>1 DEF AllItems
    <3>5. ASSUME NEW k \in AllItems, k \notin DelsOf(s) PROVE k \in AllItems'
      <4>1. PICK t \in DOMAIN disk : k \in disk[t].items
        BY <3>5 DEF AllItems
      <4>2. k \in disk'[t].items
        BY <3>3, <3>5, <4>1
      <4>. QED BY <1>2, <4>2 DEF AllItems
    <3>. QED BY <3>4, <3>5
  <2>3. disk'[W].meta >= disk[W].meta
    <3>1. disk'[W].meta = wi \/ disk'[W].meta = disk[W].meta
      BY <1>1, <1>2
    <3>. QED BY <1>4, <3>1, SMTT(30)
  <2>4. DelsOf(s) \in SUBSET batch.dels
    BY DEF DelsOf
  <2>5. Store!Update
    BY <1>1, <1>3, <2>2, <2>3, <2>4 DEF Store!Update
  <2>. QED BY <2>5 DEF StoreStep, Store!Next
<1>. QED BY <1>5, <1>6

\* Every step of the queue storage is a step of ItemStore or invisible.
LEMMA RefStep ==
  ASSUME SafeFaults, View, View', FullInv, OfferInv, [Next]_vars
  PROVE  StoreStep
<1>0. SafeInv /\ NoBatch.dels = {}
  BY DEF FullInv, NoBatch
<1>1. CASE StartEmpty \/ \E last \in DOMAIN disk : StartExisting(last)
  BY <1>1, ViewStart, Invisible DEF StartEmpty, StartExisting
<1>2. CASE Close \/ Crash
  <2>1. Forget /\ Up /\ pc # "migrate"
    BY <1>2 DEF Close, Crash, Up, SafeFaults
  <2>. QED BY <1>0, <2>1, ViewStop, Invisible DEF Forget
<1>3. ASSUME NEW b, BatchLocked(b), pc \in {"idle", "walk"}, b.dels \in SUBSET Items PROVE StoreStep
  <2>1. UNCHANGED <<disk, writeSegment>> /\ Up /\ Up' /\ batch' = b
    BY <1>3 DEF BatchLocked, durable, Up
  <2>2. batch.dels = {}
    BY <1>0, <1>3 DEF SafeInv, BaseInv, RegistryInv
  <2>. QED BY <1>3, <2>1, <2>2, ViewQuiet, Invisible
<1>4. CASE Offer
  <2>. DEFINE b == [NoBatch EXCEPT !.sets = {wi}, !.meta = TRUE]
  <2>1. b.dels = {}
    BY DEF NoBatch
  <2>2. BatchLocked(b) /\ pc = "idle"
    BY <1>4 DEF Offer
  <2>. HIDE DEF b
  <2>. QED BY <1>3, <2>1, <2>2
<1>5. ASSUME NEW K \in KeySets(0 .. wi - 1), NEW m \in WithMeta, Read(K, m) \/ Ack(K, m)
      PROVE  StoreStep
  <2>. DEFINE r == [NoBatch EXCEPT !.gets = K, !.meta = m]
              d == [NoBatch EXCEPT !.dels = K, !.meta = m]
  <2>1. r.dels = {} /\ d.dels = K
    BY DEF NoBatch
  <2>2. (BatchLocked(r) \/ BatchLocked(d)) /\ pc = "idle"
    BY <1>5 DEF Read, Ack
  <2>. HIDE DEF r, d
  <2>3. K \in SUBSET Items
    <3>1. wi \in Indices
      BY <1>0 DEF SafeInv, BaseInv, TypeOK
    <3>2. 0 .. wi - 1 \subseteq Items
      BY <3>1, BoundsAssumption, SMTT(30) DEF Items, Indices
    <3>. QED BY <3>2 DEF KeySets
  <2>. QED BY <1>3, <2>1, <2>2, <2>3
<1>6. ASSUME NEW K \in KeySets(Items), WalkApply(K) PROVE StoreStep
  <2>. DEFINE d == [NoBatch EXCEPT !.dels = K]
  <2>1. d.dels = K
    BY DEF NoBatch
  <2>2. BatchLocked(d) /\ pc = "walk" /\ K \in SUBSET Items
    BY <1>6 DEF WalkApply, KeySets
  <2>. HIDE DEF d
  <2>. QED BY <1>3, <2>1, <2>2
<1>7. ASSUME NEW s \in todo, ExecGroup(s) PROVE StoreStep
  BY <1>0, <1>7, ExecIsVisible
<1>8. ASSUME Up, Return, UNCHANGED <<disk, writeSegment>> PROVE StoreStep
  <2>1. Up' /\ batch'.dels = {}
    BY <1>0, <1>8 DEF Return, Up
  <2>. QED BY <1>8, <2>1, ViewQuiet, Invisible
<1>9. CASE NoRoll \/ RollCreateFails \/ WalkEnds
  BY <1>8, <1>9
     DEF NoRoll, RollCreateFails, WalkEnds, ReturnOK, Up, durable, registry
<1>10. ASSUME NEW s, ExecFails(s) \/ WalkFails(s) PROVE StoreStep
  BY <1>8, <1>10 DEF ExecFails, WalkFails, Up, durable
<1>11. ASSUME Up, Up', UNCHANGED <<disk, writeSegment, batch>> PROVE StoreStep
  BY <1>11, ViewQuiet, Invisible
<1>12. ASSUME NEW s \in touched, GcSkip(s) \/ GcSegment(s) PROVE StoreStep
  <2>1. /\ Up /\ Up' /\ batch' = batch /\ writeSegment' = writeSegment
        /\ disk' = disk \/ (GcSegment(s) /\ disk' = Drop(disk, s) /\ s # writeSegment)
    BY <1>12 DEF GcSkip, GcSegment, Up, durable, registry, Collectable
  <2>2. writeSegment \in DOMAIN disk
    BY <1>0, <2>1 DEF SafeInv, BaseInv, RegistryInv
  <2>3. CASE GcSegment(s) /\ disk' = Drop(disk, s) /\ s # writeSegment
    <3>1. disk[s].items = {}
      BY <1>12, <2>3, CollectedIsEmpty DEF FullInv
    <3>. QED BY <2>1, <2>2, <2>3, <3>1, ViewDrop, Invisible
  <2>. QED BY <1>11, <2>1, <2>3
<1>13. CASE RollCreate
  BY <1>0, <1>13, ViewCreate, Invisible DEF RollCreate
<1>14. CASE RollMigrate
  <2>1. batch'.dels = {}
    BY <1>0, <1>14 DEF RollMigrate, ReturnOK, Return
  <2>. QED BY <1>0, <1>14, <2>1, ViewMigrate, Invisible
<1>15. CASE RollMigrateFails
  <2>1. /\ Up /\ Return /\ Up' /\ pc = "migrate" /\ writeSegment' = writeSegment
        /\ disk' = Drop(disk, nextWriteIdx) \/ disk' = disk
    BY <1>15 DEF RollMigrateFails, ReturnOK, Return, Up, registry, durable
  <2>2. /\ disk[nextWriteIdx].items = {} /\ nextWriteIdx # writeSegment
        /\ writeSegment \in DOMAIN disk
    BY <1>0, <2>1 DEF SafeInv, KeyInv, BaseInv, RegistryInv
  <2>3. batch'.dels = {}
    BY <1>0, <2>1 DEF Return
  <2>4. CASE disk' = Drop(disk, nextWriteIdx)
    BY <2>1, <2>2, <2>3, <2>4, ViewDrop, Invisible
  <2>. QED BY <1>8, <2>1, <2>4
<1>16. CASE Walk
  BY <1>11, <1>16 DEF Walk, Up, durable, registry
<1>17. ASSUME NEW s, WalkSegment(s) PROVE StoreStep
  BY <1>11, <1>17 DEF WalkSegment, Up, durable
<1>18. CASE UNCHANGED vars
  <2>1. UNCHANGED <<disk, pc, writeSegment, batch, segments>>
    BY <1>18 DEF vars, durable, registry, call
  <2>2. StoredItems' = StoredItems
    <3>1. AllItems' = AllItems
      BY <2>1 DEF AllItems
    <3>. QED BY <3>1 DEF View
  <2>3. RecordedIndex' = RecordedIndex
    BY <2>1, SMTT(30) DEF RecordedIndex, Up
  <2>. QED BY <2>1, <2>2, <2>3, Invisible DEF SameView
<1>. QED BY <1>1, <1>2, <1>4, <1>5, <1>6, <1>7, <1>9, <1>10, <1>12, <1>13, <1>14, <1>15, <1>16,
            <1>17, <1>18 DEF Next

\* The segmented storage implements ItemStore for every number of segments and
\* of items: whatever is rolled, collected, evicted, fails or restarts, the
\* queue sees its items and the write index change only as its calls ask, and
\* an offered item together with the index above it.
THEOREM ImplementsItemStore == SafeFaults /\ FewKeys => (Spec => StoreSpec)
<1>. SUFFICES ASSUME SafeFaults, FewKeys PROVE Spec => StoreSpec
  OBVIOUS
<1>1. FullInv /\ OfferInv /\ [Next]_vars => (FullInv /\ OfferInv)'
  BY FullStep, OfferStep DEF FullInv
<1>2. FullInv => View
  BY ViewHolds DEF FullInv
<1>3. View /\ View' /\ FullInv /\ OfferInv /\ [Next]_vars => [Store!Next]_(Store!vars)
  BY RefStep DEF StoreStep
<1>4. Init => Store!Init
  <2>. SUFFICES ASSUME Init PROVE Store!Init
    OBVIOUS
  <2>1. disk = [s \in {} |-> Empty] /\ pc = "down" /\ batch = NoBatch
    BY DEF Init
  <2>2. DOMAIN disk = {} /\ batch.dels = {} /\ ~Up
    BY <2>1 DEF NoBatch, Up
  <2>3. StoredItems = {} /\ RecordedIndex = -1
    BY <2>2 DEF StoredItems, RecordedIndex, NoMeta
  <2>. QED BY <2>2, <2>3 DEF Store!Init
<1>. QED BY FullInit, OfferInit, <1>1, <1>2, <1>3, <1>4, PTL DEF Spec, StoreSpec, Store!Spec

-----------------------------------------------------------------------------
(* Consumed segments are removed *)

\* Nothing stops a batch half way and every os.Remove of a collected segment
\* succeeds.
CleanFaults == Faults \subseteq {"bare", "create", "migrate"}

\* A segment is not counted higher than it is filled, so one without items
\* counts 0; only the batch in progress has emptied any, and it will come to
\* them.  What is rolled is not empty.
EmptyInv ==
  /\ Up => /\ \A s \in segments : liveKeys[s] <= Cardinality(disk[s].items)
           /\ \A s \in segments \ {writeSegment} :
                disk[s].items = {} => pc \in {"exec", "gc"} /\ s \in touched
  /\ pc = "migrate" => disk[writeSegment].items # {}
  /\ ~Up => \A s, t \in DOMAIN disk : s < t => disk[s].items # {}

\* The counting of execBatch: a Set adds a new key, a Delete may find none.
LEMMA CountBound ==
  ASSUME NEW I \in SUBSET Items, NEW S \in SUBSET Items, NEW D \in SUBSET Items,
         S = {} \/ \E k : S = {k} /\ k \notin I,
         NEW n \in Nat, n <= Cardinality(I)
  PROVE  n + Cardinality(S) - Cardinality(D) <= Cardinality((I \cup S) \ D)
<1>1. /\ IsFiniteSet(I) /\ Cardinality(I) \in Nat
      /\ IsFiniteSet(D) /\ Cardinality(D) \in Nat
      /\ IsFiniteSet(I \cup S) /\ Cardinality(I \cup S) \in Nat
  BY ItemsFinite
<1>2. Cardinality(I \cup S) = Cardinality(I) + Cardinality(S) /\ Cardinality(S) \in Nat
  <2>1. CASE S = {}
    <3>1. I \cup S = I /\ Cardinality(S) = 0
      BY <2>1, FS_EmptySet
    <3>. QED BY <1>1, <3>1, SMTT(30)
  <2>2. ASSUME NEW k, S = {k}, k \notin I
        PROVE  Cardinality(I \cup S) = Cardinality(I) + Cardinality(S) /\ Cardinality(S) \in Nat
    <3>1. Cardinality(I \cup S) = Cardinality(I) + 1
      BY <1>1, <2>2, FS_AddElement
    <3>2. Cardinality(S) = 1
      BY <2>2, FS_Singleton
    <3>. QED BY <1>1, <3>1, <3>2, SMTT(30)
  <2>. QED BY <2>1, <2>2
<1>. DEFINE X == (I \cup S) \cap D
<1>3. Cardinality((I \cup S) \ D) = Cardinality(I \cup S) - Cardinality(X)
  BY <1>1, FS_Difference
<1>4. X \subseteq D
  OBVIOUS
<1>. HIDE DEF X
<1>5. Cardinality(X) \in Nat /\ Cardinality(X) <= Cardinality(D)
  BY <1>1, <1>4, FS_Subset, FS_CardinalityType
<1>. QED BY <1>1, <1>2, <1>3, <1>5, SMTT(30)

\* There is no segment at first.
LEMMA EmptyInit == Init => EmptyInv
<1>. SUFFICES ASSUME Init PROVE EmptyInv
  OBVIOUS
<1>1. ~Up /\ DOMAIN disk = {} /\ pc # "migrate"
  BY DEF Init, Up
<1>. QED BY <1>1 DEF EmptyInv

\* Steps outside a batch that leave the segments alone.
LEMMA EmptyQuiet ==
  ASSUME EmptyInv, Up, Up', pc' # "migrate", UNCHANGED <<disk, segments, writeSegment, liveKeys>>,
         pc \in {"exec", "gc"} => touched = {} /\ pc = "gc"
  PROVE  EmptyInv'
BY DEF EmptyInv

\* The empty segment that a start finds is its write segment.
LEMMA EmptyStart ==
  ASSUME SafeInv, EmptyInv, StartEmpty \/ \E last \in DOMAIN disk : StartExisting(last)
  PROVE  EmptyInv'
<1>0. ~Up /\ Up' /\ pc' # "migrate"
  BY DEF StartEmpty, StartExisting, Up
<1>1. CASE StartEmpty
  <2>1. /\ segments' = {0} /\ writeSegment' = 0 /\ liveKeys'[0] = 0 /\ disk'[0] = Empty
    BY <1>1 DEF StartEmpty, Put
  <2>2. Cardinality(disk'[0].items) = 0
    BY <2>1, FS_EmptySet, SMTT(30) DEF Empty
  <2>3. liveKeys'[0] <= Cardinality(disk'[0].items)
    BY <2>1, <2>2, SMTT(30)
  <2>. QED BY <1>0, <2>1, <2>3 DEF EmptyInv
<1>2. ASSUME NEW last \in DOMAIN disk, StartExisting(last) PROVE EmptyInv'
  <2>1. /\ disk' = disk /\ segments' = DOMAIN disk /\ writeSegment' = last
        /\ \A s \in DOMAIN disk : s <= last
        /\ liveKeys' = [s \in DOMAIN disk |-> IF s = last THEN CountNumericKeys(s) ELSE 0]
    BY <1>2 DEF StartExisting, durable
  <2>2. ASSUME NEW s \in DOMAIN disk PROVE liveKeys'[s] <= Cardinality(disk[s].items)
    <3>1. liveKeys'[s] = Cardinality(disk[s].items) \/ liveKeys'[s] = 0
      BY <2>1 DEF CountNumericKeys
    <3>2. disk[s] \in Bucket
      BY DEF SafeInv, BaseInv, TypeOK
    <3>3. disk[s].items \subseteq Items
      BY <3>2 DEF Bucket
    <3>4. Cardinality(disk[s].items) \in Nat
      BY <3>3, ItemsFinite
    <3>. QED BY <3>1, <3>4, SMTT(30)
  <2>3. ASSUME NEW s \in DOMAIN disk, s # last PROVE disk[s].items # {}
    <3>1. s \in Int /\ last \in Int /\ s <= last
      BY <2>1, TypesOf DEF SafeInv
    <3>2. s < last
      BY <2>3, <3>1, SMTT(30)
    <3>. QED BY <1>0, <3>2 DEF EmptyInv
  <2>. QED BY <1>0, <2>1, <2>2, <2>3 DEF EmptyInv
<1>. QED BY <1>1, <1>2

\* No call is in progress at a Close, so no emptied segment waits for its
\* collection.
LEMMA EmptyClose ==
  ASSUME SafeInv, EmptyInv, Close
  PROVE  EmptyInv'
<1>1. pc = "idle" /\ Up /\ ~Up' /\ pc' # "migrate" /\ disk' = disk
  BY DEF Close, Forget, Up, durable
<1>2. ASSUME NEW s \in DOMAIN disk, NEW t \in DOMAIN disk, s < t PROVE disk[s].items # {}
  <2>1. s \in segments /\ t <= writeSegment
    BY <1>1 DEF SafeInv, BaseInv, RegistryInv, KeyInv
  <2>2. s \in Int /\ t \in Int /\ writeSegment \in Int
    BY TypesOf DEF SafeInv
  <2>3. s # writeSegment
    BY <1>2, <2>1, <2>2, SMTT(30)
  <2>. QED BY <1>1, <2>1, <2>3 DEF EmptyInv
<1>. QED BY <1>1, <1>2 DEF EmptyInv

\* A transaction that empties a segment leaves it for the collection loop.
LEMMA EmptyExec ==
  ASSUME SafeInv, OfferInv, EmptyInv, NEW s \in todo, ExecGroup(s)
  PROVE  EmptyInv'
<1>. DEFINE W == writeSegment
<1>1. /\ pc = "exec" /\ Up /\ Up' /\ ExecBatch(s) /\ s \in segments /\ segments \subseteq DOMAIN disk
      /\ W \in DOMAIN disk /\ W' = W /\ segments' = segments /\ batch \in Batch
      /\ touched' = touched \cup {s} /\ CountLiveKeys(s) /\ liveKeys \in [segments -> Nat]
      /\ pc' \in {"exec", "gc"} /\ disk[s] \in Bucket
  BY DEF ExecGroup, Up, SafeInv, BaseInv, TypeOK, RegistryInv
<1>2. /\ \A t \in DOMAIN disk : t # s => disk'[t] = disk[t]
      /\ disk'[s].items = (disk[s].items \cup SetsOf(s)) \ DelsOf(s)
  BY <1>1, ExecBatchFacts DEF SafeInv, BaseInv
<1>3. SetsOf(s) = {} \/ \E k : SetsOf(s) = {k} /\ k \notin disk[s].items
  <2>. SUFFICES ASSUME SetsOf(s) # {} PROVE \E k : SetsOf(s) = {k} /\ k \notin disk[s].items
    OBVIOUS
  <2>1. s = W /\ SetsOf(s) = batch.sets /\ batch.sets # {}
    BY DEF SetsOf
  <2>. DEFINE k == wi - 1
  <2>2. k \in batch.sets /\ disk[W].meta < wi /\ \A i \in batch.sets : i = k
    BY <1>1, <2>1 DEF OfferInv, SafeInv, KeyInv
  <2>3. disk[W].meta \in Int /\ wi \in Int /\ wi > 0 /\ Covers(W)
    BY <1>1, <2>1, TypesOf DEF SafeInv, IndexInv, BaseInv, RegistryInv
  <2>4. k \notin disk[s].items
    <3>1. SUFFICES ASSUME k \in disk[s].items PROVE FALSE
      OBVIOUS
    <3>2. k < IF disk[W].meta = NoMeta THEN 0 ELSE disk[W].meta
      BY <1>1, <2>1, <2>3, <3>1 DEF Covers
    <3>. QED BY <2>2, <2>3, <3>2, SMTT(30) DEF NoMeta
  <2>. HIDE DEF k
  <2>. QED BY <2>1, <2>2, <2>4
<1>4. liveKeys'[s] <= Cardinality(disk'[s].items)
  <2>. DEFINE I == disk[s].items  S == SetsOf(s)  D == DelsOf(s)
              n == liveKeys[s] + Cardinality(S) - Cardinality(D)
  <2>1. I \in SUBSET Items
    BY <1>1 DEF Bucket
  <2>2. S \in SUBSET Items /\ D \in SUBSET Items
    <3>1. batch.sets \in SUBSET Items /\ batch.dels \in SUBSET Items
      BY <1>1 DEF Batch
    <3>. QED BY <3>1 DEF SetsOf, DelsOf
  <2>3. liveKeys[s] \in Nat /\ liveKeys[s] <= Cardinality(I)
    BY <1>1 DEF EmptyInv
  <2>4. liveKeys'[s] = IF n < 0 THEN 0 ELSE n
    BY <1>1 DEF CountLiveKeys
  <2>5. S = {} \/ \E k : S = {k} /\ k \notin I
    BY <1>3
  <2>6. disk'[s].items = (I \cup S) \ D
    BY <1>2
  <2>. HIDE DEF I, S, D
  <2>7. n <= Cardinality((I \cup S) \ D)
    BY <2>1, <2>2, <2>3, <2>5, CountBound
  <2>8. Cardinality((I \cup S) \ D) \in Nat
    <3>1. (I \cup S) \ D \subseteq Items
      BY <2>1, <2>2
    <3>. QED BY <3>1, ItemsFinite
  <2>. HIDE DEF n
  <2>9. CASE n < 0
    BY <2>4, <2>6, <2>8, <2>9, SMTT(30)
  <2>10. CASE ~(n < 0)
    BY <2>4, <2>6, <2>7, <2>10
  <2>. QED BY <2>9, <2>10
<1>5. ASSUME NEW t \in segments, t # s PROVE liveKeys'[t] = liveKeys[t] /\ disk'[t] = disk[t]
  BY <1>1, <1>2, <1>5 DEF CountLiveKeys
<1>6. ASSUME NEW t \in segments PROVE liveKeys'[t] <= Cardinality(disk'[t].items)
  <2>1. CASE t = s
    BY <1>4, <2>1
  <2>2. CASE t # s
    <3>1. liveKeys[t] <= Cardinality(disk[t].items)
      BY <1>1 DEF EmptyInv
    <3>. QED BY <1>5, <2>2, <3>1
  <2>. QED BY <2>1, <2>2
<1>7. ASSUME NEW t \in segments \ {W}, disk'[t].items = {} PROVE t \in touched'
  BY <1>1, <1>5, <1>7 DEF EmptyInv
<1>. QED BY <1>1, <1>6, <1>7 DEF EmptyInv

\* The collection loop removes the segments that were emptied.
LEMMA EmptyGc ==
  ASSUME CleanFaults, SafeInv, EmptyInv, NEW s \in touched, GcSkip(s) \/ GcSegment(s)
  PROVE  EmptyInv'
<1>1. /\ pc = "gc" /\ pc' = "gc" /\ Up /\ Up' /\ writeSegment' = writeSegment
      /\ touched' = touched \ {s} /\ segments \subseteq DOMAIN disk
      /\ liveKeys \in [segments -> Nat]
  BY DEF GcSkip, GcSegment, Up, registry, SafeInv, BaseInv, RegistryInv, TypeOK
<1>2. CASE GcSkip(s)
  <2>1. UNCHANGED <<disk, segments, liveKeys>> /\ ~Collectable(s)
    BY <1>2 DEF GcSkip, durable, registry
  <2>2. ASSUME s \in segments \ {writeSegment}, disk[s].items = {} PROVE FALSE
    <3>1. liveKeys[s] <= 0 /\ liveKeys[s] \in Nat
      BY <1>1, <2>2, FS_EmptySet DEF EmptyInv
    <3>2. liveKeys[s] = 0
      BY <3>1, SMTT(30)
    <3>. QED BY <2>1, <2>2, <3>2 DEF Collectable, IsEmpty
  <2>. QED BY <1>1, <2>1, <2>2 DEF EmptyInv
<1>3. CASE GcSegment(s)
  <2>1. disk' = Drop(disk, s) /\ segments' = segments \ {s} /\ liveKeys' = Drop(liveKeys, s)
    BY <1>3 DEF GcSegment, CleanFaults
  <2>2. \A t \in segments' : disk'[t] = disk[t] /\ liveKeys'[t] = liveKeys[t]
    BY <1>1, <2>1, DropFacts
  <2>3. \A t \in segments' : t \in segments /\ t # s
    BY <2>1
  <2>. HIDE DEF EmptyInv
  <2>. QED BY <1>1, <2>2, <2>3 DEF EmptyInv
<1>. QED BY <1>2, <1>3

\* A roll adds one empty segment, which becomes the write segment, or removes
\* it again.
LEMMA EmptyRoll ==
  ASSUME CleanFaults, SafeInv, EmptyInv, RollCreate \/ RollMigrate \/ RollMigrateFails
  PROVE  EmptyInv'
<1>. DEFINE n == nextWriteIdx
<1>1. /\ Up /\ Up' /\ segments \subseteq DOMAIN disk /\ writeSegment \in segments
      /\ liveKeys \in [segments -> Nat]
      /\ \A t \in DOMAIN disk : disk[t] \in Bucket
  BY DEF RollCreate, RollMigrate, RollMigrateFails, ReturnOK, Return, Up, SafeInv, BaseInv,
               RegistryInv, TypeOK
<1>2. ASSUME segments' = segments, writeSegment' = writeSegment, liveKeys' = liveKeys,
             \A t \in segments : disk'[t] = disk[t] /\ (t # writeSegment => disk[t].items # {}),
             pc' = "migrate" => disk[writeSegment].items # {}
      PROVE  EmptyInv'
  BY <1>1, <1>2 DEF EmptyInv
<1>3. CASE RollCreate
  <2>1. /\ pc = "gc" /\ touched = {} /\ liveKeys[writeSegment] # 0
        /\ disk' = Put(disk, n, IF n \in DOMAIN disk THEN disk[n] ELSE Empty)
        /\ UNCHANGED <<segments, writeSegment, liveKeys>>
    BY <1>3 DEF RollCreate, NeedsRoll, registry
  <2>2. \A t \in segments : disk'[t] = disk[t]
    BY <1>1, <2>1 DEF Put
  <2>3. disk[writeSegment].items # {}
    <3>. SUFFICES ASSUME disk[writeSegment].items = {} PROVE FALSE
      OBVIOUS
    <3>1. liveKeys[writeSegment] <= 0 /\ liveKeys[writeSegment] \in Nat
      BY <1>1, FS_EmptySet DEF EmptyInv
    <3>. QED BY <2>1, <3>1, SMTT(30)
  <2>4. \A t \in segments : t # writeSegment => disk[t].items # {}
    BY <1>1, <2>1 DEF EmptyInv
  <2>. QED BY <1>2, <2>1, <2>2, <2>3, <2>4
<1>4. CASE RollMigrateFails
  <2>1. /\ pc = "migrate" /\ pc' = "idle" /\ disk' = Drop(disk, n)
        /\ UNCHANGED <<segments, writeSegment, liveKeys>>
    BY <1>4 DEF RollMigrateFails, ReturnOK, Return, registry, CleanFaults
  <2>2. n \notin segments
    BY <2>1 DEF SafeInv, KeyInv
  <2>3. \A t \in segments : disk'[t] = disk[t]
    BY <1>1, <2>1, <2>2, DropFacts
  <2>4. \A t \in segments : t # writeSegment => disk[t].items # {}
    BY <1>1, <2>1 DEF EmptyInv
  <2>. QED BY <1>2, <2>1, <2>3, <2>4
<1>5. CASE RollMigrate
  <2>1. /\ pc = "migrate" /\ pc' = "idle" /\ segments' = segments \cup {n} /\ writeSegment' = n
        /\ liveKeys' = Put(liveKeys, n, Cardinality(disk[n].items))
    BY <1>5 DEF RollMigrate, ReturnOK, Return, CountNumericKeys
  <2>2. n \in DOMAIN disk /\ n \notin segments
    BY <2>1 DEF SafeInv, KeyInv
  <2>3. \A t \in DOMAIN disk : disk'[t].items = disk[t].items
    <3>1. PICK v : disk' = [disk EXCEPT ![n].meta = v]
      BY <1>5 DEF RollMigrate
    <3>2. /\ \A t \in DOMAIN disk : t # n => disk'[t] = disk[t]
          /\ disk'[n] = [disk[n] EXCEPT !.meta = v]
      BY <2>2, <3>1
    <3>3. disk'[n].items = disk[n].items
      BY <1>1, <2>2, <3>2, SMTT(30) DEF Bucket
    <3>. QED BY <3>2, <3>3
  <2>4. liveKeys'[n] = Cardinality(disk[n].items) /\ \A t \in segments : liveKeys'[t] = liveKeys[t]
    BY <1>1, <2>1, <2>2 DEF Put
  <2>5. Cardinality(disk[n].items) \in Nat
    <3>1. disk[n].items \subseteq Items
      BY <1>1, <2>2 DEF Bucket
    <3>. QED BY <3>1, ItemsFinite
  <2>6. liveKeys'[n] <= Cardinality(disk'[n].items)
    BY <2>2, <2>3, <2>4, <2>5, SMTT(30)
  <2>7. ASSUME NEW t \in segments
        PROVE  liveKeys'[t] <= Cardinality(disk'[t].items) /\ disk'[t].items # {}
    <3>1. disk[t].items # {} /\ liveKeys[t] <= Cardinality(disk[t].items)
      BY <1>1, <2>1 DEF EmptyInv
    <3>2. disk'[t].items = disk[t].items /\ liveKeys'[t] = liveKeys[t]
      BY <1>1, <2>3, <2>4
    <3>. QED BY <3>1, <3>2
  <2>. HIDE DEF n
  <2>. QED BY <1>1, <2>1, <2>6, <2>7 DEF EmptyInv
<1>. QED BY <1>3, <1>4, <1>5

\* Every step without a crash or a failing operation outside a roll keeps empty
\* segments accounted for.
LEMMA EmptyStep ==
  ASSUME CleanFaults, SafeInv, OfferInv, EmptyInv, [Next]_vars
  PROVE  EmptyInv'
<1>1. CASE StartEmpty \/ \E last \in DOMAIN disk : StartExisting(last)
  BY <1>1, EmptyStart
<1>2. CASE Close
  BY <1>2, EmptyClose
<1>3. ~Crash /\ \A s \in todo : ~ExecFails(s)
  BY DEF Crash, ExecFails, EnsureOpenFails, CleanFaults
<1>4. ASSUME NEW b, BatchLocked(b), pc \in {"idle", "walk"} PROVE EmptyInv'
  BY <1>4, EmptyQuiet DEF BatchLocked, durable, Up
<1>5. CASE Offer
  BY <1>4, <1>5 DEF Offer
<1>6. ASSUME NEW K, NEW m, Read(K, m) \/ Ack(K, m) PROVE EmptyInv'
  BY <1>4, <1>6 DEF Read, Ack
<1>7. ASSUME NEW K, WalkApply(K) PROVE EmptyInv'
  BY <1>4, <1>7 DEF WalkApply
<1>8. ASSUME NEW s \in todo, ExecGroup(s) PROVE EmptyInv'
  BY <1>8, EmptyExec
<1>9. ASSUME NEW s \in touched, GcSkip(s) \/ GcSegment(s) PROVE EmptyInv'
  BY <1>9, EmptyGc
<1>10. CASE RollCreate \/ RollMigrate \/ RollMigrateFails
  BY <1>10, EmptyRoll
<1>11. CASE NoRoll \/ RollCreateFails
  BY <1>11, EmptyQuiet DEF NoRoll, RollCreateFails, ReturnOK, Return, Up, durable, registry
<1>12. CASE Walk \/ WalkEnds
  BY <1>12, EmptyQuiet DEF Walk, WalkEnds, Return, Up, durable, registry
<1>13. ASSUME NEW s, WalkSegment(s) \/ WalkFails(s) PROVE EmptyInv'
  BY <1>13, EmptyQuiet DEF WalkSegment, WalkFails, Return, Up, durable
<1>14. CASE UNCHANGED vars
  <2>1. UNCHANGED <<disk, segments, writeSegment, liveKeys, pc, touched>>
    BY <1>14 DEF vars, durable, registry, call
  <2>. QED BY <2>1, SMTT(30) DEF EmptyInv, Up
<1>. QED BY <1>1, <1>2, <1>3, <1>5, <1>6, <1>7, <1>8, <1>9, <1>10, <1>11, <1>12, <1>13, <1>14 DEF Next

\* When nothing stops a batch half way and every removal succeeds, consuming a
\* segment removes its file: between calls only the write segment can be
\* empty, across rolls, failed rolls, evictions and orderly restarts.
THEOREM ConsumedIsRemoved == CleanFaults => (Spec => []NoEmptySegment)
<1>. SUFFICES ASSUME CleanFaults PROVE Spec => []NoEmptySegment
  OBVIOUS
<1>1. SafeFaults
  BY DEF SafeFaults, CleanFaults
<1>2. SafeInv /\ OfferInv /\ EmptyInv /\ [Next]_vars => (SafeInv /\ OfferInv /\ EmptyInv)'
  BY <1>1, SafeStep, OfferStep, EmptyStep
<1>3. EmptyInv => NoEmptySegment
  BY DEF EmptyInv, NoEmptySegment, Up
<1>. QED BY SafeInit, OfferInit, EmptyInit, <1>2, <1>3, PTL DEF Spec
=============================================================================
