---------------------------- MODULE QueueStorage ----------------------------
(***************************************************************************)
(* The queue_storage extension (extension/storage/queuestorage): one       *)
(* queueClient, its segmentRegistry and the segment files it keeps on      *)
(* disk, driven by the persistent queue that owns the client.              *)
(*                                                                         *)
(* A segment is named by its startIndex.  Every call holds c.mu from its   *)
(* first to its last line, so at most one is in progress; the call is      *)
(* split into the steps between which the process can die or an I/O        *)
(* operation can fail: one step per bbolt transaction, per os.Remove and   *)
(* per created file.  Item payloads are abstracted to presence, the        *)
(* non-numeric keys to one of them, "qmv0", whose value is the write index *)
(* the queue recorded.                                                     *)
(***************************************************************************)
EXTENDS Integers, Sequences, FiniteSets, Lists

CONSTANTS
  MaxOpen,    \* max_open_segments
  MaxIndex,   \* bound: the queue offers the indices 0 .. MaxIndex-1
  MaxKeys,    \* bound: keys named by one Batch or one Walk
  Faults      \* what may go wrong, a subset of FaultKinds

FaultKinds == {
  "crash",     \* the process dies while no file is half way through a roll
  "rollCrash", \* ... between createSegment and the end of rollIfNeeded
  "close",     \* closing the evicted segment fails in ensureOpen
  "reopen",    \* opening a closed segment fails
  "commit",    \* the bbolt transaction of a group fails
  "remove",    \* os.Remove fails in gcSegment
  "create",    \* createSegment fails in rollIfNeeded
  "migrate",   \* the transaction that copies the metadata fails
  "cleanup",   \* ... and so does the os.Remove that follows it
  "bare",      \* batches without qmv0: plain Get or Delete calls, and Walk's
  "retry"}     \* the queue offers again under the index of a failed Offer

ASSUME MaxOpenAssumption == MaxOpen \in Nat /\ MaxOpen >= 2
ASSUME BoundsAssumption == MaxIndex \in Nat /\ MaxKeys \in Nat \ {0}
ASSUME FaultsAssumption == Faults \subseteq FaultKinds

VARIABLES
  disk,         \* the segment files: startIndex -> contents of the bucket
  full,         \* the files whose size has reached segmentSize
  segments,     \* r.segments, in startIndex order
  writeSegment, \* the last of r.segments
  open,         \* the segments whose db is not nil
  openList,     \* r.openList, most recently used first
  liveKeys,     \* seg.liveKeys
  nextWriteIdx, \* r.nextWriteIdx
  pc,           \* where the call that holds c.mu is
  batch,        \* the operations of that call
  todo,         \* its groups (Walk: segments) still to be handled
  touched,      \* its groups that were executed
  wi,           \* the queue's write index: the next key it will Set
  live          \* items whose Offer returned nil and that nobody deletes

durable  == <<disk, full>>
registry == <<segments, writeSegment, open, openList, liveKeys, nextWriteIdx>>
call     == <<pc, batch, todo, touched>>
client   == <<wi, live>>
vars     == <<durable, registry, call, client>>

NoMeta == -1
Empty == [items |-> {}, meta |-> NoMeta]
NoBatch == [sets |-> {}, gets |-> {}, dels |-> {}, meta |-> FALSE]

Indices == 0 .. MaxIndex
Items == 0 .. (MaxIndex - 1)
Bucket == [items : SUBSET Items, meta : Indices \cup {NoMeta}]
Batch == [sets : SUBSET Items, gets : SUBSET Items, dels : SUBSET Items, meta : BOOLEAN]

TypeOK ==
  /\ DOMAIN disk \subseteq Indices /\ \A s \in DOMAIN disk : disk[s] \in Bucket
  /\ full \subseteq DOMAIN disk
  /\ segments \subseteq Indices /\ writeSegment \in Indices
  /\ open \subseteq segments
  /\ openList \in Seq(Indices)
  /\ liveKeys \in [segments -> Nat]
  /\ nextWriteIdx \in Indices
  /\ pc \in {"down", "idle", "exec", "gc", "migrate", "walk"}
  /\ batch \in Batch
  /\ todo \subseteq segments /\ touched \subseteq Indices
  /\ wi \in Indices /\ live \subseteq Items

-----------------------------------------------------------------------------
(* Helpers *)

\* The function f with x mapped to v.
Put(f, x, v) == [y \in DOMAIN f \cup {x} |-> IF y = x THEN v ELSE f[y]]

\* The function f without x.
Drop(f, x) == [y \in DOMAIN f \ {x} |-> f[y]]

\* Where routeRead looks for a numeric key: the last segment that starts at or
\* below it, or the write segment when every segment starts above it.
RouteRead(k, s) ==
  /\ s \in segments
  /\ \/ s <= k /\ \A t \in segments : t <= k => t <= s
     \/ s = writeSegment /\ \A t \in segments : t > k

\* routeOp: the keys of a Get or a Delete follow routeRead, everything else
\* goes to the write segment.
Targets(b) ==
  {s \in segments : \E k \in b.gets \cup b.dels : RouteRead(k, s)}
    \cup (IF b.sets # {} \/ b.meta THEN {writeSegment} ELSE {})

\* Mutant: the least recently used segment, pinned or not.
LruEvictUnpinned(list, ws) == Len(list)

\* lruEvictCandidate: the position of the least recently used segment that is
\* not the write segment, 0 when there is none.
LruEvictCandidate(list, ws) ==
  LET others == {i \in 1 .. Len(list) : list[i] # ws}
  IN  IF others # {} THEN Greatest(others) ELSE 0

\* The segment that a list longer than allowed makes room by closing.
Victim(list, ws) ==
  LET i == LruEvictCandidate(list, ws) IN IF i = 0 THEN {} ELSE {list[i]}

RemoveFromOpenList(list, gone) ==
  IF gone = {} THEN list ELSE RemoveFirst(list, CHOOSE s \in gone : TRUE)

Evicted == IF Len(openList) >= MaxOpen THEN Victim(openList, writeSegment) ELSE {}

\* Mutant: opened segments are added at the end that is evicted first.
EnsureOpenAtBack(s) ==
  \/ s \in open /\ UNCHANGED <<open, openList>>
  \/ /\ s \notin open
     /\ openList' = Append(RemoveFromOpenList(openList, Evicted), s)
     /\ open' = (open \ Evicted) \cup {s}

\* ensureOpen, when it succeeds.
EnsureOpen(s) ==
  \/ /\ s \in open
     /\ openList' = <<s>> \o RemoveFirst(openList, s)
     /\ open' = open
  \/ /\ s \notin open
     /\ openList' = <<s>> \o RemoveFromOpenList(openList, Evicted)
     /\ open' = (open \ Evicted) \cup {s}

\* ensureOpen, when it returns an error: a failed close leaves the evicted
\* segment closed but in the list.
EnsureOpenFails(s) ==
  /\ s \notin open
  /\ open' = open \ Evicted
  /\ \/ "close" \in Faults /\ Evicted # {} /\ openList' = openList
     \/ "reopen" \in Faults /\ openList' = RemoveFromOpenList(openList, Evicted)

\* A commit may make the file reach segmentSize.
Grow(s) == \E g \in SUBSET {s} : full' = full \cup g

-----------------------------------------------------------------------------
(* Opening and closing a client *)

\* Mutant: off by one.
NextAtKey(k) == k

\* The index after a stored key, from which the next segment will start.
NextAfter(k) == k + 1

\* Mutant: the metadata is not found.
ReadNothing(s) == NoMeta

\* countNumericKeys, isEmpty, readNonNumericKeys: what a segment is scanned for.
CountNumericKeys(s) == Cardinality(disk[s].items)
IsEmpty(s) == disk[s].items = {}
ReadNonNumericKeys(s) == disk[s].meta

\* initRegistry on an empty directory: segment 0 is created.
StartEmpty ==
  /\ pc = "down" /\ DOMAIN disk = {}
  /\ disk' = Put(disk, 0, Empty)
  /\ Grow(0)
  /\ segments' = {0} /\ writeSegment' = 0
  /\ open' = {0} /\ openList' = <<0>>
  /\ liveKeys' = [s \in {0} |-> 0]
  /\ nextWriteIdx' = 0
  /\ pc' = "idle" /\ wi' = 0
  /\ UNCHANGED <<batch, todo, touched, live>>

\* initRegistry on existing files: stubs with liveKeys = 0 for all but the
\* last, which is opened and scanned.  The queue then reads its write index
\* back from qmv0; without one it starts at 0.
StartExisting(last) ==
  /\ pc = "down" /\ \A s \in DOMAIN disk : s <= last
  /\ segments' = DOMAIN disk /\ writeSegment' = last
  /\ open' = {last} /\ openList' = <<last>>
  /\ liveKeys' = [s \in DOMAIN disk |-> IF s = last THEN CountNumericKeys(s) ELSE 0]
  /\ \/ IsEmpty(last) /\ nextWriteIdx' = last
     \/ \E maxKey \in disk[last].items :
          /\ \A k \in disk[last].items : k <= maxKey
          /\ nextWriteIdx' = NextAfter(maxKey)
  /\ pc' = "idle"
  /\ wi' = IF ReadNonNumericKeys(last) = NoMeta THEN 0 ELSE ReadNonNumericKeys(last)
  /\ UNCHANGED <<durable, batch, todo, touched, live>>

\* The registry is forgotten, only the files stay.
Forget ==
  /\ segments' = {} /\ writeSegment' = 0
  /\ open' = {} /\ openList' = <<>>
  /\ liveKeys' = [s \in {} |-> 0] /\ nextWriteIdx' = 0
  /\ pc' = "down" /\ batch' = NoBatch /\ todo' = {} /\ touched' = {}
  /\ UNCHANGED <<durable, client>>

\* Close: every open segment is closed; the client answers nothing any more.
Close == pc = "idle" /\ Forget

\* The process dies between two steps of whatever call is in progress.
Crash ==
  /\ pc # "down"
  /\ (IF pc = "migrate" THEN "rollCrash" ELSE "crash") \in Faults
  /\ Forget

-----------------------------------------------------------------------------
(* Batch *)

\* batchLocked up to its loop over the groups.  The queue may list its
\* operations in any order, so the groups are a set of which the write segment
\* is handled first.
BatchLocked(b) ==
  /\ pc' = "exec" /\ batch' = b /\ todo' = Targets(b) /\ touched' = {}
  /\ UNCHANGED <<durable, segments, writeSegment, open, openList, liveKeys>>

\* Offer: Batch(Set qmv0, Set wi).  routeOp moves nextWriteIdx before anything
\* is written.
Offer ==
  /\ pc = "idle" /\ wi < MaxIndex
  /\ BatchLocked([NoBatch EXCEPT !.sets = {wi}, !.meta = TRUE])
  /\ nextWriteIdx' = IF NextAfter(wi) > nextWriteIdx THEN NextAfter(wi) ELSE nextWriteIdx
  /\ wi' = wi + 1
  /\ UNCHANGED live

\* The batches that come with a Set of qmv0, and those that need not.
WithMeta == IF "bare" \in Faults THEN BOOLEAN ELSE {TRUE}

KeySets(S) == {K \in SUBSET S : K # {} /\ Cardinality(K) <= MaxKeys}

\* Read: Batch(Set qmv0, Get k ...), for keys that may be gone already.
Read(K, m) ==
  /\ pc = "idle"
  /\ BatchLocked([NoBatch EXCEPT !.gets = K, !.meta = m])
  /\ UNCHANGED <<nextWriteIdx, client>>

\* Ack: Batch(Set qmv0, Delete k ...).
Ack(K, m) ==
  /\ pc = "idle"
  /\ BatchLocked([NoBatch EXCEPT !.dels = K, !.meta = m])
  /\ live' = live \ K
  /\ UNCHANGED <<nextWriteIdx, wi>>

\* The write segment's group is first, the others come in any order.
NextGroup(s) == s \in todo /\ (writeSegment \in todo => s = writeSegment)

\* The part of the batch that was routed to s.
SetsOf(s) == IF s = writeSegment THEN batch.sets ELSE {}
DelsOf(s) == {k \in batch.dels : RouteRead(k, s)}

\* execBatch: one transaction per group.
ExecBatch(s) ==
  /\ disk' = [disk EXCEPT
       ![s].items = (@ \cup SetsOf(s)) \ DelsOf(s),
       ![s].meta = IF s = writeSegment /\ batch.meta THEN wi ELSE @]
  /\ Grow(s)

\* Mutant: only Set operations are counted.
CountSetsOnly(s) ==
  liveKeys' = [liveKeys EXCEPT ![s] = @ + Cardinality(SetsOf(s))]

\* liveKeys counts operations, not keys: deleting an absent key counts too.
CountLiveKeys(s) ==
  LET n == liveKeys[s] + Cardinality(SetsOf(s)) - Cardinality(DelsOf(s))
  IN  liveKeys' = [liveKeys EXCEPT ![s] = IF n < 0 THEN 0 ELSE n]

ExecGroup(s) ==
  /\ pc = "exec" /\ NextGroup(s)
  /\ EnsureOpen(s)
  /\ ExecBatch(s)
  /\ CountLiveKeys(s)
  /\ todo' = todo \ {s} /\ touched' = touched \cup {s}
  /\ pc' = IF todo = {s} THEN "gc" ELSE "exec"
  /\ UNCHANGED <<segments, writeSegment, nextWriteIdx, batch, client>>

\* The call returns, c.mu is released.
Return == pc' = "idle" /\ batch' = NoBatch /\ todo' = {} /\ touched' = {}

\* Batch returns the error of a group: groups before it stay committed, no
\* segment is collected and none is rolled.
ExecFails(s) ==
  /\ pc = "exec" /\ NextGroup(s)
  /\ \/ EnsureOpenFails(s)
     \/ "commit" \in Faults /\ EnsureOpen(s)
  /\ wi' = IF "retry" \in Faults /\ batch.sets # {} THEN wi - 1 ELSE wi
  /\ Return
  /\ UNCHANGED <<durable, segments, writeSegment, liveKeys, nextWriteIdx, live>>

\* Batch returns nil: an offered item is now in the storage's care.
ReturnOK == Return /\ live' = live \cup batch.sets /\ UNCHANGED wi

-----------------------------------------------------------------------------
(* After the groups: collect emptied segments, roll the write segment *)

\* gcSegment looks into the bucket only when the segment is open.
Collectable(s) ==
  /\ s # writeSegment /\ liveKeys[s] = 0
  /\ s \in open => IsEmpty(s)

GcSkip(s) ==
  /\ pc = "gc" /\ s \in touched /\ ~Collectable(s)
  /\ touched' = touched \ {s}
  /\ UNCHANGED <<durable, registry, pc, batch, todo, client>>

\* gcSegment: the segment is closed first; it leaves the registry only when
\* its file is gone.
GcSegment(s) ==
  /\ pc = "gc" /\ s \in touched /\ Collectable(s)
  /\ openList' = RemoveFirst(openList, s)
  /\ open' = open \ {s}
  /\ \/ /\ disk' = Drop(disk, s) /\ full' = full \ {s}
        /\ segments' = segments \ {s} /\ liveKeys' = Drop(liveKeys, s)
     \/ "remove" \in Faults /\ UNCHANGED <<durable, segments, liveKeys>>
  /\ touched' = touched \ {s}
  /\ UNCHANGED <<writeSegment, nextWriteIdx, pc, batch, todo, client>>

\* rollIfNeeded rolls a write segment that holds items and is full.
NeedsRoll == liveKeys[writeSegment] # 0 /\ writeSegment \in full

NoRoll ==
  /\ pc = "gc" /\ touched = {} /\ ~NeedsRoll
  /\ ReturnOK
  /\ UNCHANGED <<durable, registry>>

\* createSegment(nextWriteIdx): bbolt's file lock makes it fail when this
\* process has that file open already.  A file left over from a failed roll
\* is reused.  (The model ends where a roll would break the order of the
\* registry, which takes an item stored below the start of its segment.)
RollCreate ==
  /\ pc = "gc" /\ touched = {} /\ NeedsRoll
  /\ nextWriteIdx \notin open /\ nextWriteIdx > writeSegment
  /\ disk' = Put(disk, nextWriteIdx,
                 IF nextWriteIdx \in DOMAIN disk THEN disk[nextWriteIdx] ELSE Empty)
  /\ Grow(nextWriteIdx)
  /\ pc' = "migrate"
  /\ UNCHANGED <<registry, batch, todo, touched, client>>

RollCreateFails ==
  /\ pc = "gc" /\ touched = {} /\ NeedsRoll
  /\ "create" \in Faults \/ nextWriteIdx \in open
  /\ ReturnOK
  /\ UNCHANGED <<durable, registry>>

\* The segment that rollIfNeeded closes when the list has become too long.
OverCapacity(list, ws) == IF Len(list) > MaxOpen THEN Victim(list, ws) ELSE {}

\* The metadata is copied and the new segment becomes the write segment; the
\* open list is cut back to MaxOpen.
RollMigrate ==
  LET new == nextWriteIdx
      list == <<new>> \o openList
      evicted == OverCapacity(list, new)
  IN  /\ pc = "migrate"
      /\ disk' = [disk EXCEPT ![new].meta =
                    IF ReadNonNumericKeys(writeSegment) = NoMeta THEN @
                    ELSE ReadNonNumericKeys(writeSegment)]
      /\ segments' = segments \cup {new} /\ writeSegment' = new
      /\ liveKeys' = Put(liveKeys, new, CountNumericKeys(new))
      /\ openList' = RemoveFromOpenList(list, evicted)
      /\ open' = (open \cup {new}) \ evicted
      /\ ReturnOK
      /\ UNCHANGED <<full, nextWriteIdx>>

\* The copy fails: the new file is removed, unless that fails too.
RollMigrateFails ==
  /\ pc = "migrate" /\ "migrate" \in Faults
  /\ ReadNonNumericKeys(writeSegment) # NoMeta
  /\ \/ disk' = Drop(disk, nextWriteIdx) /\ full' = full \ {nextWriteIdx}
     \/ "cleanup" \in Faults /\ UNCHANGED durable
  /\ ReturnOK
  /\ UNCHANGED registry

-----------------------------------------------------------------------------
(* Walk *)

\* Walk takes c.mu and visits the segments in startIndex order.
Walk ==
  /\ pc = "idle" /\ pc' = "walk" /\ todo' = segments
  /\ UNCHANGED <<durable, registry, batch, touched, client>>

NextToVisit(s) == s \in todo /\ \A t \in todo : s <= t

WalkSegment(s) ==
  /\ pc = "walk" /\ NextToVisit(s)
  /\ EnsureOpen(s)
  /\ todo' = todo \ {s}
  /\ UNCHANGED <<durable, segments, writeSegment, liveKeys, nextWriteIdx,
                 pc, batch, touched, client>>

\* A segment cannot be opened.
WalkFails(s) ==
  /\ pc = "walk" /\ NextToVisit(s)
  /\ EnsureOpenFails(s)
  /\ Return
  /\ UNCHANGED <<durable, segments, writeSegment, liveKeys, nextWriteIdx, client>>

\* The callback fails, the context is done, or there is nothing to apply.
WalkEnds ==
  /\ pc = "walk" /\ Return
  /\ UNCHANGED <<durable, registry, client>>

\* After the last segment, or when the callback said SkipAll: the deletions
\* collected from the visited segments go through batchLocked.
WalkApply(K) ==
  /\ pc = "walk" /\ "bare" \in Faults
  /\ K \subseteq UNION {disk[s].items : s \in segments \ todo}
  /\ BatchLocked([NoBatch EXCEPT !.dels = K])
  /\ live' = live \ K
  /\ UNCHANGED <<nextWriteIdx, wi>>

-----------------------------------------------------------------------------
Init ==
  /\ disk = [s \in {} |-> Empty] /\ full = {}
  /\ segments = {} /\ writeSegment = 0 /\ open = {} /\ openList = <<>>
  /\ liveKeys = [s \in {} |-> 0] /\ nextWriteIdx = 0
  /\ pc = "down" /\ batch = NoBatch /\ todo = {} /\ touched = {}
  /\ wi = 0 /\ live = {}

Next ==
  \/ StartEmpty \/ Close \/ Crash \/ Offer
  \/ \E last \in DOMAIN disk : StartExisting(last)
  \/ \E K \in KeySets(0 .. wi - 1), m \in WithMeta : Read(K, m) \/ Ack(K, m)
  \/ \E s \in todo : ExecGroup(s) \/ ExecFails(s) \/ WalkSegment(s) \/ WalkFails(s)
  \/ \E s \in touched : GcSkip(s) \/ GcSegment(s)
  \/ NoRoll \/ RollCreate \/ RollCreateFails \/ RollMigrate \/ RollMigrateFails
  \/ Walk \/ WalkEnds
  \/ \E K \in KeySets(Items) : WalkApply(K)

Spec == Init /\ [][Next]_vars

-----------------------------------------------------------------------------
(* Properties *)

Up == pc # "down"

\* Whatever happened before, an item in a segment file is one that routeRead
\* finds there: rolling, collecting, failing and restarting never move the
\* boundary between two segments across a stored key.
ItemsRoutable ==
  Up => \A s \in segments : \A k \in disk[s].items : RouteRead(k, s)

\* An item whose Offer returned nil can be read until somebody deletes it: no
\* collection, roll, eviction, failed operation, crash or restart loses it.
NoItemLost ==
  Up => \A k \in live : \E s \in segments : RouteRead(k, s) /\ k \in disk[s].items

\* max_open_segments bounds the open bbolt files, each open file is in the
\* list that eviction works from, and the write segment is never evicted.
OpenFilesBounded ==
  Up => /\ Len(openList) <= MaxOpen
        /\ open \subseteq Range(openList)
        /\ writeSegment \in open

\* gcSegment removes the file of a segment only when it holds no item.
GcOnlyEmpty ==
  [][\A s \in DOMAIN disk \ DOMAIN disk' : disk[s].items = {}]_vars

\* Offer is atomic: when no call is in progress, the write index in the
\* write segment is above every stored item, so a queue that restarts from it
\* never reuses the key of an item.
IndexCoversItems ==
  pc = "idle" => \A s \in segments : \A k \in disk[s].items : k < disk[writeSegment].meta

\* Between calls every segment but the write segment holds an item: consuming
\* a segment removes its file.
NoEmptySegment ==
  pc = "idle" => \A s \in segments \ {writeSegment} : disk[s].items # {}

-----------------------------------------------------------------------------
(* What the queue sees *)

\* The items that a Get would find, the write index that it would read.
StoredItems ==
  IF Up THEN {k \in Items : \E s \in segments : RouteRead(k, s) /\ k \in disk[s].items}
        ELSE UNION {disk[s].items : s \in DOMAIN disk}

RecordedIndex ==
  IF Up THEN disk[writeSegment].meta
  ELSE IF DOMAIN disk = {} THEN NoMeta
  ELSE disk[CHOOSE s \in DOMAIN disk : \A t \in DOMAIN disk : t <= s].meta

Store == INSTANCE ItemStore WITH
  stored <- StoredItems, index <- RecordedIndex, deleting <- batch.dels

\* The segmented storage implements ItemStore: rolling, collecting, evicting,
\* failing and restarting are stuttering steps for the queue.
StoreSpec == Store!Spec
=============================================================================
