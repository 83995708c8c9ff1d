----------------------------- MODULE BlockProofs -----------------------------
(***************************************************************************)
(* Proofs about the blocks on disk.                                        *)
(*                                                                         *)
(* The block disk store implements LossyStore, whatever the number of      *)
(* hashes, of stores opened and of their writers.  What is to be shown is  *)
(* that a file that a read finds is whole.  A file is renamed before it is *)
(* whole only by the writer of an earlier store, while the main thread is  *)
(* still saving it; the reader is the main thread, which has then finished *)
(* it.  Every other rename is of a queued file, and a file is queued when  *)
(* it has been saved.  Then it is shown that files and rows go together,   *)
(* and that what eviction leaves is within the budget.                     *)
(*                                                                         *)
(* The second half is about what is in a block (BlockData): that a hit is  *)
(* the whole prefix with every layer aligned, that the companion state of  *)
(* a hybrid model comes with it, and that a trip to disk loses no layer.   *)
(***************************************************************************)
EXTENDS BlockDiskStore, BlockData, ListsProofs, SequenceTheorems, FiniteSetTheorems, TLAPS

\* An access update has the hash None.
Rows   == Hashes \cup {None}
Places == {"start", "get", "item", "forget", "renamed", "evict", "ended"}
Stores == [queue : Seq(Items), batch : Seq(Items), pc : Places, stop : BOOLEAN,
           gone : SUBSET Rows]
Tmps   == [hash : Hashes, seq : Nat, epoch : Nat, whole : BOOLEAN]
Files  == {None} \cup [epoch : Nat, whole : BOOLEAN]

\* The types the steps rely on.
Typed ==
  /\ rows \subseteq Rows
  /\ final \in [Hashes -> Files]
  /\ tmps \subseteq Tmps
  /\ store \in [1 .. MaxStores -> Stores]
  /\ \A s \in 1 .. MaxStores :
       store[s].pc \in {"forget", "renamed"} => store[s].batch # << >>
  /\ cur \in 1 .. MaxStores /\ seq \in Nat /\ epoch \in Nat
  /\ main.pc \in {"save", "load"} => main.hash \in Hashes
  /\ main.pc = "save" => main.seq \in Nat /\ main.seq < seq
  /\ faults \in Faults

Overlaps == "overlap" \in faults

\* Only the writer of the store in use works, unless writers overlap.
OneWriter ==
  ~ Overlaps =>
    /\ \A s \in 1 .. MaxStores : s # cur => store[s].pc = "ended"
    /\ main.pc = "closed" => store[cur].pc = "ended"

\* What a store has still to do.
Pending(q) == {q.queue[i] : i \in DOMAIN q.queue} \cup {q.batch[i] : i \in DOMAIN q.batch}

\* A queued file has been saved.
Saved(x) ==
  x.op = "write" =>
    /\ x.seq < seq
    /\ main.pc = "save" => x.seq # main.seq
    /\ \A t \in tmps : t.hash = x.hash /\ t.seq = x.seq => t.whole

QueuedSaved == ~ Overlaps => \A x \in Pending(store[cur]) : Saved(x)

Saving(h, n) == main.pc = "save" /\ main.hash = h /\ main.seq = n

\* When writers overlap, the only partial file is the one being saved, ...
PartialTmp == Overlaps => \A t \in tmps : t.whole \/ Saving(t.hash, t.seq)

\* ... and it is either a temporary file or published, not both.
PartialFinal ==
  \A h \in Hashes :
    \/ final[h] = None \/ final[h].whole
    \/ Overlaps /\ Saving(h, main.seq) /\ TmpOf(h, main.seq) = {}

\* Between the removal of the files and that of the rows nothing is published.
Emptied == main.pc = "rows" => tmps = {} /\ \A h \in Hashes : final[h] = None

IInv == Typed /\ OneWriter /\ QueuedSaved /\ PartialTmp /\ PartialFinal /\ Emptied

-------------------------------------------------------------------------------
(* Files and queues.                                                       *)

\* A finished file is whole and otherwise the same.
LEMMA WrittenTmp ==
  ASSUME NEW t \in Tmps
  PROVE  /\ Written(t) \in Tmps /\ Written(t).whole
         /\ Written(t).hash = t.hash /\ Written(t).seq = t.seq
         /\ Written(t).epoch = t.epoch
BY DEF Tmps, Written

LEMMA WrittenFile ==
  ASSUME NEW f \in Files, f # None
  PROVE  Written(f) \in Files /\ Written(f).whole /\ Written(f).epoch = f.epoch
BY DEF Files, Written

\* A new store and one that has ended have nothing to do.
LEMMA StoresFacts ==
  /\ NewStore \in Stores /\ NewStore.pc = "start" /\ Pending(NewStore) = {}
  /\ Ended \in Stores /\ Ended.pc = "ended"
<1>1. /\ NewStore \in Stores /\ NewStore.pc = "start"
      /\ NewStore.queue = << >> /\ NewStore.batch = << >>
  BY DEF NewStore, StoreAt, Stores, Places
<1>2. Ended \in Stores /\ Ended.pc = "ended"
  BY DEF Ended, StoreAt, Stores, Places
<1>3. Pending(NewStore) = {}
  BY <1>1 DEF Pending
<1>4. QED  BY <1>1, <1>2, <1>3

\* Offering an item to a queue changes only the queue.
LEMMA PutFacts ==
  ASSUME NEW q \in Stores, NEW x \in Items
  PROVE  /\ Put(q, x) \in Stores
         /\ Put(q, x).batch = q.batch /\ Put(q, x).pc = q.pc
         /\ Pending(Put(q, x)) \subseteq Pending(q) \cup {x}
<1>1. CASE Len(q.queue) < MaxQueue
  <2> DEFINE a == Append(q.queue, x)
  <2>1. /\ a \in Seq(Items) /\ Len(a) = Len(q.queue) + 1
        /\ \A i \in 1 .. Len(q.queue) : a[i] = q.queue[i]
        /\ a[Len(q.queue) + 1] = x
        /\ DOMAIN a = 1 .. Len(a) /\ DOMAIN q.queue = 1 .. Len(q.queue)
        /\ Len(q.queue) \in Nat
    BY AppendProperties, LenProperties DEF Stores
  <2> DEFINE r == [q EXCEPT !.queue = a]
  <2>2. Put(q, x) = r
    BY <1>1 DEF Put
  <2> HIDE DEF a
  <2>3. r \in Stores /\ r.batch = q.batch /\ r.pc = q.pc /\ r.queue = a
    BY <2>1 DEF Stores
  <2>4. \A i \in DOMAIN a : a[i] = x \/ (i \in DOMAIN q.queue /\ a[i] = q.queue[i])
    BY <2>1
  <2> HIDE DEF r
  <2>5. Pending(r) \subseteq Pending(q) \cup {x}
    BY <2>3, <2>4 DEF Pending
  <2>6. QED  BY <2>2, <2>3, <2>5
<1>2. CASE ~ Len(q.queue) < MaxQueue
  BY <1>2 DEF Put
<1>3. QED  BY <1>1, <1>2

\* What is pending are items.
LEMMA PendingItems ==
  ASSUME NEW q \in Stores
  PROVE  Pending(q) \subseteq Items
<1>1. /\ \A i \in DOMAIN q.queue : q.queue[i] \in Items
      /\ \A i \in DOMAIN q.batch : q.batch[i] \in Items
  BY DEF Stores
<1>2. QED  BY <1>1 DEF Pending

\* The item at hand is one of the pending ones.
LEMMA AtHandFacts ==
  ASSUME Typed, NEW s \in 1 .. MaxStores, store[s].batch # << >>
  PROVE  AtHand(s) \in Items /\ AtHand(s) \in Pending(store[s])
<1>1. store[s].batch \in Seq(Items)
  BY DEF Typed, Stores
<1>2. 1 \in DOMAIN store[s].batch /\ AtHand(s) = store[s].batch[1]
  BY <1>1, LenProperties, EmptySeq DEF AtHand
<1>3. QED  BY <1>1, <1>2 DEF Pending

\* The steps of a store: only that store changes, and it has no more to do.
StoreStep(s) ==
  /\ store' \in [1 .. MaxStores -> Stores]
  /\ \A r \in 1 .. MaxStores : r # s => store'[r] = store[r]
  /\ Pending(store'[s]) \subseteq Pending(store[s])
  /\ store'[s].pc \in {"forget", "renamed"} => store'[s].batch # << >>

\* An item done is no longer pending.
LEMMA DoneFacts ==
  ASSUME Typed, NEW s \in 1 .. MaxStores, store[s].batch # << >>, store' = Done(s)
  PROVE  StoreStep(s) /\ store'[s].pc = "item"
<1> DEFINE b == store[s].batch
<1>1. b \in Seq(Items)
  BY DEF Typed, Stores
<1>2. /\ Tail(b) \in Seq(Items) /\ Len(Tail(b)) = Len(b) - 1 /\ Len(b) \in Nat \ {0}
      /\ \A i \in 1 .. Len(Tail(b)) : Tail(b)[i] = b[i + 1]
      /\ DOMAIN b = 1 .. Len(b) /\ DOMAIN Tail(b) = 1 .. Len(Tail(b))
  BY <1>1, HeadTailProperties, LenProperties, EmptySeq
<1>3. store' \in [1 .. MaxStores -> Stores]
  BY <1>2 DEF Typed, Stores, Places, Done
<1>4. /\ store'[s].pc = "item" /\ store'[s].batch = Tail(b)
      /\ store'[s].queue = store[s].queue
      /\ \A r \in 1 .. MaxStores : r # s => store'[r] = store[r]
  BY DEF Typed, Stores, Done
<1>5. \A i \in DOMAIN Tail(b) : i + 1 \in DOMAIN b /\ Tail(b)[i] = b[i + 1]
  BY <1>2
<1>6. Pending(store'[s]) \subseteq Pending(store[s])
  BY <1>4, <1>5 DEF Pending
<1>7. QED  BY <1>3, <1>4, <1>6 DEF StoreStep

-------------------------------------------------------------------------------
(* The invariant.                                                          *)

\* An empty directory satisfies it.
LEMMA InitIInv == Init => IInv
<1> SUFFICES ASSUME Init PROVE IInv
  OBVIOUS
<1>1. Typed
  <2>1. store \in [1 .. MaxStores -> Stores]
    BY StoresFacts DEF Init
  <2>2. 1 \in 1 .. MaxStores
    BY DiskAssumption
  <2>3. \A s \in 1 .. MaxStores : store[s].pc \in {"start", "ended"}
    BY StoresFacts DEF Init
  <2>4. main.pc = "idle"
    BY DEF Init, Idle
  <2>5. QED  BY <2>1, <2>2, <2>3, <2>4 DEF Init, Typed, Files
<1>2. \A s \in 1 .. MaxStores : s # 1 => store[s].pc = "ended"
  BY StoresFacts DEF Init
<1>3. Pending(store[1]) = {}
  BY DiskAssumption, StoresFacts DEF Init
<1>4. cur = 1 /\ main.pc = "idle"
  BY DEF Init, Idle
<1>5. OneWriter /\ QueuedSaved
  BY <1>2, <1>3, <1>4 DEF OneWriter, QueuedSaved
<1>6. PartialTmp /\ PartialFinal /\ Emptied
  BY <1>4 DEF Init, PartialTmp, PartialFinal, Emptied
<1>7. QED  BY <1>1, <1>5, <1>6 DEF IInv

\* What may happen to the files beside a save: a file goes, or a temporary
\* file that is whole, or of a store that overlaps, is published.
Publishes(t) ==
  /\ t.whole \/ Overlaps
  /\ TmpOf(t.hash, t.seq)' = {}
  /\ final'[t.hash] = [epoch |-> t.epoch, whole |-> t.whole]

Shrinks ==
  /\ tmps' \subseteq tmps
  /\ final' \in [Hashes -> Files]
  /\ \A h \in Hashes :
       \/ final'[h] = None \/ final'[h] = final[h]
       \/ \E t \in tmps : t.hash = h /\ Publishes(t)

\* When nothing is lost of what is saved, and the steps of the queues are as
\* above, the invariant is kept.
LEMMA StepIInv ==
  ASSUME IInv, Shrinks, rows' \subseteq Rows, UNCHANGED <<cur, seq, epoch, faults>>,
         NEW s \in 1 .. MaxStores, StoreStep(s),
         s = cur \/ store[s].pc # "ended",
         \/ UNCHANGED main
         \/ /\ main.pc # "save" /\ main'.pc # "save"
            /\ main'.pc = "load" => main'.hash \in Hashes,
         main'.pc = "closed" => Overlaps \/ store'[cur].pc = "ended",
         main'.pc = "rows" => tmps' = {} /\ \A h \in Hashes : final'[h] = None
  PROVE  IInv'
<1> USE DEF IInv
<1>1. Typed'
  BY DEF Typed, Shrinks, StoreStep
<1>2. Overlaps' = Overlaps
  BY DEF Overlaps
<1>3. ~ Overlaps => s = cur
  BY DEF OneWriter
<1>4. OneWriter'
  BY <1>2, <1>3 DEF OneWriter, StoreStep
<1>5. ASSUME NEW x, Saved(x) PROVE Saved(x)'
  BY <1>5 DEF Saved, Shrinks
<1>6. QueuedSaved'
  BY <1>2, <1>3, <1>5 DEF QueuedSaved, StoreStep
<1>7. \A h, n : Saving(h, n) => main' = main /\ Saving(h, n)'
  BY DEF Saving
<1>8. PartialTmp'
  BY <1>2, <1>7 DEF PartialTmp, Shrinks
<1>9. PartialFinal'
  <2> SUFFICES ASSUME NEW h \in Hashes, final'[h] # None, ~ final'[h].whole
               PROVE  Overlaps /\ Saving(h, main.seq)' /\ (TmpOf(h, main.seq) = {})'
    BY <1>2 DEF PartialFinal
  <2>1. CASE final'[h] = final[h]
    <3>1. Overlaps /\ Saving(h, main.seq) /\ TmpOf(h, main.seq) = {}
      BY <2>1 DEF PartialFinal
    <3>2. TmpOf(h, main.seq)' = {}
      BY <3>1, <1>7 DEF TmpOf, Shrinks
    <3>3. main' = main /\ Saving(h, main.seq)'
      BY <3>1, <1>7
    <3>4. QED  BY <3>1, <3>2, <3>3 DEF TmpOf
  <2>2. ASSUME NEW t \in tmps, t.hash = h, Publishes(t)
        PROVE  Overlaps /\ Saving(h, main.seq)' /\ (TmpOf(h, main.seq) = {})'
    <3>1. ~ t.whole /\ Overlaps /\ TmpOf(h, t.seq)' = {} /\ t.hash = h
      BY <2>2 DEF Publishes
    <3>2. Saving(h, t.seq)
      BY <3>1 DEF PartialTmp
    <3>3. main'.seq = t.seq /\ Saving(h, t.seq)'
      BY <3>2, <1>7 DEF Saving
    <3>4. (TmpOf(h, main.seq) = {})'
      BY <3>1, <3>3 DEF TmpOf
    <3>5. QED  BY <3>1, <3>3, <3>4
  <2>3. QED  BY <2>1, <2>2 DEF Shrinks
<1>10. Emptied'
  BY DEF Emptied
<1>11. QED  BY <1>1, <1>4, <1>6, <1>8, <1>9, <1>10

-------------------------------------------------------------------------------
(* The writer.                                                             *)

\* What the loop takes was in the queue, and stays pending.
LEMMA GetStep ==
  ASSUME IInv, NEW s \in 1 .. MaxStores, WriterGet(s)
  PROVE  StoreStep(s)
<1> USE DEF IInv
<1>1. CASE store[s].stop
  <2>1. store' = [store EXCEPT ![s].pc = "ended"]
    BY <1>1 DEF WriterGet
  <2>2. store' \in [1 .. MaxStores -> Stores]
    BY <2>1 DEF Typed, Stores, Places
  <2>3. /\ store'[s].pc = "ended" /\ store'[s].batch = store[s].batch
        /\ store'[s].queue = store[s].queue
        /\ \A r \in 1 .. MaxStores : r # s => store'[r] = store[r]
    BY <2>1 DEF Typed, Stores
  <2>4. QED  BY <2>2, <2>3 DEF StoreStep, Pending
<1>2. ASSUME ~ store[s].stop PROVE StoreStep(s)
  <2> DEFINE q == store[s].queue
  <2>1. PICK n \in 1 .. Len(q) :
          store' = [store EXCEPT ![s].pc = "item", ![s].batch = SubSeq(q, 1, n),
                                 ![s].queue = SubSeq(q, n + 1, Len(q))]
    BY <1>2 DEF WriterGet, Typed, Stores
  <2> DEFINE u == SubSeq(q, 1, n)
             v == SubSeq(q, n + 1, Len(q))
  <2>2. q \in Seq(Items) /\ Len(q) \in Nat /\ DOMAIN q = 1 .. Len(q)
    BY LenProperties DEF Typed, Stores
  <2>3. \A i \in 1 .. Len(q) : q[i] \in Items
    BY <2>2
  <2>4. u \in Seq(Items) /\ Len(u) = n /\ \A i \in 1 .. n : u[i] = q[i]
    <3>1. /\ u \in Seq(Items)
          /\ Len(u) = IF 1 <= n THEN n - 1 + 1 ELSE 0
          /\ \A i \in 1 .. n - 1 + 1 : u[i] = q[1 + i - 1]
      BY <2>2, <2>3, SubSeqProperties
    <3>2. QED  BY <3>1, <2>2
  <2>5. v \in Seq(Items) /\ Len(v) = Len(q) - n
        /\ \A i \in 1 .. Len(q) - n : v[i] = q[n + i]
    <3>1. /\ v \in Seq(Items)
          /\ Len(v) = IF n + 1 <= Len(q) THEN Len(q) - (n + 1) + 1 ELSE 0
          /\ \A i \in 1 .. Len(q) - (n + 1) + 1 : v[i] = q[n + 1 + i - 1]
      BY <2>2, <2>3, SubSeqProperties
    <3>2. QED  BY <3>1, <2>2
  <2>6. DOMAIN u = 1 .. n /\ DOMAIN v = 1 .. Len(q) - n
    BY <2>4, <2>5, LenProperties
  <2>7. \A i \in DOMAIN u : i \in DOMAIN q /\ u[i] = q[i]
    BY <2>2, <2>4, <2>6
  <2>8. \A i \in DOMAIN v : n + i \in DOMAIN q /\ v[i] = q[n + i]
    BY <2>2, <2>5, <2>6
  <2>9. u # << >>
    BY <2>2, <2>6
  <2> HIDE DEF u, v
  <2>10. store' = [store EXCEPT ![s].pc = "item", ![s].batch = u, ![s].queue = v]
    BY <2>1 DEF u, v
  <2>11. store' \in [1 .. MaxStores -> Stores]
    <3>1. u \in Seq(Items) /\ v \in Seq(Items)
      BY <2>4, <2>5
    <3>2. /\ DOMAIN store' = 1 .. MaxStores
          /\ \A r \in 1 .. MaxStores : r # s => store'[r] = store[r]
      BY <2>10 DEF Typed, Stores
    <3>3. store'[s] = [store[s] EXCEPT !.pc = "item", !.batch = u, !.queue = v]
      BY <2>10 DEF Typed, Stores
    <3>4. store[s] \in Stores
      BY DEF Typed
    <3>5. store'[s] \in Stores
      BY ONLY <3>1, <3>3, <3>4 DEF Stores, Places
    <3>6. store' = [r \in 1 .. MaxStores |-> store'[r]]
      BY <2>10 DEF Typed
    <3>7. QED  BY <3>2, <3>5, <3>6 DEF Typed
  <2>12. /\ store'[s].pc = "item" /\ store'[s].batch = u /\ store'[s].queue = v
         /\ \A r \in 1 .. MaxStores : r # s => store'[r] = store[r]
    BY <2>10 DEF Typed, Stores
  <2>13. Pending(store'[s]) \subseteq Pending(store[s])
    BY <2>7, <2>8, <2>12 DEF Pending
  <2>14. QED  BY <2>11, <2>12, <2>13, <2>9 DEF StoreStep
<1>3. QED  BY <1>1, <1>2

\* A store that goes to another place with the same items.
LEMMA MoveStep ==
  ASSUME Typed, NEW s \in 1 .. MaxStores, NEW pc \in Places, NEW G \in SUBSET Rows,
         store' = [store EXCEPT ![s].pc = pc, ![s].gone = G],
         pc \in {"forget", "renamed"} => store[s].batch # << >>
  PROVE  StoreStep(s) /\ store'[s].pc = pc
<1>1. store' \in [1 .. MaxStores -> Stores]
  BY DEF Typed, Stores
<1>2. /\ store'[s].pc = pc /\ store'[s].batch = store[s].batch
      /\ store'[s].queue = store[s].queue
      /\ \A r \in 1 .. MaxStores : r # s => store'[r] = store[r]
  BY DEF Typed, Stores
<1>3. QED  BY <1>1, <1>2 DEF StoreStep, Pending

\* Likewise when nothing is noted as gone.
LEMMA PlaceStep ==
  ASSUME Typed, NEW s \in 1 .. MaxStores, NEW pc \in Places,
         store' = [store EXCEPT ![s].pc = pc],
         pc \in {"forget", "renamed"} => store[s].batch # << >>
  PROVE  StoreStep(s) /\ store'[s].pc = pc
<1>1. store' \in [1 .. MaxStores -> Stores]
  BY DEF Typed, Stores
<1>2. /\ store'[s].pc = pc /\ store'[s].batch = store[s].batch
      /\ store'[s].queue = store[s].queue
      /\ \A r \in 1 .. MaxStores : r # s => store'[r] = store[r]
  BY DEF Typed, Stores
<1>3. QED  BY <1>1, <1>2 DEF StoreStep, Pending

\* No files change.
LEMMA StillShrinks == ASSUME Typed, UNCHANGED <<final, tmps>> PROVE Shrinks
BY DEF Shrinks, Typed

\* A step of a writer does not add to what is pending, and publishes only what
\* is saved, or what an overlapping store wrote.
LEMMA WriterSteps ==
  ASSUME IInv, NEW s \in 1 .. MaxStores, Writer(s)
  PROVE  StoreStep(s) /\ Shrinks /\ store[s].pc # "ended"
<1> USE DEF IInv
<1> DEFINE h == AtHand(s).hash
<1>1. CASE WriterGet(s)
  <2>1. store[s].pc # "ended"
    BY <1>1 DEF WriterGet
  <2>2. UNCHANGED <<final, tmps>>
    BY <1>1 DEF WriterGet, disk
  <2>3. QED  BY <1>1, <2>1, <2>2, GetStep, StillShrinks
<1>2. CASE WriterAccess(s)
  <2>1. UNCHANGED <<final, tmps>> /\ store' = Done(s)
        /\ store[s].pc # "ended" /\ store[s].batch # << >>
    BY <1>2 DEF WriterAccess, AtItem, disk
  <2>2. QED  BY <2>1, DoneFacts, StillShrinks
<1>3. CASE WriterCleanup(s)
  <2>1. store[s].pc # "ended" /\ store[s].batch # << >> /\ tmps' = tmps
    BY <1>3 DEF WriterCleanup, AtItem
  <2>2. CASE h \in rows
    <3>1. final' = [final EXCEPT ![h] = None] /\ store' = [store EXCEPT ![s].pc = "forget"]
      BY <1>3, <2>2 DEF WriterCleanup
    <3>2. Shrinks
      BY <2>1, <3>1 DEF Shrinks, Typed, Files
    <3>3. StoreStep(s)
      BY <2>1, <3>1, PlaceStep DEF Places
    <3>4. QED  BY <2>1, <3>2, <3>3
  <2>3. CASE h \notin rows
    <3>1. store' = Done(s) /\ UNCHANGED <<final, tmps>>
      BY <1>3, <2>3 DEF WriterCleanup
    <3>2. QED  BY <2>1, <3>1, DoneFacts, StillShrinks
  <2>4. QED  BY <2>2, <2>3
<1>4. CASE WriterForget(s)
  <2>1. UNCHANGED <<final, tmps>> /\ store' = Done(s)
        /\ store[s].pc # "ended" /\ store[s].batch # << >>
    BY <1>4 DEF WriterForget, Typed
  <2>2. QED  BY <2>1, DoneFacts, StillShrinks
<1>5. CASE WriterWrite(s)
  <2> DEFINE n == AtHand(s).seq
             mine == TmpOf(h, n)
  <2>1. store[s].pc = "item" /\ store[s].batch # << >> /\ AtHand(s).op = "write"
    BY <1>5 DEF WriterWrite, AtItem, AtHand
  <2>2. tmps' = tmps \ mine
    BY <1>5 DEF WriterWrite
  <2>3. CASE h \in rows \/ mine = {}
    <3>1. store' = Done(s) /\ final' = final
      BY <1>5, <2>3 DEF WriterWrite
    <3>2. Shrinks
      BY <2>2, <3>1 DEF Shrinks, Typed
    <3>3. QED  BY <2>1, <3>1, <3>2, DoneFacts
  <2>4. CASE ~ (h \in rows \/ mine = {})
    <3>1. store' = [store EXCEPT ![s].pc = "renamed"]
      BY <1>5, <2>4 DEF WriterWrite
    <3>2. PICK t \in mine : final' = [final EXCEPT ![h] = [epoch |-> t.epoch, whole |-> t.whole]]
      BY <1>5, <2>4 DEF WriterWrite
    <3>3. t \in tmps /\ t \in Tmps /\ t.hash = h /\ t.seq = n
      BY <3>2 DEF TmpOf, Typed
    <3>4. h \in Hashes /\ t.epoch \in Nat /\ t.whole \in BOOLEAN
      BY <3>3 DEF Tmps
    <3>5. t.whole \/ Overlaps
      <4>1. SUFFICES ASSUME ~ Overlaps PROVE t.whole
        OBVIOUS
      <4>2. s = cur
        BY <2>1, <4>1 DEF OneWriter
      <4>3. Saved(AtHand(s))
        BY <2>1, <4>1, <4>2, AtHandFacts DEF QueuedSaved
      <4>4. QED  BY <2>1, <3>3, <4>3 DEF Saved
    <3>6. TmpOf(t.hash, t.seq)' = {}
      BY <2>2, <3>3 DEF TmpOf
    <3>7. final' \in [Hashes -> Files]
      BY <3>2, <3>4 DEF Typed, Files
    <3>8. final'[t.hash] = [epoch |-> t.epoch, whole |-> t.whole]
          /\ \A k \in Hashes : k # t.hash => final'[k] = final[k]
      BY <3>2, <3>3, <3>4 DEF Typed
    <3>10. Publishes(t)
      BY <3>5, <3>6, <3>8 DEF Publishes
    <3>11. Shrinks
      BY <2>2, <3>3, <3>7, <3>8, <3>10 DEF Shrinks, Typed
    <3>12. QED  BY <2>1, <3>1, <3>11, PlaceStep DEF Places
  <2>5. QED  BY <2>3, <2>4
<1>6. CASE WriterInsert(s)
  <2>1. UNCHANGED <<final, tmps>> /\ store' = Done(s)
        /\ store[s].pc # "ended" /\ store[s].batch # << >>
    BY <1>6 DEF WriterInsert, Typed
  <2>2. QED  BY <2>1, DoneFacts, StillShrinks
<1>7. CASE WriterEvict(s)
  <2>1. store[s].pc = "item" /\ tmps' = tmps
    BY <1>7 DEF WriterEvict
  <2>2. CASE ~ OverBudget
    <3>1. final' = final /\ store' = [store EXCEPT ![s].pc = "get"]
      BY <1>7, <2>2 DEF WriterEvict
    <3>2. QED  BY <2>1, <3>1, PlaceStep, StillShrinks DEF Places
  <2>3. CASE OverBudget
    <3>1. PICK V \in SUBSET rows :
            /\ final' = [k \in Hashes |-> IF k \in V THEN None ELSE final[k]]
            /\ store' = [store EXCEPT ![s].pc = "evict", ![s].gone = V]
      BY <1>7, <2>3 DEF WriterEvict
    <3>2. Shrinks
      BY <2>1, <3>1 DEF Shrinks, Typed, Files
    <3>3. StoreStep(s)
      BY <3>1, MoveStep DEF Typed, Places
    <3>4. QED  BY <2>1, <3>2, <3>3
  <2>4. QED  BY <2>2, <2>3
<1>8. CASE WriterCommit(s)
  <2>1. /\ UNCHANGED <<final, tmps>> /\ store[s].pc # "ended"
        /\ \/ store' = [store EXCEPT ![s].pc = "get", ![s].gone = {}]
           \/ store' = [store EXCEPT ![s].pc = "ended", ![s].gone = {}]
    BY <1>8 DEF WriterCommit
  <2>2. /\ "get" \in Places /\ "ended" \in Places /\ {} \in SUBSET Rows
        /\ "get" \notin {"forget", "renamed"} /\ "ended" \notin {"forget", "renamed"}
    BY DEF Places
  <2>3. StoreStep(s)
    BY <2>1, <2>2, MoveStep
  <2>4. QED  BY <2>1, <2>3, StillShrinks
<1>9. CASE FlushDone(s)
  <2>1. UNCHANGED <<final, tmps>> /\ store[s].pc # "ended"
        /\ store' = [store EXCEPT ![s].pc = "ended"]
    BY <1>9 DEF FlushDone, disk
  <2>2. QED  BY <2>1, PlaceStep, StillShrinks DEF Places
<1>10. QED
  BY <1>1, <1>2, <1>3, <1>4, <1>5, <1>6, <1>7, <1>8, <1>9 DEF Writer

\* The writer leaves the main thread's variables alone.
LEMMA WriterMain ==
  ASSUME NEW s \in 1 .. MaxStores, Writer(s)
  PROVE  UNCHANGED mainvars
BY DEF Writer, WriterGet, WriterAccess, WriterCleanup, WriterForget, WriterWrite,
       WriterInsert, WriterEvict, WriterCommit, FlushDone, mainvars

\* It inserts the row of an item.
LEMMA WriterRows ==
  ASSUME IInv, NEW s \in 1 .. MaxStores, Writer(s)
  PROVE  rows' \subseteq Rows
<1>1. WriterInsert(s) => rows' \subseteq Rows
  BY AtHandFacts DEF WriterInsert, Items, Rows, IInv, Typed
<1>2. ~ WriterInsert(s) => rows' \subseteq rows
  BY DEF Writer, WriterGet, WriterAccess, WriterCleanup, WriterForget, WriterWrite,
         WriterEvict, WriterCommit, FlushDone, disk
<1>3. QED  BY <1>1, <1>2 DEF IInv, Typed

LEMMA WriterIInv ==
  ASSUME IInv, NEW s \in 1 .. MaxStores, Writer(s)
  PROVE  IInv'
<1>1. StoreStep(s) /\ Shrinks /\ store[s].pc # "ended"
  BY WriterSteps
<1>2. UNCHANGED <<cur, seq, epoch, faults>> /\ UNCHANGED main
  BY WriterMain DEF mainvars
<1>3. s # cur => Overlaps
  BY <1>1 DEF IInv, OneWriter
<1>4. main'.pc = "closed" => Overlaps \/ store'[cur].pc = "ended"
  BY <1>1, <1>2, <1>3 DEF IInv, OneWriter
<1>5. main'.pc = "rows" => tmps' = {} /\ \A h \in Hashes : final'[h] = None
  BY <1>1, <1>2 DEF IInv, Emptied, Shrinks
<1>6. QED  BY <1>1, <1>2, <1>4, <1>5, WriterRows, StepIInv

-------------------------------------------------------------------------------
(* The main thread.                                                        *)

\* A save begins with a number that no queued file has.
LEMMA SaveBeginIInv ==
  ASSUME IInv, NEW h \in Hashes, SaveBegin(h)
  PROVE  IInv'
<1> USE DEF IInv
<1> DEFINE t == [hash |-> h, seq |-> seq, epoch |-> epoch, whole |-> FALSE]
<1>1. tmps' = tmps \cup {t} /\ t \in Tmps /\ t.hash = h /\ t.seq = seq /\ seq' = seq + 1
  BY DEF Typed, Tmps, SaveBegin
<1>2. main.pc = "idle" /\ main'.pc = "save" /\ main'.hash = h /\ main'.seq = seq
  BY DEF SaveBegin
<1>3. UNCHANGED <<rows, final, store, cur, epoch, faults>>
  BY DEF SaveBegin
<1> HIDE DEF t
<1>4. Typed'
  BY <1>1, <1>2, <1>3 DEF Typed
<1>5. OneWriter'
  BY <1>2, <1>3 DEF OneWriter, Overlaps
<1>6. ASSUME NEW x \in Items, Saved(x) PROVE Saved(x)'
  BY <1>1, <1>2, <1>6 DEF Typed, Saved, Items
<1>7. QueuedSaved'
  <2>1. Pending(store[cur]) \subseteq Items
    BY PendingItems DEF Typed
  <2>2. QED  BY <1>3, <1>6, <2>1 DEF QueuedSaved, Overlaps
<1>8. PartialTmp'
  BY <1>1, <1>2, <1>3 DEF PartialTmp, Saving, Overlaps
<1>9. PartialFinal'
  BY <1>2, <1>3 DEF PartialFinal, Saving
<1>10. Emptied'
  BY <1>2 DEF Emptied
<1>11. QED  BY <1>4, <1>5, <1>7, <1>8, <1>9, <1>10

\* What a save changes in the files: its own file is finished, or goes.
SaveFiles ==
  LET mine == TmpOf(main.hash, main.seq)
  IN  /\ \A t \in tmps' : (t \in tmps /\ t \notin mine) \/ \E u \in mine : t = Written(u)
      /\ \A h \in Hashes :
           \/ final'[h] = final[h] /\ ~ (h = main.hash /\ mine = {} /\ final[h] # None)
           \/ h = main.hash /\ mine = {} /\ final[h] # None /\ final'[h] = Written(final[h])
      /\ tmps' \subseteq Tmps /\ final' \in [Hashes -> Files]

LEMMA SaveEndFiles ==
  ASSUME Typed, SaveEnd
  PROVE  SaveFiles
<1> DEFINE h == main.hash
           mine == TmpOf(h, main.seq)
<1>1. h \in Hashes /\ mine \subseteq Tmps /\ final[h] \in Files
  BY DEF SaveEnd, Typed, TmpOf
<1>2. /\ tmps' = (tmps \ mine) \cup {Written(t) : t \in mine} \/ tmps' = tmps \ mine
      /\ final' = IF mine = {} /\ final[h] # None
                    THEN [final EXCEPT ![h] = Written(@)] ELSE final
  BY DEF SaveEnd
<1>3. \A t \in mine : Written(t) \in Tmps
  BY <1>1, WrittenTmp
<1>4. final[h] # None => Written(final[h]) \in Files
  BY <1>1, WrittenFile
<1>5. tmps' \subseteq Tmps
  BY <1>2, <1>3 DEF Typed
<1>6. final' \in [Hashes -> Files]
  BY <1>2, <1>4 DEF Typed
<1>7. \A t \in tmps' : (t \in tmps /\ t \notin mine) \/ \E u \in mine : t = Written(u)
  BY <1>2
<1>8. \A k \in Hashes :
        \/ final'[k] = final[k] /\ ~ (k = h /\ mine = {} /\ final[k] # None)
        \/ k = h /\ mine = {} /\ final[k] # None /\ final'[k] = Written(final[k])
  BY <1>1, <1>2 DEF Typed
<1>9. QED  BY <1>5, <1>6, <1>7, <1>8 DEF SaveFiles

\* When it ends its file is whole, whichever name the file has by then.
LEMMA SaveEndIInv ==
  ASSUME IInv, SaveEnd
  PROVE  IInv'
<1> USE DEF IInv
<1> DEFINE h == main.hash
           mine == TmpOf(h, main.seq)
           x == Item("write", h, main.seq)
<1>1. SaveFiles
  BY SaveEndFiles
<1>2. /\ main.pc = "save" /\ h \in Hashes /\ main.seq \in Nat /\ main.seq < seq
      /\ main'.pc = "idle" /\ UNCHANGED <<rows, cur, seq, epoch, faults>>
      /\ store' = [store EXCEPT ![cur] = Put(@, x)]
  BY DEF SaveEnd, Typed, Idle
<1>3. x \in Items /\ x.op = "write" /\ x.hash = h /\ x.seq = main.seq
  BY <1>2 DEF Item, Items
<1> HIDE DEF x
<1>4. /\ store' \in [1 .. MaxStores -> Stores]
      /\ \A s \in 1 .. MaxStores : store'[s].pc = store[s].pc /\ store'[s].batch = store[s].batch
      /\ Pending(store'[cur]) \subseteq Pending(store[cur]) \cup {x}
  BY <1>2, <1>3, PutFacts DEF Typed
<1>5. Typed'
  BY <1>1, <1>2, <1>4 DEF Typed, SaveFiles
<1>6. OneWriter'
  BY <1>2, <1>4 DEF OneWriter, Overlaps
<1>7. \A t \in tmps' :
        \/ t \in tmps /\ t \notin mine
        \/ t.whole
  BY <1>1, WrittenTmp DEF SaveFiles, TmpOf, Typed
<1>8. QueuedSaved'
  <2> SUFFICES ASSUME ~ Overlaps, NEW y \in Pending(store'[cur]) PROVE Saved(y)'
    BY <1>2 DEF QueuedSaved, Overlaps
  <2>1. CASE y = x
    BY <1>2, <1>3, <1>7, <2>1 DEF Saved, TmpOf
  <2>2. CASE Saved(y)
    BY <1>2, <1>7, <2>2 DEF Saved
  <2>3. QED  BY <1>4, <2>1, <2>2 DEF QueuedSaved
<1>9. PartialTmp'
  BY <1>2, <1>7 DEF PartialTmp, Saving, Overlaps, TmpOf
<1>10. PartialFinal'
  <2> SUFFICES ASSUME NEW k \in Hashes, final'[k] # None PROVE final'[k].whole
    BY DEF PartialFinal
  <2>1. CASE final'[k] = final[k] /\ ~ (k = h /\ mine = {} /\ final[k] # None)
    BY <2>1 DEF PartialFinal, Saving
  <2>2. CASE k = h /\ mine = {} /\ final[k] # None /\ final'[k] = Written(final[k])
    BY <2>2, WrittenFile DEF Typed
  <2>3. QED  BY <1>1, <2>1, <2>2 DEF SaveFiles
<1>11. Emptied'
  BY <1>2 DEF Emptied
<1>12. QED  BY <1>5, <1>6, <1>8, <1>9, <1>10, <1>11

\* Half a file is left only where no earlier store's writer works.
LEMMA FaultsApart == IInv /\ faults \cap {"crash", "save"} # {} => ~ Overlaps
BY SeparateFaults DEF IInv, Typed, Overlaps

LEMMA SaveFailIInv == ASSUME IInv, SaveFail PROVE IInv'
<1> USE DEF IInv
<1>1. ~ Overlaps
  BY FaultsApart DEF SaveFail
<1>2. main.pc = "save" /\ main'.pc = "idle"
      /\ UNCHANGED <<rows, final, tmps, store, cur, seq, epoch, faults>>
  BY DEF SaveFail, Idle
<1>3. Typed' /\ OneWriter' /\ Emptied'
  BY <1>2 DEF Typed, OneWriter, Overlaps, Emptied
<1>4. \A x : Saved(x) => Saved(x)'
  BY <1>2 DEF Saved
<1>5. QueuedSaved' /\ PartialTmp' /\ PartialFinal'
  BY <1>1, <1>2, <1>4 DEF QueuedSaved, PartialTmp, PartialFinal, Overlaps
<1>6. QED  BY <1>3, <1>5

\* An item that is no write is offered to the queue.
LEMMA OfferIInv ==
  ASSUME IInv, NEW x \in Items, x.op # "write",
         store' = [store EXCEPT ![cur] = Put(@, x)],
         main.pc = "load", main'.pc = "idle",
         UNCHANGED <<rows, final, tmps, cur, seq, epoch, faults>>
  PROVE  IInv'
<1> USE DEF IInv
<1>1. /\ store' \in [1 .. MaxStores -> Stores]
      /\ \A s \in 1 .. MaxStores : store'[s].pc = store[s].pc /\ store'[s].batch = store[s].batch
      /\ Pending(store'[cur]) \subseteq Pending(store[cur]) \cup {x}
  BY PutFacts DEF Typed
<1>2. Typed' /\ OneWriter' /\ Emptied'
  BY <1>1 DEF Typed, OneWriter, Overlaps, Emptied
<1>3. Saved(x)' /\ \A y : Saved(y) => Saved(y)'
  BY DEF Saved
<1>4. QueuedSaved'
  BY <1>1, <1>3 DEF QueuedSaved, Overlaps
<1>5. PartialTmp' /\ PartialFinal'
  BY DEF PartialTmp, PartialFinal, Overlaps, Saving, TmpOf
<1>6. QED  BY <1>2, <1>4, <1>5

LEMMA ReadIInv ==
  ASSUME IInv, ReadHit \/ ReadMiss \/ \E h \in Hashes : ReadRow(h)
  PROVE  IInv'
<1> USE DEF IInv
<1>1. CASE ReadHit
  <2>1. Item("access", None, 0) \in Items /\ Item("access", None, 0).op # "write"
    BY DEF Item, Items
  <2>2. QED  BY <1>1, <2>1, OfferIInv DEF ReadHit, Idle
<1>2. CASE ReadMiss
  <2>1. Item("cleanup", main.hash, 0) \in Items /\ Item("cleanup", main.hash, 0).op # "write"
    BY <1>2 DEF Item, Items, ReadMiss, Typed
  <2>2. QED  BY <1>2, <2>1, OfferIInv DEF ReadMiss, Idle
<1>3. ASSUME NEW h \in Hashes, ReadRow(h) PROVE IInv'
  <2>1. StoreStep(cur)
    BY <1>3 DEF ReadRow, StoreStep, Typed
  <2>2. Shrinks
    BY <1>3, StillShrinks DEF ReadRow
  <2>3. /\ main.pc = "idle" /\ UNCHANGED <<rows, cur, seq, epoch, faults>>
        /\ main' = main \/ (main'.pc = "load" /\ main'.hash = h)
    BY <1>3 DEF ReadRow
  <2>4. cur \in 1 .. MaxStores /\ rows' \subseteq Rows
    BY <2>3 DEF Typed
  <2>5. main'.pc \notin {"rows", "closed", "save"}
    BY <2>3
  <2>6. QED  BY <2>1, <2>2, <2>3, <2>4, <2>5, StepIInv
<1>4. QED  BY <1>1, <1>2, <1>3

\* clear drops the queue; the flush takes it as a batch.
LEMMA ClearQueue ==
  ASSUME Typed, store' = [store EXCEPT ![cur].queue = << >>]
  PROVE  StoreStep(cur)
<1>1. store' \in [1 .. MaxStores -> Stores]
  <2>1. << >> \in Seq(Items)
    OBVIOUS
  <2>2. QED  BY <2>1 DEF Typed, Stores
<1>2. /\ store'[cur].pc = store[cur].pc /\ store'[cur].batch = store[cur].batch
      /\ store'[cur].queue = << >> /\ cur \in 1 .. MaxStores
      /\ \A r \in 1 .. MaxStores : r # cur => store'[r] = store[r]
  BY DEF Typed, Stores
<1>3. Pending(store'[cur]) \subseteq Pending(store[cur])
  BY <1>2 DEF Pending
<1>4. QED  BY <1>1, <1>2, <1>3 DEF StoreStep, Typed

LEMMA FlushQueue ==
  ASSUME Typed,
         store' = [store EXCEPT ![cur].queue = << >>, ![cur].batch = store[cur].queue,
                                ![cur].pc = "item"]
  PROVE  StoreStep(cur)
<1> DEFINE q == store[cur].queue
<1>1. cur \in 1 .. MaxStores /\ store[cur] \in Stores
  BY DEF Typed
<1>2. q \in Seq(Items) /\ << >> \in Seq(Items)
  BY <1>1 DEF Stores
<1> HIDE DEF q
<1>3. store' = [store EXCEPT ![cur].queue = << >>, ![cur].batch = q, ![cur].pc = "item"]
  BY DEF q
<1>4. store'[cur] = [store[cur] EXCEPT !.queue = << >>, !.batch = q, !.pc = "item"]
  BY <1>1, <1>3 DEF Typed, Stores
<1>5. store'[cur] \in Stores
  BY ONLY <1>1, <1>2, <1>4 DEF Stores, Places
<1>6. /\ \A r \in 1 .. MaxStores : r # cur => store'[r] = store[r]
      /\ store' = [r \in 1 .. MaxStores |-> store'[r]]
  BY <1>1, <1>3 DEF Typed, Stores
<1>7. store' \in [1 .. MaxStores -> Stores]
  BY <1>5, <1>6 DEF Typed
<1>8. store'[cur].queue = << >> /\ store'[cur].batch = q /\ store'[cur].pc = "item"
  BY <1>1, <1>4 DEF Stores
<1>9. Pending(store'[cur]) \subseteq Pending(store[cur])
  <2>1. DOMAIN store'[cur].queue = {}
    BY <1>8
  <2>2. Pending(store'[cur]) = {q[i] : i \in DOMAIN q}
    BY <1>8, <2>1 DEF Pending
  <2>3. QED  BY <2>2 DEF Pending, q
<1>10. QED  BY <1>6, <1>7, <1>8, <1>9 DEF StoreStep

\* The steps of clear and shutdown.
LEMMA ClearIInv ==
  ASSUME IInv, ClearBegin \/ ClearFiles \/ ClearRaises \/ ClearRows
  PROVE  IInv'
<1> USE DEF IInv
<1>1. cur \in 1 .. MaxStores /\ rows \subseteq Rows /\ UNCHANGED <<cur, seq, faults>>
  BY DEF Typed, ClearBegin, ClearFiles, ClearRaises, ClearRows
<1>2. rows' \subseteq Rows /\ main.pc \in {"idle", "rmtree", "rows"}
      /\ main'.pc \in {"idle", "rmtree", "rows"}
  BY <1>1 DEF ClearBegin, ClearFiles, ClearRaises, ClearRows, Idle
<1>3. Shrinks
  BY DEF Shrinks, Typed, Files, ClearBegin, ClearFiles, ClearRaises, ClearRows
<1>4. StoreStep(cur)
  <2>1. CASE UNCHANGED store
    BY <2>1 DEF StoreStep, Typed
  <2>2. CASE ClearBegin
    BY <2>2, ClearQueue DEF ClearBegin
  <2>3. QED  BY <2>1, <2>2 DEF ClearFiles, ClearRaises, ClearRows
<1>5. main'.pc = "rows" => tmps' = {} /\ \A h \in Hashes : final'[h] = None
  BY <1>2 DEF ClearBegin, ClearFiles, ClearRaises, ClearRows, Idle
<1>6. CASE epoch' = epoch
  BY <1>1, <1>2, <1>3, <1>4, <1>5, <1>6, StepIInv
<1>7. CASE ClearRows
  <2>1. /\ UNCHANGED <<final, tmps, store, cur, seq, faults>> /\ rows' = {}
        /\ epoch' \in Nat /\ main'.pc = "idle" /\ main.pc = "rows"
    BY <1>7 DEF ClearRows, Typed, Idle
  <2>2. Typed' /\ OneWriter' /\ Emptied'
    BY <2>1 DEF Typed, OneWriter, Overlaps, Emptied
  <2>3. \A x : Saved(x) => Saved(x)'
    BY <2>1 DEF Saved
  <2>4. QueuedSaved' /\ PartialTmp' /\ PartialFinal'
    BY <2>1, <2>3 DEF QueuedSaved, PartialTmp, PartialFinal, Overlaps, Saving, TmpOf
  <2>5. QED  BY <2>2, <2>4
<1>8. QED  BY <1>6, <1>7 DEF ClearBegin, ClearFiles, ClearRaises

LEMMA ShutdownIInv ==
  ASSUME IInv, Shutdown \/ JoinTimeout \/ Flush \/ Flushed
  PROVE  IInv'
<1> USE DEF IInv
<1>1. cur \in 1 .. MaxStores /\ UNCHANGED <<rows, final, tmps, cur, seq, epoch, faults>>
  BY DEF Typed, Shutdown, JoinTimeout, Flush, Flushed
<1>2. main.pc \in {"idle", "join", "flush"} /\ main'.pc \in {"join", "flush", "closed"}
  BY DEF Shutdown, JoinTimeout, Flush, Flushed
<1>3. Shrinks /\ rows' \subseteq Rows
  BY <1>1, StillShrinks DEF Typed
<1>4. StoreStep(cur)
  <2>1. CASE UNCHANGED store
    BY <2>1 DEF StoreStep, Typed
  <2>2. CASE Flush
    BY <2>2, FlushQueue DEF Flush
  <2>3. CASE Shutdown
    <3>1. store' = [store EXCEPT ![cur].stop = TRUE]
      BY <2>3 DEF Shutdown
    <3>2. store' \in [1 .. MaxStores -> Stores]
      BY <3>1 DEF Typed, Stores
    <3>3. /\ store'[cur].pc = store[cur].pc /\ store'[cur].batch = store[cur].batch
          /\ store'[cur].queue = store[cur].queue
          /\ \A r \in 1 .. MaxStores : r # cur => store'[r] = store[r]
      BY <1>1, <3>1 DEF Typed, Stores
    <3>4. QED  BY <3>2, <3>3 DEF StoreStep, Typed, Pending
  <2>4. QED  BY <2>1, <2>2, <2>3 DEF JoinTimeout, Flushed
<1>5. main'.pc = "closed" => Overlaps \/ store'[cur].pc = "ended"
  BY DEF Shutdown, JoinTimeout, Flush, Flushed, Overlaps
<1>6. QED  BY <1>1, <1>2, <1>3, <1>4, <1>5, StepIInv

\* A store opened anew has nothing queued and finds no temporary file; when
\* the process ended, no other writer is left.
LEMMA ReopenIInv == ASSUME IInv, Reopen \/ Crash PROVE IInv'
<1> USE DEF IInv
<1>1. /\ cur \in 1 .. MaxStores /\ cur + 1 \in 1 .. MaxStores /\ cur' = cur + 1
      /\ main'.pc = "idle" /\ tmps' = {} /\ seq' = 0
      /\ UNCHANGED <<rows, final, epoch, faults>>
  BY DiskAssumption DEF Reopen, Crash, Reopened, Typed, Idle
<1>2. /\ store' \in [1 .. MaxStores -> Stores] /\ Pending(store'[cur']) = {}
      /\ \A s \in 1 .. MaxStores :
           store'[s] = IF s = cur' THEN NewStore ELSE IF Crash THEN Ended ELSE store[s]
  BY <1>1, StoresFacts DEF Reopen, Crash, Typed
<1>3. ~ Overlaps => \A s \in 1 .. MaxStores : s # cur' => store'[s].pc = "ended"
  BY <1>2, StoresFacts DEF OneWriter, Reopen
<1>4. Typed'
  BY <1>1, <1>2, StoresFacts DEF Typed
<1>5. \A h \in Hashes : final[h] = None \/ final[h].whole
  BY FaultsApart DEF PartialFinal, Saving, Reopen, Crash
<1>6. OneWriter' /\ QueuedSaved' /\ PartialTmp' /\ PartialFinal' /\ Emptied'
  BY <1>1, <1>2, <1>3, <1>5
     DEF OneWriter, QueuedSaved, PartialTmp, PartialFinal, Emptied, Overlaps
<1>7. QED  BY <1>4, <1>6

\* Every step keeps the invariant.
LEMMA NextIInv == IInv /\ [Next]_vars => IInv'
<1> SUFFICES ASSUME IInv, [Next]_vars PROVE IInv'
  OBVIOUS
<1>1. CASE UNCHANGED vars
  <2>1. UNCHANGED <<rows, final, tmps, store, cur, seq, main, epoch, reply, faults>>
    BY <1>1 DEF vars
  <2>2. Typed' /\ OneWriter' /\ Emptied'
    BY <2>1 DEF IInv, Typed, OneWriter, Overlaps, Emptied
  <2>3. \A x : Saved(x) => Saved(x)'
    BY <2>1 DEF Saved
  <2>4. QueuedSaved' /\ PartialTmp' /\ PartialFinal'
    BY <2>1, <2>3 DEF IInv, QueuedSaved, PartialTmp, PartialFinal, Overlaps, Saving, TmpOf
  <2>5. QED  BY <2>2, <2>4 DEF IInv
<1>2. CASE Next
  <2>1. CASE MainThread
    BY <2>1, SaveBeginIInv, SaveEndIInv, SaveFailIInv, ReadIInv, ClearIInv, ShutdownIInv,
       ReopenIInv DEF MainThread
  <2>2. CASE Crash
    BY <2>2, ReopenIInv
  <2>3. ASSUME NEW s \in 1 .. MaxStores, Writer(s) PROVE IInv'
    BY <2>3, WriterIInv
  <2>4. QED  BY <1>2, <2>1, <2>2, <2>3 DEF Next
<1>3. QED  BY <1>1, <1>2

\* A read finds whole files only, whatever the writers did (read_block,
\* _write_block): a file that is not whole is being saved by the reader itself.
Whole == main.pc # "save" => \A h \in Hashes : final[h] = None \/ final[h].whole

THEOREM FilesWhole == Spec => []Whole
<1>1. IInv => Whole
  BY DEF IInv, PartialFinal, Saving, Whole
<1>2. QED  BY <1>1, InitIInv, NextIInv, PTL DEF Spec

-------------------------------------------------------------------------------
(* The refinement.                                                         *)

\* The steps that save, read or clear nothing only lose what is held.
LEMMA ShrinksLose ==
  ASSUME IInv, Shrinks, UNCHANGED <<epoch, reply>>
  PROVE  Lossy!Lose
<1>1. Held' \subseteq Held
  <2>1. ASSUME NEW h \in Hashes, final'[h] # None
        PROVE  <<h, final'[h].epoch>> \in Held
    <3>1. CASE final'[h] = final[h]
      BY <2>1, <3>1 DEF Held
    <3>2. ASSUME NEW t \in tmps, t.hash = h, Publishes(t)
          PROVE  <<h, final'[h].epoch>> \in Held
      <4>1. final'[h].epoch = t.epoch
        BY <3>2 DEF Publishes
      <4>2. QED  BY <3>2, <4>1 DEF Held
    <3>3. QED  BY <2>1, <3>1, <3>2 DEF Shrinks
  <2>2. \A t \in tmps' : <<t.hash, t.epoch>> \in Held
    BY DEF Held, Shrinks
  <2>3. QED  BY <2>1, <2>2 DEF Held
<1>2. QED  BY <1>1 DEF Lossy!Lose

\* A finished file holds what it held when its save began.
LEMMA SaveEndLose ==
  ASSUME IInv, SaveEnd
  PROVE  Lossy!Lose
<1> DEFINE mine == TmpOf(main.hash, main.seq)
<1>1. SaveFiles
  BY SaveEndFiles DEF IInv
<1>2. UNCHANGED <<epoch, reply>>
  BY DEF SaveEnd
<1>3. \A t \in tmps' : \E u \in tmps : t.hash = u.hash /\ t.epoch = u.epoch
  BY <1>1, WrittenTmp DEF SaveFiles, TmpOf, IInv, Typed
<1>4. \A h \in Hashes : final'[h] # None => final[h] # None /\ final'[h].epoch = final[h].epoch
  BY <1>1, WrittenFile DEF SaveFiles, IInv, Typed
<1>5. Held' \subseteq Held
  BY <1>3, <1>4 DEF Held
<1>6. QED  BY <1>2, <1>5 DEF Lossy!Lose

\* A save begins: its value is held from now on.
LEMMA SaveBeginStore ==
  ASSUME NEW h \in Hashes, SaveBegin(h)
  PROVE  Lossy!Store(h)
<1> DEFINE t == [hash |-> h, seq |-> seq, epoch |-> epoch, whole |-> FALSE]
<1>1. tmps' = tmps \cup {t} /\ t.hash = h /\ t.epoch = epoch /\ UNCHANGED <<final, epoch, reply>>
  BY DEF SaveBegin
<1> HIDE DEF t
<1>2. Held' = Held \cup {<<h, epoch>>}
  BY <1>1 DEF Held
<1>3. QED  BY <1>1, <1>2 DEF Lossy!Store

\* What a read returns is held under the hash, or it is nothing.
LEMMA ReadReads ==
  ASSUME IInv, ReadHit \/ ReadMiss \/ \E h \in Hashes : ReadRow(h)
  PROVE  Lossy!Lose \/ \E h \in Hashes : Lossy!Read(h)
<1>1. UNCHANGED <<final, tmps, epoch>>
  BY DEF ReadHit, ReadMiss, ReadRow
<1>2. Held' = Held
  BY <1>1 DEF Held
<1>3. CASE ReadHit
  <2> DEFINE h == main.hash
  <2>1. h \in Hashes /\ final[h] # None /\ main.pc = "load"
    BY <1>3 DEF ReadHit, IInv, Typed
  <2>2. final[h].whole
    BY <2>1 DEF IInv, PartialFinal, Saving
  <2>3. reply' = <<h, final[h].epoch>>
    BY <1>3, <2>2 DEF ReadHit
  <2>4. <<h, final[h].epoch>> \in Held
    BY <2>1 DEF Held
  <2>5. PICK k \in Hashes : k = h
    BY <2>1
  <2>6. Lossy!Read(k)
    BY <1>1, <1>2, <2>3, <2>4, <2>5 DEF Lossy!Read
  <2>7. QED  BY <2>6
<1>4. CASE ReadMiss
  <2>1. PICK k \in Hashes : k = main.hash
    BY <1>4 DEF ReadMiss, IInv, Typed
  <2>2. Lossy!Read(k)
    BY <1>1, <1>2, <1>4 DEF Lossy!Read, ReadMiss
  <2>3. QED  BY <2>2
<1>5. ASSUME NEW h \in Hashes, ReadRow(h)
      PROVE  Lossy!Lose \/ \E k \in Hashes : Lossy!Read(k)
  <2>1. CASE reply' = None
    BY <1>1, <1>2, <2>1 DEF Lossy!Read
  <2>2. CASE reply' = reply
    BY <1>1, <1>2, <2>2 DEF Lossy!Lose
  <2>3. QED  BY <1>5, <2>1, <2>2 DEF ReadRow
<1>6. QED  BY <1>3, <1>4, <1>5

\* When the rows go nothing is held.
LEMMA ClearRowsClear == ASSUME IInv, ClearRows PROVE Lossy!Clear
<1>1. tmps' = {} /\ \A h \in Hashes : final'[h] = None
  BY DEF ClearRows, IInv, Emptied
<1>2. Held' = {}
  BY <1>1 DEF Held
<1>3. QED  BY <1>2 DEF Lossy!Clear, ClearRows

\* Every step is one of the lossy store, or changes nothing of it.
LEMMA NextLossy == IInv /\ [Next]_vars => [Lossy!Next]_(Lossy!vars)
<1> SUFFICES ASSUME IInv, [Next]_vars PROVE [Lossy!Next]_(Lossy!vars)
  OBVIOUS
<1>1. CASE UNCHANGED vars
  BY <1>1 DEF vars, Lossy!vars, Held
<1>2. CASE Next
  <2>1. CASE \E h \in Hashes : SaveBegin(h)
    BY <2>1, SaveBeginStore DEF Lossy!Next
  <2>2. CASE SaveEnd
    BY <2>2, SaveEndLose DEF Lossy!Next
  <2>3. CASE ReadHit \/ ReadMiss \/ \E h \in Hashes : ReadRow(h)
    BY <2>3, ReadReads DEF Lossy!Next
  <2>4. CASE ClearRows
    BY <2>4, ClearRowsClear DEF Lossy!Next
  <2>5. CASE SaveFail \/ ClearBegin \/ ClearFiles \/ ClearRaises \/ Shutdown \/ JoinTimeout
             \/ Flush \/ Flushed \/ Reopen \/ Crash
    <3>1. UNCHANGED <<epoch, reply>>
      BY <2>5 DEF SaveFail, ClearBegin, ClearFiles, ClearRaises, Shutdown, JoinTimeout,
                  Flush, Flushed, Reopen, Crash, Reopened
    <3>2. Shrinks
      BY <2>5 DEF IInv, Typed, Files, Shrinks, SaveFail, ClearBegin, ClearFiles, ClearRaises,
                  Shutdown, JoinTimeout, Flush, Flushed, Reopen, Crash, Reopened
    <3>3. QED  BY <3>1, <3>2, ShrinksLose DEF Lossy!Next
  <2>6. ASSUME NEW s \in 1 .. MaxStores, Writer(s) PROVE Lossy!Next
    <3>1. Shrinks /\ UNCHANGED <<epoch, reply>>
      BY <2>6, WriterSteps, WriterMain DEF mainvars
    <3>2. QED  BY <3>1, ShrinksLose DEF Lossy!Next
  <2>7. QED  BY <1>2, <2>1, <2>2, <2>3, <2>4, <2>5, <2>6 DEF Next, MainThread
<1>3. QED  BY <1>1, <1>2

\* The block disk store implements the lossy store: read_block returns nothing
\* or what was saved under the hash since the last clear returned, whatever the
\* writers, the evictions, the shutdowns and the crashes in between.
THEOREM DiskStoreIsLossy == Spec => Promise
<1>1. Init => Lossy!Init
  BY DEF Init, Lossy!Init, Held
<1>2. QED
  BY <1>1, InitIInv, NextIInv, NextLossy, PTL DEF Spec, Promise, Lossy!Spec

-------------------------------------------------------------------------------
(* Every published file has its row.  What is to be shown is that a file   *)
(* and its row come and go together up to a step of the one writer that    *)
(* works: it has the row at hand that it is about to insert or to remove,  *)
(* and main removes rows only when it has removed the files.               *)

\* The files are those of known blocks and of epochs that have begun.
FilesBounded ==
  /\ rows \subseteq Hashes
  /\ \A h \in Hashes : final[h] # None => final[h].epoch <= epoch
  /\ \A t \in tmps : t.seq < seq /\ t.epoch <= epoch
  /\ seq <= MaxSaves /\ epoch <= MaxClears
  /\ main.pc \in {"rmtree", "rows"} => epoch < MaxClears

\* The queues are within their size; the row at hand is that of a known block.
StoresBounded ==
  \A s \in 1 .. MaxStores :
    /\ Len(store[s].queue) <= MaxQueue /\ store[s].gone \subseteq Hashes
    /\ store[s].pc \in {"forget", "renamed"} => AtHand(s).hash \in Hashes

\* No insert fails, no process ended and no two writers work.
Steady == faults \cap {"db", "overlap"} = {} /\ ("crash" \in faults => cur = 1)

Renamed(h) == \E s \in 1 .. MaxStores : store[s].pc = "renamed" /\ AtHand(s).hash = h

\* What is about to lose its row has lost its file.
Covered ==
  Steady =>
    /\ \A h \in Hashes \ rows : final[h] # None => Renamed(h)
    /\ \A s \in 1 .. MaxStores :
         /\ store[s].pc = "forget" => final[AtHand(s).hash] = None
         /\ store[s].pc = "evict" => \A h \in store[s].gone : final[h] = None

\* What eviction leaves is within the budget, and stays so until the writer
\* works again.
Frugal ==
  ~ Overlaps =>
    /\ store[cur].pc = "evict" => Cardinality(rows \ store[cur].gone) = Target
    /\ store[cur].pc = "get" => Cardinality(rows) <= MaxRows

RInv == FilesBounded /\ StoresBounded /\ Covered /\ Frugal

LEMMA InitRInv == Init => RInv
<1> SUFFICES ASSUME Init PROVE RInv
  OBVIOUS
<1>1. \A s \in 1 .. MaxStores :
        /\ store[s].pc \in {"start", "ended"} /\ store[s].gone = {}
        /\ store[s].queue = << >>
  BY DEF Init, NewStore, Ended, StoreAt
<1>2. Len(<< >>) = 0 /\ 1 \in 1 .. MaxStores /\ cur = 1 /\ main.pc = "idle"
  BY DiskAssumption DEF Init, Idle
<1>3. FilesBounded
  BY <1>2, DiskAssumption DEF Init, FilesBounded
<1>4. StoresBounded
  BY <1>1, <1>2, DiskAssumption DEF StoresBounded
<1>5. Covered /\ Frugal
  BY <1>1, <1>2 DEF Init, Covered, Frugal
<1>6. QED  BY <1>3, <1>4, <1>5 DEF RInv

\* Only the writer of the store in use works, unless writers overlap.
LEMMA OneWorks ==
  ASSUME IInv, ~ Overlaps, NEW s \in 1 .. MaxStores, store[s].pc # "ended"
  PROVE  s = cur
BY DEF IInv, OneWriter

LEMMA SteadyFacts == Steady => ~ Overlaps /\ "db" \notin faults
BY DEF Steady, Overlaps

\* The main thread puts items into a queue and takes them out, and gives a
\* store that has ended the rest of its queue to do.
Attends ==
  /\ UNCHANGED <<cur, faults>>
  /\ \A s \in 1 .. MaxStores :
       /\ Len(store'[s].queue) <= MaxQueue /\ store'[s].gone = store[s].gone
       /\ \/ store'[s].pc = store[s].pc /\ store'[s].batch = store[s].batch
          \/ store[s].pc = "ended" /\ store'[s].pc = "item"

\* No file appears.
Fewer ==
  \A h \in Hashes :
    final'[h] # None => final[h] # None /\ final'[h].epoch = final[h].epoch

LEMMA PutLength ==
  ASSUME NEW q \in Stores, NEW x \in Items, Len(q.queue) <= MaxQueue
  PROVE  /\ Len(Put(q, x).queue) <= MaxQueue
         /\ Put(q, x).pc = q.pc /\ Put(q, x).batch = q.batch /\ Put(q, x).gone = q.gone
<1>1. /\ Append(q.queue, x) \in Seq(Items) /\ Len(Append(q.queue, x)) = Len(q.queue) + 1
      /\ Len(q.queue) \in Nat /\ MaxQueue \in Nat
  BY AppendProperties, LenProperties, DiskAssumption DEF Stores
<1> DEFINE a == Append(q.queue, x)
<1> HIDE DEF a
<1>2. Put(q, x) = IF Len(q.queue) < MaxQueue THEN [q EXCEPT !.queue = a] ELSE q
  BY DEF Put, a
<1>3. Len(a) = Len(q.queue) + 1
  BY <1>1 DEF a
<1>4. QED  BY <1>1, <1>2, <1>3 DEF Stores

LEMMA OfferAttends ==
  ASSUME IInv, RInv, NEW x \in Items, store' = [store EXCEPT ![cur] = Put(@, x)],
         UNCHANGED <<cur, faults>>
  PROVE  Attends
<1>1. cur \in 1 .. MaxStores /\ store[cur] \in Stores /\ Len(store[cur].queue) <= MaxQueue
  BY DEF IInv, Typed, RInv, StoresBounded
<1>2. /\ Len(Put(store[cur], x).queue) <= MaxQueue
      /\ Put(store[cur], x).pc = store[cur].pc
      /\ Put(store[cur], x).batch = store[cur].batch
      /\ Put(store[cur], x).gone = store[cur].gone
  BY <1>1, PutLength
<1>3. store'[cur] = Put(store[cur], x) /\ \A s \in 1 .. MaxStores : s # cur => store'[s] = store[s]
  BY <1>1 DEF IInv, Typed
<1>4. QED  BY <1>2, <1>3 DEF Attends, RInv, StoresBounded

\* The item a save or a load offers.
LEMMA OfferedItems ==
  ASSUME Typed
  PROVE  /\ Item("access", None, 0) \in Items
         /\ main.pc = "load" => Item("cleanup", main.hash, 0) \in Items
         /\ main.pc = "save" => Item("write", main.hash, main.seq) \in Items
BY DEF Typed, Item, Items

LEMMA MainAttends ==
  ASSUME IInv, RInv, MainThread, ~ Reopen
  PROVE  Attends
<1>1. cur \in 1 .. MaxStores /\ store \in [1 .. MaxStores -> Stores]
  BY DEF IInv, Typed
<1>2. \A s \in 1 .. MaxStores : Len(store[s].queue) <= MaxQueue
  BY DEF RInv, StoresBounded
<1>3. ASSUME UNCHANGED <<store, cur, faults>> PROVE Attends
  BY <1>2, <1>3 DEF Attends
<1>4. CASE SaveEnd
  BY <1>4, OfferAttends, OfferedItems DEF SaveEnd, IInv
<1>5. CASE ReadHit
  BY <1>5, OfferAttends, OfferedItems DEF ReadHit, IInv
<1>6. CASE ReadMiss
  BY <1>6, OfferAttends, OfferedItems DEF ReadMiss, IInv
<1>7. Len(<< >>) = 0 /\ MaxQueue \in Nat
  BY DiskAssumption
<1>8. CASE ClearBegin
  <2>1. store' = [store EXCEPT ![cur].queue = << >>] /\ UNCHANGED <<cur, faults>>
    BY <1>8 DEF ClearBegin
  <2>2. /\ \A s \in 1 .. MaxStores : s # cur => store'[s] = store[s]
        /\ store'[cur] = [store[cur] EXCEPT !.queue = << >>] /\ store[cur] \in Stores
    BY <1>1, <2>1
  <2>3. QED  BY <1>2, <1>7, <2>1, <2>2 DEF Attends, Stores
<1>9. CASE Shutdown
  <2>1. store' = [store EXCEPT ![cur].stop = TRUE] /\ UNCHANGED <<cur, faults>>
    BY <1>9 DEF Shutdown
  <2>2. /\ \A s \in 1 .. MaxStores : s # cur => store'[s] = store[s]
        /\ store'[cur] = [store[cur] EXCEPT !.stop = TRUE] /\ store[cur] \in Stores
    BY <1>1, <2>1
  <2>3. QED  BY <1>2, <2>1, <2>2 DEF Attends, Stores
<1>10. CASE Flush
  <2> DEFINE q == store[cur].queue
  <2>1. /\ store' = [store EXCEPT ![cur].queue = << >>, ![cur].batch = q, ![cur].pc = "item"]
        /\ UNCHANGED <<cur, faults>> /\ store[cur].pc = "ended"
    BY <1>10 DEF Flush
  <2> HIDE DEF q
  <2>2. /\ \A s \in 1 .. MaxStores : s # cur => store'[s] = store[s]
        /\ store'[cur] = [store[cur] EXCEPT !.queue = << >>, !.batch = q, !.pc = "item"]
        /\ store[cur] \in Stores
    BY <1>1, <2>1
  <2>3. /\ store'[cur].queue = << >> /\ store'[cur].pc = "item"
        /\ store'[cur].gone = store[cur].gone
    BY <2>2 DEF Stores
  <2>4. Len(store'[cur].queue) <= MaxQueue
    BY <1>7, <2>3
  <2>5. ASSUME NEW s \in 1 .. MaxStores
        PROVE  /\ Len(store'[s].queue) <= MaxQueue /\ store'[s].gone = store[s].gone
               /\ \/ store'[s].pc = store[s].pc /\ store'[s].batch = store[s].batch
                  \/ store[s].pc = "ended" /\ store'[s].pc = "item"
    BY <1>2, <2>1, <2>2, <2>3, <2>4
  <2>6. QED  BY <2>1, <2>5 DEF Attends
<1>11. CASE \/ \E h \in Hashes : SaveBegin(h) \/ ReadRow(h)
            \/ SaveFail \/ ClearFiles \/ ClearRaises \/ ClearRows \/ JoinTimeout \/ Flushed
  BY <1>3, <1>11 DEF SaveBegin, ReadRow, SaveFail, ClearFiles, ClearRaises, ClearRows,
     JoinTimeout, Flushed
<1>12. QED
  BY <1>4, <1>5, <1>6, <1>8, <1>9, <1>10, <1>11 DEF MainThread

LEMMA MainFewer ==
  ASSUME IInv, MainThread
  PROVE  Fewer
<1>1. CASE SaveEnd
  <2>1. SaveFiles
    BY <1>1, SaveEndFiles DEF IInv
  <2>2. QED  BY <2>1, WrittenFile DEF SaveFiles, Fewer, IInv, Typed
<1>2. CASE ClearFiles \/ ClearRaises
  BY <1>2 DEF ClearFiles, ClearRaises, Fewer
<1>3. CASE \/ \E h \in Hashes : SaveBegin(h) \/ ReadRow(h)
           \/ SaveFail \/ ReadHit \/ ReadMiss \/ ClearBegin \/ ClearRows
           \/ Shutdown \/ JoinTimeout \/ Flush \/ Flushed \/ Reopen
  BY <1>3 DEF Fewer, SaveBegin, ReadRow, SaveFail, ReadHit, ReadMiss, ClearBegin, ClearRows,
     Shutdown, JoinTimeout, Flush, Flushed, Reopen, Reopened
<1>4. QED  BY <1>1, <1>2, <1>3 DEF MainThread

\* The main thread removes no row but in clear.
LEMMA MainRows ==
  ASSUME MainThread
  PROVE  rows' = rows \/ (ClearRows /\ rows' = {})
BY DEF MainThread, SaveBegin, SaveEnd, SaveFail, ReadRow, ReadHit, ReadMiss, ClearBegin,
       ClearFiles, ClearRaises, ClearRows, Shutdown, JoinTimeout, Flush, Flushed, Reopen, Reopened

LEMMA MainFiles ==
  ASSUME IInv, RInv, MainThread
  PROVE  FilesBounded'
<1> USE DEF RInv, FilesBounded
<1>1. seq \in Nat /\ epoch \in Nat /\ MaxOverlap <= MaxSaves /\ MaxSaves \in Nat
      /\ MaxOverlap \in Nat /\ MaxClears \in Nat
  BY DiskAssumption DEF IInv, Typed
<1>2. Fewer
  BY MainFewer
<1>3. ASSUME NEW h \in Hashes, SaveBegin(h) PROVE FilesBounded'
  <2> DEFINE t == [hash |-> h, seq |-> seq, epoch |-> epoch, whole |-> FALSE]
  <2>1. t.seq = seq /\ t.epoch = epoch /\ tmps' = tmps \cup {t}
    BY <1>3 DEF SaveBegin
  <2>2. main'.pc = "save" /\ seq' = seq + 1 /\ seq < MaxSaves
        /\ UNCHANGED <<rows, final, epoch>>
    BY <1>1, <1>3 DEF SaveBegin
  <2> HIDE DEF t
  <2>3. \A u \in tmps : u \in Tmps
    BY DEF IInv, Typed
  <2>4. QED  BY <1>1, <2>1, <2>2, <2>3 DEF Tmps
<1>4. CASE SaveEnd
  <2>1. SaveFiles
    BY <1>4, SaveEndFiles DEF IInv
  <2>2. \A t \in tmps' : \E u \in tmps : t.seq = u.seq /\ t.epoch = u.epoch
    BY <2>1, WrittenTmp DEF SaveFiles, TmpOf, IInv, Typed
  <2>3. UNCHANGED <<rows, seq, epoch>> /\ main'.pc = "idle"
    BY <1>4 DEF SaveEnd, Idle
  <2>4. QED  BY <1>2, <2>2, <2>3 DEF Fewer
<1>5. CASE ClearRows
  <2>1. rows' = {} /\ epoch' = epoch + 1 /\ main'.pc = "idle" /\ epoch < MaxClears
        /\ UNCHANGED <<final, tmps, seq>>
    BY <1>5 DEF ClearRows, Idle
  <2>2. \A h \in Hashes : final[h] # None => final[h].epoch \in Nat
    BY DEF IInv, Typed, Files
  <2>3. \A t \in tmps : t.epoch \in Nat
    BY DEF IInv, Typed, Tmps
  <2>4. QED  BY <1>1, <2>1, <2>2, <2>3
<1>6. CASE Reopen
  BY <1>1, <1>6 DEF Reopen, Reopened, Idle
<1>7. CASE ClearBegin \/ ClearFiles \/ ClearRaises
  <2>1. /\ UNCHANGED <<rows, seq, epoch>> /\ tmps' \subseteq tmps
        /\ main'.pc \in {"rmtree", "rows"} => epoch < MaxClears
    BY <1>7 DEF ClearBegin, ClearFiles, ClearRaises, Idle
  <2>2. QED  BY <1>2, <2>1 DEF Fewer
<1>8. CASE \/ \E h \in Hashes : ReadRow(h)
           \/ SaveFail \/ ReadHit \/ ReadMiss \/ Shutdown \/ JoinTimeout \/ Flush \/ Flushed
  <2>1. UNCHANGED <<rows, final, tmps, seq, epoch>>
        /\ (main' = main \/ main'.pc \notin {"rmtree", "rows"})
    BY <1>8 DEF ReadRow, SaveFail, ReadHit, ReadMiss, Shutdown, JoinTimeout, Flush, Flushed, Idle
  <2>2. QED  BY <2>1
<1>9. QED
  BY <1>3, <1>4, <1>5, <1>6, <1>7, <1>8 DEF MainThread

\* The main thread keeps the rest of the invariant.
LEMMA AttendsRInv ==
  ASSUME IInv, RInv, Attends, Fewer, FilesBounded',
         \/ rows' = rows
         \/ /\ rows' = {} /\ \A h \in Hashes : final'[h] = None
            /\ \A s \in 1 .. MaxStores : store[s].pc # "evict"
  PROVE  RInv'
<1> USE DEF RInv
<1>1. cur \in 1 .. MaxStores
  BY DEF IInv, Typed
<1>2. \A s \in 1 .. MaxStores :
        store'[s].pc # "item" =>
          /\ store'[s].pc = store[s].pc /\ store'[s].batch = store[s].batch
          /\ AtHand(s)' = AtHand(s)
  BY DEF Attends, AtHand
<1>3. StoresBounded'
  BY <1>2 DEF StoresBounded, Attends
<1>4. Steady' = Steady /\ Overlaps' = Overlaps
  BY DEF Attends, Steady, Overlaps
<1>5. Covered'
  <2> SUFFICES ASSUME Steady PROVE Covered'
    BY <1>4 DEF Covered
  <2>1. ASSUME NEW h \in Hashes, h \notin rows', final'[h] # None PROVE Renamed(h)'
    <3>1. Renamed(h)
      BY <2>1 DEF Covered, Fewer
    <3>2. PICK s \in 1 .. MaxStores : store[s].pc = "renamed" /\ AtHand(s).hash = h
      BY <3>1 DEF Renamed
    <3>3. store'[s].pc = "renamed" /\ store'[s].batch = store[s].batch
      BY <3>2 DEF Attends
    <3>4. QED  BY <3>2, <3>3 DEF Renamed, AtHand
  <2>2. \A s \in 1 .. MaxStores : store'[s].pc = "forget" => final'[AtHand(s)'.hash] = None
    BY <1>2 DEF Covered, Fewer, StoresBounded
  <2>3. \A s \in 1 .. MaxStores :
          store'[s].pc = "evict" => \A h \in store'[s].gone : final'[h] = None
    <3>1. \A s \in 1 .. MaxStores : store[s].gone \subseteq Hashes
      BY DEF StoresBounded
    <3>2. QED  BY <1>2, <3>1 DEF Covered, Fewer, Attends
  <2>4. QED  BY <1>2, <2>1, <2>2, <2>3 DEF Covered
<1>6. Frugal'
  <2>1. Cardinality({}) = 0 /\ MaxRows \in Nat
    BY FS_EmptySet, DiskAssumption
  <2>2. /\ cur' = cur /\ store'[cur].gone = store[cur].gone
        /\ store'[cur].pc # "item" => store'[cur].pc = store[cur].pc
    BY <1>1, <1>2 DEF Attends
  <2>3. CASE rows' = rows
    BY <1>4, <2>2, <2>3 DEF Frugal
  <2>4. CASE rows' = {} /\ store[cur].pc # "evict"
    BY <1>4, <2>1, <2>2, <2>4 DEF Frugal
  <2>5. QED  BY <1>1, <2>3, <2>4
<1>7. QED  BY <1>3, <1>5, <1>6

\* The writer of store s goes to another place, for the same item when it has
\* a row to insert or to remove.
Turns(s, pc, G) ==
  /\ store'[s].pc = pc /\ store'[s].gone = G
  /\ Len(store'[s].queue) <= Len(store[s].queue)
  /\ pc \in {"forget", "renamed"} => store'[s].batch = store[s].batch
  /\ \A r \in 1 .. MaxStores : r # s => store'[r] = store[r]

LEMMA DoneTurns ==
  ASSUME Typed, NEW s \in 1 .. MaxStores, store' = Done(s)
  PROVE  Turns(s, "item", store[s].gone)
<1> DEFINE b == Tail(store[s].batch)
<1>1. store' = [store EXCEPT ![s].pc = "item", ![s].batch = b]
  BY DEF Done, Typed, Stores
<1> HIDE DEF b
<1>2. Len(store[s].queue) \in Nat
  BY LenProperties DEF Typed, Stores
<1>3. QED  BY <1>1, <1>2 DEF Turns, Typed, Stores

LEMMA PlaceTurns ==
  ASSUME Typed, NEW s \in 1 .. MaxStores, NEW pc, store' = [store EXCEPT ![s].pc = pc]
  PROVE  Turns(s, pc, store[s].gone)
<1>1. Len(store[s].queue) \in Nat
  BY LenProperties DEF Typed, Stores
<1>2. QED  BY <1>1 DEF Turns, Typed, Stores

LEMMA MoveTurns ==
  ASSUME Typed, NEW s \in 1 .. MaxStores, NEW pc, NEW G,
         store' = [store EXCEPT ![s].pc = pc, ![s].gone = G]
  PROVE  Turns(s, pc, G)
<1>1. Len(store[s].queue) \in Nat
  BY LenProperties DEF Typed, Stores
<1>2. QED  BY <1>1 DEF Turns, Typed, Stores

LEMMA GetTurns ==
  ASSUME Typed, NEW s \in 1 .. MaxStores, WriterGet(s)
  PROVE  Turns(s, "ended", store[s].gone) \/ Turns(s, "item", store[s].gone)
<1>1. CASE store[s].stop
  BY <1>1, PlaceTurns DEF WriterGet
<1>2. ASSUME ~ store[s].stop PROVE Turns(s, "item", store[s].gone)
  <2> DEFINE q == store[s].queue
  <2>1. PICK n \in 1 .. Len(q) :
          store' = [store EXCEPT ![s].pc = "item", ![s].batch = SubSeq(q, 1, n),
                                 ![s].queue = SubSeq(q, n + 1, Len(q))]
    BY <1>2 DEF WriterGet, Typed, Stores
  <2> DEFINE u == SubSeq(q, 1, n)
             v == SubSeq(q, n + 1, Len(q))
  <2>2. q \in Seq(Items) /\ Len(q) \in Nat /\ \A i \in 1 .. Len(q) : q[i] \in Items
    BY LenProperties DEF Typed, Stores
  <2>3. Len(v) <= Len(q)
    <3>1. Len(v) = IF n + 1 <= Len(q) THEN Len(q) - (n + 1) + 1 ELSE 0
      BY <2>2, SubSeqProperties
    <3>2. QED  BY <3>1, <2>2
  <2> HIDE DEF u, v
  <2>4. store' = [store EXCEPT ![s].pc = "item", ![s].batch = u, ![s].queue = v]
    BY <2>1 DEF u, v
  <2>5. store'[s] = [store[s] EXCEPT !.pc = "item", !.batch = u, !.queue = v]
    BY <2>4 DEF Typed
  <2>6. store'[s].pc = "item" /\ store'[s].queue = v /\ store'[s].gone = store[s].gone
    BY <2>5 DEF Typed, Stores
  <2>7. \A r \in 1 .. MaxStores : r # s => store'[r] = store[r]
    BY <2>4 DEF Typed
  <2>8. QED  BY <2>3, <2>6, <2>7 DEF Turns
<1>3. QED  BY <1>1, <1>2

\* A file without a row is the one the only writer has at hand.
LEMMA RenamedBy ==
  ASSUME IInv, ~ Overlaps, NEW s \in 1 .. MaxStores, store[s].pc # "ended",
         NEW h, Renamed(h)
  PROVE  store[s].pc = "renamed" /\ AtHand(s).hash = h
<1>1. PICK r \in 1 .. MaxStores : store[r].pc = "renamed" /\ AtHand(r).hash = h
  BY DEF Renamed
<1>2. r = cur /\ s = cur
  BY <1>1, OneWorks
<1>3. QED  BY <1>1, <1>2

\* What a step of a writer has to show, when it is the only one that works.
Keeps(s, pc, G) ==
  /\ Steady => \A h \in Hashes \ rows' :
                 final'[h] # None => pc = "renamed" /\ AtHand(s).hash = h
  /\ Steady /\ pc = "forget" => final'[AtHand(s).hash] = None
  /\ Steady /\ pc = "evict" => \A h \in G : final'[h] = None
  /\ ~ Overlaps /\ pc = "evict" => Cardinality(rows' \ G) = Target
  /\ ~ Overlaps /\ pc = "get" => Cardinality(rows') <= MaxRows

LEMMA TurnRInv ==
  ASSUME IInv, RInv, NEW s \in 1 .. MaxStores, NEW pc, NEW G \in SUBSET Hashes,
         Turns(s, pc, G), Keeps(s, pc, G), store[s].pc # "ended", StoreStep(s),
         UNCHANGED <<cur, faults>>, FilesBounded',
         pc \in {"forget", "renamed"} => AtHand(s).hash \in Hashes
  PROVE  RInv'
<1> USE DEF RInv
<1>1. /\ Steady' = Steady /\ Overlaps' = Overlaps /\ (Steady => ~ Overlaps)
      /\ cur \in 1 .. MaxStores /\ cur' = cur
  BY DEF Steady, Overlaps, IInv, Typed
<1>2. pc \in {"forget", "renamed"} => AtHand(s)' = AtHand(s)
  BY DEF Turns, AtHand
<1>3. StoresBounded'
  <2>1. \A r \in 1 .. MaxStores : r # s => AtHand(r)' = AtHand(r)
    BY DEF Turns, AtHand
  <2>2. \A r \in 1 .. MaxStores :
          Len(store'[r].queue) \in Nat /\ Len(store[r].queue) \in Nat
    BY LenProperties DEF StoreStep, IInv, Typed, Stores
  <2>3. QED  BY <1>2, <2>1, <2>2, DiskAssumption DEF StoresBounded, Turns
<1>4. ASSUME ~ Overlaps PROVE s = cur /\ \A r \in 1 .. MaxStores : r # s => store'[r].pc = "ended"
  BY <1>4, OneWorks DEF Turns
<1>5. Covered'
  <2> SUFFICES ASSUME Steady PROVE Covered'
    BY <1>1 DEF Covered
  <2>1. \A h \in Hashes \ rows' : final'[h] # None => Renamed(h)'
    BY <1>2 DEF Keeps, Turns, Renamed
  <2>2. /\ store'[s].pc = "forget" => final'[AtHand(s)'.hash] = None
        /\ store'[s].pc = "evict" => \A h \in store'[s].gone : final'[h] = None
    BY <1>2 DEF Keeps, Turns
  <2>3. \A r \in 1 .. MaxStores : r # s => store'[r].pc = "ended"
    BY <1>1, <1>4
  <2>4. QED  BY <2>1, <2>2, <2>3 DEF Covered
<1>6. Frugal'
  BY <1>1, <1>4 DEF Frugal, Keeps, Turns
<1>7. QED  BY <1>3, <1>5, <1>6

\* A writer publishes temporary files, and inserts rows of known blocks.
LEMMA WriterFiles ==
  ASSUME IInv, RInv, NEW s \in 1 .. MaxStores, Writer(s)
  PROVE  FilesBounded'
<1> USE DEF RInv, FilesBounded
<1>1. Shrinks /\ UNCHANGED <<seq, epoch, main>>
  BY WriterSteps, WriterMain DEF mainvars
<1>2. rows' \subseteq Hashes
  <2>1. CASE WriterInsert(s)
    BY <2>1 DEF WriterInsert, StoresBounded
  <2>2. CASE ~ WriterInsert(s)
    BY <2>2 DEF Writer, WriterGet, WriterAccess, WriterCleanup, WriterForget, WriterWrite,
       WriterEvict, WriterCommit, FlushDone, disk
  <2>3. QED  BY <2>1, <2>2
<1>3. ASSUME NEW h \in Hashes, final'[h] # None PROVE final'[h].epoch <= epoch
  <2>1. CASE final'[h] = final[h]
    BY <1>3, <2>1
  <2>2. ASSUME NEW t \in tmps, t.hash = h, Publishes(t) PROVE final'[h].epoch <= epoch
    BY <2>2 DEF Publishes
  <2>3. QED  BY <1>1, <1>3, <2>1, <2>2 DEF Shrinks
<1>4. QED  BY <1>1, <1>2, <1>3 DEF Shrinks

\* Every step of a writer keeps what it has to.
LEMMA WriterKeeps ==
  ASSUME IInv, RInv, NEW s \in 1 .. MaxStores, Writer(s)
  PROVE  \E pc \in Places, G \in SUBSET Hashes :
           /\ Turns(s, pc, G) /\ Keeps(s, pc, G)
           /\ pc \in {"forget", "renamed"} => AtHand(s).hash \in Hashes
<1> USE DEF IInv, RInv
<1> DEFINE h == AtHand(s).hash
           gone == store[s].gone
           Kept(pc, G) == /\ Turns(s, pc, G) /\ Keeps(s, pc, G)
                          /\ pc \in {"forget", "renamed"} => AtHand(s).hash \in Hashes
<1>1. store[s].pc # "ended" /\ gone \in SUBSET Hashes /\ rows \subseteq Hashes
  BY WriterSteps DEF StoresBounded, FilesBounded
<1>2. Steady => ~ Overlaps /\ "db" \notin faults
  BY SteadyFacts
<1>3. ASSUME Steady, NEW k \in Hashes \ rows, final[k] # None
      PROVE  store[s].pc = "renamed" /\ h = k
  <2>1. Renamed(k)
    BY <1>3 DEF Covered
  <2>2. QED  BY <1>1, <1>2, <1>3, <2>1, RenamedBy
<1>4. ~ Overlaps => s = cur
  BY <1>1, OneWorks
<1>5. {"get", "item", "forget", "renamed", "evict", "ended"} \subseteq Places
  BY DEF Places
<1>6. ASSUME store' = Done(s), UNCHANGED <<rows, final>>, store[s].pc = "item"
      PROVE  Kept("item", gone)
  <2>1. Turns(s, "item", gone)
    BY <1>6, DoneTurns
  <2>2. QED  BY <1>3, <1>6, <2>1 DEF Keeps
<1>7. CASE WriterGet(s)
  <2>1. UNCHANGED <<rows, final>> /\ store[s].pc \in {"start", "get"}
    BY <1>7 DEF WriterGet, disk
  <2>2. PICK pc \in {"ended", "item"} : Turns(s, pc, gone)
    BY <1>7, GetTurns
  <2>3. Kept(pc, gone)
    BY <1>3, <2>1, <2>2 DEF Keeps
  <2>4. QED  BY <1>1, <1>5, <2>3
<1>8. CASE WriterAccess(s)
  <2>1. Kept("item", gone)
    BY <1>6, <1>8 DEF WriterAccess, AtItem, disk
  <2>2. QED  BY <1>1, <1>5, <2>1
<1>9. CASE WriterCleanup(s)
  <2>1. store[s].pc = "item" /\ rows' = rows
    BY <1>9 DEF WriterCleanup, AtItem
  <2>2. CASE h \in rows
    <3>1. final' = [final EXCEPT ![h] = None] /\ store' = [store EXCEPT ![s].pc = "forget"]
      BY <1>9, <2>2 DEF WriterCleanup
    <3>2. Turns(s, "forget", gone)
      BY <3>1, PlaceTurns
    <3>3. final'[h] = None /\ \A k \in Hashes : final'[k] # None => final[k] # None
      BY <1>1, <2>2, <3>1 DEF Typed
    <3>4. Kept("forget", gone)
      BY <1>1, <1>3, <2>1, <2>2, <3>2, <3>3 DEF Keeps
    <3>5. QED  BY <1>1, <1>5, <3>4
  <2>3. CASE h \notin rows
    <3>1. Kept("item", gone)
      BY <1>6, <1>9, <2>1, <2>3 DEF WriterCleanup
    <3>2. QED  BY <1>1, <1>5, <3>1
  <2>4. QED  BY <2>2, <2>3
<1>10. CASE WriterForget(s)
  <2>1. /\ store[s].pc = "forget" /\ rows' = rows \ {h} /\ final' = final /\ store' = Done(s)
    BY <1>10 DEF WriterForget
  <2>2. Steady => final[h] = None
    BY <2>1 DEF Covered
  <2>3. Kept("item", gone)
    BY <1>3, <2>1, <2>2, DoneTurns DEF Keeps
  <2>4. QED  BY <1>1, <1>5, <2>3
<1>11. CASE WriterWrite(s)
  <2> DEFINE mine == TmpOf(h, AtHand(s).seq)
  <2>1. store[s].pc = "item" /\ rows' = rows
    BY <1>11 DEF WriterWrite, AtItem
  <2>2. CASE h \in rows \/ mine = {}
    <3>1. Kept("item", gone)
      BY <1>6, <1>11, <2>1, <2>2 DEF WriterWrite
    <3>2. QED  BY <1>1, <1>5, <3>1
  <2>3. CASE ~ (h \in rows \/ mine = {})
    <3>1. store' = [store EXCEPT ![s].pc = "renamed"]
      BY <1>11, <2>3 DEF WriterWrite
    <3>2. PICK t \in mine : final' = [final EXCEPT ![h] = [epoch |-> t.epoch, whole |-> t.whole]]
      BY <1>11, <2>3 DEF WriterWrite
    <3>3. h \in Hashes
      BY <3>2 DEF TmpOf, Typed, Tmps
    <3>4. \A k \in Hashes : k # h => final'[k] = final[k]
      BY <3>2, <3>3 DEF Typed
    <3>5. Turns(s, "renamed", gone)
      BY <3>1, PlaceTurns
    <3>6. Kept("renamed", gone)
      BY <1>3, <2>1, <3>3, <3>4, <3>5 DEF Keeps
    <3>7. QED  BY <1>1, <1>5, <3>6
  <2>4. QED  BY <2>2, <2>3
<1>12. CASE WriterInsert(s)
  <2>1. /\ store[s].pc = "renamed" /\ final' = final /\ store' = Done(s)
        /\ \/ rows' = rows \cup {h}
           \/ rows' = rows /\ (final[h] = None \/ "db" \in faults)
    BY <1>12 DEF WriterInsert
  <2>2. Steady => \A k \in Hashes \ rows' : final'[k] = None
    BY <1>2, <1>3, <2>1
  <2>3. Kept("item", gone)
    BY <2>1, <2>2, DoneTurns DEF Keeps
  <2>4. QED  BY <1>1, <1>5, <2>3
<1>13. CASE WriterEvict(s)
  <2>1. store[s].pc = "item" /\ rows' = rows
    BY <1>13 DEF WriterEvict
  <2>2. CASE ~ OverBudget
    <3>1. final' = final /\ store' = [store EXCEPT ![s].pc = "get"]
      BY <1>13, <2>2 DEF WriterEvict
    <3>2. Turns(s, "get", gone)
      BY <3>1, PlaceTurns
    <3>3. Cardinality(rows) <= MaxRows
      <4>1. IsFiniteSet(rows)
        BY <1>1, DiskAssumption, FS_Subset
      <4>2. QED  BY <2>2, <4>1, FS_CardinalityType, DiskAssumption DEF OverBudget
    <3>4. Kept("get", gone)
      BY <1>3, <2>1, <3>1, <3>2, <3>3 DEF Keeps
    <3>5. QED  BY <1>1, <1>5, <3>4
  <2>3. CASE OverBudget
    <3>1. PICK V \in SUBSET rows :
            /\ Cardinality(rows \ V) = Target
            /\ final' = [k \in Hashes |-> IF k \in V THEN None ELSE final[k]]
            /\ store' = [store EXCEPT ![s].pc = "evict", ![s].gone = V]
      BY <1>13, <2>3 DEF WriterEvict
    <3>2. Turns(s, "evict", V) /\ V \in SUBSET Hashes
      BY <1>1, <3>1, MoveTurns
    <3>3. \A k \in Hashes : final'[k] # None => final[k] # None /\ k \notin V
      BY <3>1
    <3>4. Kept("evict", V)
      BY <1>3, <2>1, <3>1, <3>2, <3>3 DEF Keeps
    <3>5. QED  BY <1>5, <3>2, <3>4
  <2>4. QED  BY <2>2, <2>3
<1>14. CASE WriterCommit(s)
  <2>1. store[s].pc = "evict" /\ final' = final /\ {} \in SUBSET Hashes
    BY <1>14 DEF WriterCommit
  <2>2. CASE rows' = rows \ gone /\ store' = [store EXCEPT ![s].pc = "get", ![s].gone = {}]
    <3>1. Turns(s, "get", {})
      BY <2>2, MoveTurns
    <3>2. Steady => \A k \in gone : final[k] = None
      BY <2>1 DEF Covered
    <3>3. ~ Overlaps => Cardinality(rows') <= MaxRows
      BY <1>4, <2>1, <2>2, DiskAssumption DEF Frugal
    <3>4. Kept("get", {})
      BY <1>3, <2>1, <2>2, <3>1, <3>2, <3>3 DEF Keeps
    <3>5. QED  BY <1>5, <2>1, <3>4
  <2>3. CASE rows' = rows /\ store' = [store EXCEPT ![s].pc = "ended", ![s].gone = {}]
    <3>1. Turns(s, "ended", {})
      BY <2>3, MoveTurns
    <3>2. Kept("ended", {})
      BY <1>3, <2>1, <2>3, <3>1 DEF Keeps
    <3>3. QED  BY <1>5, <2>1, <3>2
  <2>4. QED  BY <1>14, <2>2, <2>3 DEF WriterCommit
<1>15. CASE FlushDone(s)
  <2>1. /\ store' = [store EXCEPT ![s].pc = "ended"] /\ UNCHANGED <<rows, final>>
        /\ store[s].pc = "item"
    BY <1>15 DEF FlushDone, disk
  <2>2. Kept("ended", gone)
    BY <1>3, <2>1, PlaceTurns DEF Keeps
  <2>3. QED  BY <1>1, <1>5, <2>2
<1>16. QED
  BY <1>7, <1>8, <1>9, <1>10, <1>11, <1>12, <1>13, <1>14, <1>15 DEF Writer

LEMMA WriterRInv ==
  ASSUME IInv, RInv, NEW s \in 1 .. MaxStores, Writer(s)
  PROVE  RInv'
<1>1. StoreStep(s) /\ store[s].pc # "ended" /\ UNCHANGED <<cur, faults>>
  BY WriterSteps, WriterMain DEF mainvars
<1>2. FilesBounded'
  BY WriterFiles
<1>3. PICK pc \in Places, G \in SUBSET Hashes :
        /\ Turns(s, pc, G) /\ Keeps(s, pc, G)
        /\ pc \in {"forget", "renamed"} => AtHand(s).hash \in Hashes
  BY WriterKeeps
<1>4. QED  BY <1>1, <1>2, <1>3, TurnRInv

\* When the store is opened again no writer has a row at hand: the last one
\* has ended, or the process has.
LEMMA ReopenRInv == ASSUME IInv, RInv, Reopen \/ Crash PROVE RInv'
<1> USE DEF RInv
<1>1. /\ cur \in 1 .. MaxStores /\ cur + 1 \in 1 .. MaxStores /\ cur' = cur + 1
      /\ main'.pc = "idle" /\ tmps' = {} /\ seq' = 0
      /\ UNCHANGED <<rows, final, epoch, faults>>
  BY DiskAssumption DEF Reopen, Crash, Reopened, IInv, Typed, Idle
<1>2. \A s \in 1 .. MaxStores :
        store'[s] = IF s = cur' THEN NewStore ELSE IF Crash THEN Ended ELSE store[s]
  BY <1>1 DEF Reopen, Crash, IInv, Typed
<1>3. /\ NewStore.pc = "start" /\ NewStore.queue = << >> /\ NewStore.gone = {}
      /\ Ended.pc = "ended" /\ Ended.queue = << >> /\ Ended.gone = {}
      /\ Len(<< >>) = 0
  BY DEF NewStore, Ended, StoreAt
<1>4. FilesBounded'
  BY <1>1, DiskAssumption DEF FilesBounded
<1>5. StoresBounded'
  <2>1. \A s \in 1 .. MaxStores : store'[s] = store[s] => AtHand(s)' = AtHand(s)
    BY DEF AtHand
  <2>2. QED  BY <1>2, <1>3, <2>1, DiskAssumption DEF StoresBounded
<1>6. Frugal'
  BY <1>1, <1>2, <1>3 DEF Frugal
<1>7. ASSUME Steady' PROVE Reopen /\ Steady /\ ~ Overlaps
  <2>1. "crash" \notin faults /\ ~ Overlaps
    BY <1>1, <1>7 DEF Steady, Overlaps
  <2>2. QED  BY <1>1, <1>7, <2>1 DEF Steady, Crash
<1>8. Covered'
  <2> SUFFICES ASSUME Steady' PROVE Covered'
    BY DEF Covered
  <2>1. \A s \in 1 .. MaxStores : store[s].pc = "ended"
    BY <1>1, <1>7 DEF IInv, OneWriter, Reopen
  <2>2. \A h \in Hashes \ rows : final[h] = None
    BY <1>7, <2>1 DEF Covered, Renamed
  <2>3. \A s \in 1 .. MaxStores : store'[s].pc \in {"start", "ended"}
    BY <1>2, <1>3, <2>1
  <2>4. QED  BY <1>1, <2>2, <2>3 DEF Covered
<1>9. QED  BY <1>4, <1>5, <1>6, <1>8

LEMMA NextRInv == IInv /\ RInv /\ [Next]_vars => RInv'
<1> SUFFICES ASSUME IInv, RInv, [Next]_vars PROVE RInv'
  OBVIOUS
<1>1. CASE UNCHANGED vars
  <2>1. UNCHANGED <<rows, final, tmps, store, cur, seq, main, epoch, faults>>
    BY <1>1 DEF vars
  <2>2. FilesBounded' /\ StoresBounded'
    BY <2>1 DEF RInv, FilesBounded, StoresBounded, AtHand
  <2>3. Covered' /\ Frugal'
    BY <2>1 DEF RInv, Covered, Frugal, Steady, Overlaps, Renamed, AtHand
  <2>4. QED  BY <2>2, <2>3 DEF RInv
<1>2. CASE MainThread /\ ~ Reopen
  <2>1. Attends /\ Fewer /\ FilesBounded'
    BY <1>2, MainAttends, MainFewer, MainFiles
  <2>2. ClearRows => /\ \A h \in Hashes : final'[h] = None
                     /\ \A s \in 1 .. MaxStores : store[s].pc # "evict"
    BY DEF ClearRows, IInv, Emptied
  <2>3. QED  BY <1>2, <2>1, <2>2, MainRows, AttendsRInv
<1>3. ASSUME NEW s \in 1 .. MaxStores, Writer(s) PROVE RInv'
  BY <1>3, WriterRInv
<1>4. QED  BY <1>1, <1>2, <1>3, ReopenRInv DEF Next, MainThread

\* The invariant is what NoOrphans states.
LEMMA RInvOrphans == IInv /\ RInv => NoOrphans
<1> SUFFICES ASSUME IInv, RInv PROVE NoOrphans
  OBVIOUS
<1> USE DEF RInv
<1>1. /\ rows \subseteq Hashes /\ cur \in 1 .. MaxStores /\ seq \in Nat /\ epoch \in Nat
      /\ MaxSaves \in Nat /\ MaxClears \in Nat
  BY DiskAssumption DEF FilesBounded, IInv, Typed
<1>2. final \in [Hashes -> {None} \cup [epoch : 0 .. epoch, whole : BOOLEAN]]
  <2>1. ASSUME NEW h \in Hashes
        PROVE  final[h] \in {None} \cup [epoch : 0 .. epoch, whole : BOOLEAN]
    <3>1. final[h] \in Files /\ (final[h] # None => final[h].epoch <= epoch)
      BY <2>1 DEF FilesBounded, IInv, Typed
    <3>2. QED  BY <1>1, <3>1 DEF Files
  <2>2. QED  BY <2>1 DEF IInv, Typed
<1>3. \A t \in tmps : t.hash \in Hashes /\ t.seq < seq /\ t.epoch <= epoch
  BY DEF FilesBounded, IInv, Typed, Tmps
<1>4. \A s \in 1 .. MaxStores :
        /\ store[s].queue \in Seq(Items) /\ Len(store[s].queue) <= MaxQueue
        /\ store[s].batch \in Seq(Items) /\ store[s].gone \subseteq Hashes
        /\ store[s].pc \in {"forget", "renamed"} => store[s].batch # << >>
  BY DEF StoresBounded, IInv, Typed, Stores
<1>5. TypeOK
  BY <1>1, <1>2, <1>3, <1>4 DEF TypeOK, FilesBounded
<1>6. QED  BY <1>5 DEF NoOrphans, Covered, Steady, Renamed, Frugal, Overlaps

\* A published file has its row, unless the writer is about to insert it, an
\* insert failed, the process ended between the two or two writers worked at
\* once; and what is left after a batch is within the budget (_write_block,
\* _cleanup_entry, _maybe_evict, clear).
THEOREM FilesHaveRows == Spec => []NoOrphans
<1>1. Init => IInv /\ RInv
  BY InitIInv, InitRInv
<1>2. (IInv /\ RInv) /\ [Next]_vars => (IInv /\ RInv)'
  BY NextIInv, NextRInv
<1>3. QED  BY <1>1, <1>2, RInvOrphans, PTL DEF Spec

-----------------------------------------------------------------------------
\* What one layer becomes on its way into a block.

LEMMA MinOfTwo ==
  ASSUME NEW a \in Nat, NEW b \in Nat
  PROVE  Min({a, b}) = IF a <= b THEN a ELSE b
<1> DEFINE m == IF a <= b THEN a ELSE b
           S == {a, b}
<1>1. m \in S /\ \A y \in S : m <= y
  OBVIOUS
<1>2. \A x \in S : (\A y \in S : x <= y) => x = m
  OBVIOUS
<1> HIDE DEF m
<1>3. (CHOOSE x \in S : \A y \in S : x <= y) = m
  BY <1>1, <1>2
<1> QED BY <1>3 DEF Min, m

\* What the operators do to one layer that is not a list.
Shortened1(l, n) ==
  IF vision THEN [Shortened(l, n) EXCEPT !.kind = IF @ = "rot" THEN "kv" ELSE @]
            ELSE Shortened(l, n)
Quantized1(l) == IF bits /\ l.kind = "kv" THEN [l EXCEPT !.kind = "quant"] ELSE l
Own1(l) == [l EXCEPT !.heads = 1]
Slice1(l, from, upto, last) ==
  IF l.kind = "ssm" THEN IF last THEN l ELSE Skip
  ELSE IF from >= Min({upto, Len(l.pos)}) THEN Skip
  ELSE [l EXCEPT !.pos = SubSeq(@, from + 1, Min({upto, Len(@)}))]

LeafKinds == {"kv", "tq", "rot", "ssm"}

\* A cache of the model whose layers of each kind k are f[k].
Built(f) ==
  [i \in DOMAIN model |->
     IF model[i] = "list" THEN List([j \in DOMAIN SubKinds |-> f[SubKinds[j]]])
                          ELSE f[model[i]]]

\* A request's cache after truncation; a cache as it is stored.
Truncation(n, t, heads) ==
  IF vision THEN VisionTruncated(RawCache(t, heads), n) ELSE Truncated(RawCache(t, heads), n, t)
Whole1(k, n, t, heads) == Own1(Quantized1(Shortened1(RawLayer(k, t, heads), n)))

\* What never changes.
Fixed ==
  /\ vision \in BOOLEAN /\ bits \in BOOLEAN
  /\ model \in Seq({"kv", "tq", "rot", "ssm", "list"})
  /\ model \in IF vision THEN VisionModels ELSE Models
  /\ len \in [P -> 1 .. MaxPrompt] /\ common \in Nat
  /\ PrefixFree => common < len[1] /\ common < len[2]

LEMMA ModelKinds ==
  ASSUME Fixed
  PROVE  /\ DOMAIN model = 1 .. Len(model) /\ Len(model) \in Nat
         /\ \A i \in DOMAIN model : model[i] = "list" \/ model[i] \in LeafKinds
         /\ DOMAIN SubKinds = 1 .. Len(SubKinds) /\ Len(SubKinds) \in Nat \ {0}
         /\ \A j \in DOMAIN SubKinds : SubKinds[j] \in {"kv", "ssm"} /\ SubKinds[j] \in LeafKinds
<1>1. SubKinds \in Seq({"kv", "ssm"}) /\ SubKinds # << >>
  BY DataAssumption
<1>2. Len(SubKinds) # 0 /\ Len(SubKinds) \in Nat
  BY <1>1, EmptySeq, LenProperties
<1> QED
  BY <1>1, <1>2, LenProperties, ElementOfSeq DEF Fixed, LeafKinds

\* What Built makes of each place.
LEMMA BuiltPlaces ==
  ASSUME Fixed, NEW f, \A k \in LeafKinds : f[k].kind # "list", NEW i \in DOMAIN model
  PROVE  /\ DOMAIN Built(f) = DOMAIN model
         /\ model[i] = "list" =>
              /\ Built(f)[i] = List([j \in DOMAIN SubKinds |-> f[SubKinds[j]]])
              /\ Built(f)[i].kind = "list"
              /\ Built(f)[i].subs = [j \in DOMAIN SubKinds |-> f[SubKinds[j]]]
         /\ model[i] # "list" =>
              Built(f)[i] = f[model[i]] /\ Built(f)[i].kind # "list" /\ model[i] \in LeafKinds
<1>1. model[i] = "list" \/ model[i] \in LeafKinds
  BY ModelKinds
<1> QED
  BY <1>1 DEF Built, List, Layer, LayerOf

LEMMA RawBuilt ==
  ASSUME Fixed, NEW t, NEW heads, NEW f,
         f = [k \in LeafKinds |-> RawLayer(k, t, heads)]
  PROVE  RawCache(t, heads) = Built(f)
<1>1. \A i \in DOMAIN model : model[i] = "list" \/ model[i] \in LeafKinds
  BY ModelKinds
<1>2. \A j \in DOMAIN SubKinds : SubKinds[j] \in LeafKinds
  BY ModelKinds
<1>3. [j \in DOMAIN SubKinds |-> RawLayer(SubKinds[j], t, heads)] =
      [j \in DOMAIN SubKinds |-> f[SubKinds[j]]]
  BY <1>2
<1> QED
  BY <1>1, <1>3 DEF RawCache, Built

VisionShortened(b, n) ==
  [i \in DOMAIN b |->
     Leaves(LAMBDA l : [Shortened(l, n) EXCEPT !.kind = IF @ = "rot" THEN "kv" ELSE @], b[i])]
TextShortened(b, n) == [i \in DOMAIN b |-> Leaves(LAMBDA l : Shortened(l, n), b[i])]

LEMMA TruncatedBuilt ==
  ASSUME Fixed, NEW f, \A k \in LeafKinds : f[k].kind # "list", NEW n,
         NEW g, g = [k \in LeafKinds |-> Shortened1(f[k], n)]
  PROVE  /\ vision => VisionShortened(Built(f), n) = Built(g)
         /\ ~ vision => TextShortened(Built(f), n) = Built(g)
<1> DEFINE b == Built(f)
<1>1. DOMAIN b = DOMAIN model
  BY DEF Built
<1>2. \A j \in DOMAIN SubKinds : g[SubKinds[j]] = Shortened1(f[SubKinds[j]], n)
  BY ModelKinds
<1>3. ASSUME NEW i \in DOMAIN model, model[i] = "list"
      PROVE  /\ b[i].kind = "list" /\ b[i].subs = [j \in DOMAIN SubKinds |-> f[SubKinds[j]]]
             /\ Built(g)[i] = List([j \in DOMAIN SubKinds |-> Shortened1(f[SubKinds[j]], n)])
  <2>1. Built(g)[i] = List([j \in DOMAIN SubKinds |-> g[SubKinds[j]]])
    BY <1>3 DEF Built
  <2>2. [j \in DOMAIN SubKinds |-> g[SubKinds[j]]] =
        [j \in DOMAIN SubKinds |-> Shortened1(f[SubKinds[j]], n)]
    BY <1>2
  <2> QED BY <1>3, <2>1, <2>2, BuiltPlaces
<1>4. ASSUME NEW i \in DOMAIN model, model[i] # "list"
      PROVE  b[i] = f[model[i]] /\ b[i].kind # "list" /\ Built(g)[i] = Shortened1(f[model[i]], n)
  <2>1. Built(g)[i] = g[model[i]]
    BY <1>4 DEF Built
  <2> QED BY <1>4, <2>1, BuiltPlaces
<1>5. Built(g) = [i \in DOMAIN model |-> Built(g)[i]]
  BY DEF Built
<1> HIDE DEF b
<1>6. CASE vision
  <2>1. \A l : Shortened1(l, n) = [Shortened(l, n) EXCEPT !.kind = IF @ = "rot" THEN "kv" ELSE @]
    BY <1>6 DEF Shortened1
  <2>2. \A i \in DOMAIN model :
          Leaves(LAMBDA l : [Shortened(l, n) EXCEPT !.kind = IF @ = "rot" THEN "kv" ELSE @], b[i])
            = Built(g)[i]
    <3>1. ASSUME NEW i \in DOMAIN model, model[i] = "list"
          PROVE  Leaves(LAMBDA l : [Shortened(l, n) EXCEPT !.kind = IF @ = "rot" THEN "kv" ELSE @], b[i])
                   = Built(g)[i]
      <4>1. Leaves(LAMBDA l : [Shortened(l, n) EXCEPT !.kind = IF @ = "rot" THEN "kv" ELSE @], b[i])
            = List([j \in DOMAIN b[i].subs |->
                [Shortened(b[i].subs[j], n) EXCEPT !.kind = IF @ = "rot" THEN "kv" ELSE @]])
        BY <1>3, <3>1 DEF Leaves
      <4>2. [j \in DOMAIN b[i].subs |->
                [Shortened(b[i].subs[j], n) EXCEPT !.kind = IF @ = "rot" THEN "kv" ELSE @]] =
            [j \in DOMAIN b[i].subs |-> Shortened1(b[i].subs[j], n)]
        BY <1>6 DEF Shortened1
      <4>3. [j \in DOMAIN b[i].subs |-> Shortened1(b[i].subs[j], n)] =
            [j \in DOMAIN SubKinds |-> Shortened1(f[SubKinds[j]], n)]
        BY <1>3, <3>1
      <4> QED BY <1>3, <3>1, <4>1, <4>2, <4>3
    <3>2. ASSUME NEW i \in DOMAIN model, model[i] # "list"
          PROVE  Leaves(LAMBDA l : [Shortened(l, n) EXCEPT !.kind = IF @ = "rot" THEN "kv" ELSE @], b[i])
                   = Built(g)[i]
      BY <1>4, <2>1, <3>2 DEF Leaves
    <3> QED BY <3>1, <3>2
  <2> QED BY <1>1, <1>5, <1>6, <2>2 DEF b, VisionShortened
<1>7. CASE ~ vision
  <2>1. \A l : Shortened1(l, n) = Shortened(l, n)
    BY <1>7 DEF Shortened1
  <2>2. \A i \in DOMAIN model : Leaves(LAMBDA l : Shortened(l, n), b[i]) = Built(g)[i]
    <3>1. ASSUME NEW i \in DOMAIN model, model[i] = "list"
          PROVE  Leaves(LAMBDA l : Shortened(l, n), b[i]) = Built(g)[i]
      <4>1. Leaves(LAMBDA l : Shortened(l, n), b[i])
            = List([j \in DOMAIN b[i].subs |-> Shortened(b[i].subs[j], n)])
        BY <1>3, <3>1 DEF Leaves
      <4>2. [j \in DOMAIN b[i].subs |-> Shortened(b[i].subs[j], n)] =
            [j \in DOMAIN SubKinds |-> Shortened1(f[SubKinds[j]], n)]
        BY <1>3, <2>1, <3>1
      <4> QED BY <1>3, <3>1, <4>1, <4>2
    <3>2. ASSUME NEW i \in DOMAIN model, model[i] # "list"
          PROVE  Leaves(LAMBDA l : Shortened(l, n), b[i]) = Built(g)[i]
      BY <1>4, <2>1, <3>2 DEF Leaves
    <3> QED BY <3>1, <3>2
  <2> QED BY <1>1, <1>5, <1>7, <2>2 DEF b, TextShortened
<1> QED
  BY <1>6, <1>7

LEMMA QuantizedBuilt ==
  ASSUME Fixed, NEW f, \A k \in LeafKinds : f[k].kind # "list",
         NEW g, g = [k \in LeafKinds |-> Quantized1(f[k])]
  PROVE  Quantized(Built(f)) = Built(g)
<1> DEFINE b == Built(f)
<1>1. DOMAIN b = DOMAIN model
  BY DEF Built
<1>2. \A j \in DOMAIN SubKinds : g[SubKinds[j]] = Quantized1(f[SubKinds[j]])
  BY ModelKinds
<1>3. ASSUME NEW i \in DOMAIN model, model[i] = "list"
      PROVE  /\ b[i].kind = "list" /\ b[i].subs = [j \in DOMAIN SubKinds |-> f[SubKinds[j]]]
             /\ Built(g)[i] = List([j \in DOMAIN SubKinds |-> Quantized1(f[SubKinds[j]])])
  <2>1. Built(g)[i] = List([j \in DOMAIN SubKinds |-> g[SubKinds[j]]])
    BY <1>3 DEF Built
  <2>2. [j \in DOMAIN SubKinds |-> g[SubKinds[j]]] =
        [j \in DOMAIN SubKinds |-> Quantized1(f[SubKinds[j]])]
    BY <1>2
  <2> QED BY <1>3, <2>1, <2>2, BuiltPlaces
<1>4. ASSUME NEW i \in DOMAIN model, model[i] # "list"
      PROVE  b[i] = f[model[i]] /\ b[i].kind # "list" /\ Built(g)[i] = Quantized1(f[model[i]])
  <2>1. Built(g)[i] = g[model[i]]
    BY <1>4 DEF Built
  <2> QED BY <1>4, <2>1, BuiltPlaces
<1>5. Built(g) = [i \in DOMAIN model |-> Built(g)[i]] /\ DOMAIN Built(g) = DOMAIN model
  BY DEF Built
<1> HIDE DEF b
<1>6. Quantized(b) = [i \in DOMAIN b |-> Leaves(LAMBDA l : IF bits /\ l.kind = "kv" THEN [l EXCEPT !.kind = "quant"] ELSE l, b[i])]
  BY DEF Quantized
<1>7. \A i \in DOMAIN model : Quantized(b)[i] = Built(g)[i]
  <2>1. ASSUME NEW i \in DOMAIN model, model[i] = "list"
        PROVE  Quantized(b)[i] = Built(g)[i]
    <3>1. Quantized(b)[i] = List([j \in DOMAIN b[i].subs |-> Quantized1(b[i].subs[j])])
      BY <1>1, <1>3, <2>1 DEF Quantized, Leaves, Quantized1
    <3>2. [j \in DOMAIN b[i].subs |-> Quantized1(b[i].subs[j])] =
          [j \in DOMAIN SubKinds |-> Quantized1(f[SubKinds[j]])]
      BY <1>3, <2>1
    <3> QED BY <1>3, <2>1, <3>1, <3>2
  <2>2. ASSUME NEW i \in DOMAIN model, model[i] # "list"
        PROVE  Quantized(b)[i] = Built(g)[i]
    BY <1>1, <1>4, <2>2 DEF Quantized, Leaves, Quantized1
  <2> QED BY <2>1, <2>2
<1>8. DOMAIN Quantized(b) = DOMAIN model
  BY <1>1, <1>6
<1> QED
  BY <1>5, <1>6, <1>7, <1>8 DEF b

LEMMA ExtractedBuilt ==
  ASSUME Fixed, NEW f, \A k \in LeafKinds : f[k].kind # "list",
         NEW g, g = [k \in LeafKinds |-> Own1(f[k])]
  PROVE  Extracted(Built(f)) = Built(g)
<1> DEFINE b == Built(f)
<1>1. DOMAIN b = DOMAIN model
  BY DEF Built
<1>2. \A j \in DOMAIN SubKinds : g[SubKinds[j]] = Own1(f[SubKinds[j]])
  BY ModelKinds
<1>3. ASSUME NEW i \in DOMAIN model, model[i] = "list"
      PROVE  /\ b[i].kind = "list" /\ b[i].subs = [j \in DOMAIN SubKinds |-> f[SubKinds[j]]]
             /\ Built(g)[i] = List([j \in DOMAIN SubKinds |-> Own1(f[SubKinds[j]])])
  <2>1. Built(g)[i] = List([j \in DOMAIN SubKinds |-> g[SubKinds[j]]])
    BY <1>3 DEF Built
  <2>2. [j \in DOMAIN SubKinds |-> g[SubKinds[j]]] =
        [j \in DOMAIN SubKinds |-> Own1(f[SubKinds[j]])]
    BY <1>2
  <2> QED BY <1>3, <2>1, <2>2, BuiltPlaces
<1>4. ASSUME NEW i \in DOMAIN model, model[i] # "list"
      PROVE  b[i] = f[model[i]] /\ b[i].kind # "list" /\ Built(g)[i] = Own1(f[model[i]])
  <2>1. Built(g)[i] = g[model[i]]
    BY <1>4 DEF Built
  <2> QED BY <1>4, <2>1, BuiltPlaces
<1>5. Built(g) = [i \in DOMAIN model |-> Built(g)[i]] /\ DOMAIN Built(g) = DOMAIN model
  BY DEF Built
<1> HIDE DEF b
<1>6. Extracted(b) = [i \in DOMAIN b |-> Leaves(LAMBDA l : [l EXCEPT !.heads = 1], b[i])]
  BY DEF Extracted
<1>7. \A i \in DOMAIN model : Extracted(b)[i] = Built(g)[i]
  <2>1. ASSUME NEW i \in DOMAIN model, model[i] = "list"
        PROVE  Extracted(b)[i] = Built(g)[i]
    <3>1. Extracted(b)[i] = List([j \in DOMAIN b[i].subs |-> Own1(b[i].subs[j])])
      BY <1>1, <1>3, <2>1 DEF Extracted, Leaves, Own1
    <3>2. [j \in DOMAIN b[i].subs |-> Own1(b[i].subs[j])] =
          [j \in DOMAIN SubKinds |-> Own1(f[SubKinds[j]])]
      BY <1>3, <2>1
    <3> QED BY <1>3, <2>1, <3>1, <3>2
  <2>2. ASSUME NEW i \in DOMAIN model, model[i] # "list"
        PROVE  Extracted(b)[i] = Built(g)[i]
    BY <1>1, <1>4, <2>2 DEF Extracted, Leaves, Own1
  <2> QED BY <2>1, <2>2
<1>8. DOMAIN Extracted(b) = DOMAIN model
  BY <1>1, <1>6
<1> QED
  BY <1>5, <1>6, <1>7, <1>8 DEF b

LEMMA SliceBuilt ==
  ASSUME Fixed, NEW f, \A k \in LeafKinds : f[k].kind # "list",
         NEW from, NEW upto, NEW last,
         NEW g, g = [k \in LeafKinds |-> Slice1(f[k], from, upto, last)]
  PROVE  SliceOf(Built(f), from, upto, last) = Built(g)
<1> DEFINE b == Built(f)
<1>1. DOMAIN b = DOMAIN model
  BY DEF Built
<1>2. \A j \in DOMAIN SubKinds : g[SubKinds[j]] = Slice1(f[SubKinds[j]], from, upto, last)
  BY ModelKinds
<1>3. ASSUME NEW i \in DOMAIN model, model[i] = "list"
      PROVE  /\ b[i].kind = "list" /\ b[i].subs = [j \in DOMAIN SubKinds |-> f[SubKinds[j]]]
             /\ Built(g)[i] = List([j \in DOMAIN SubKinds |-> Slice1(f[SubKinds[j]], from, upto, last)])
  <2>1. Built(g)[i] = List([j \in DOMAIN SubKinds |-> g[SubKinds[j]]])
    BY <1>3 DEF Built
  <2>2. [j \in DOMAIN SubKinds |-> g[SubKinds[j]]] =
        [j \in DOMAIN SubKinds |-> Slice1(f[SubKinds[j]], from, upto, last)]
    BY <1>2
  <2> QED BY <1>3, <2>1, <2>2, BuiltPlaces
<1>4. ASSUME NEW i \in DOMAIN model, model[i] # "list"
      PROVE  b[i] = f[model[i]] /\ b[i].kind # "list" /\ Built(g)[i] = Slice1(f[model[i]], from, upto, last)
  <2>1. Built(g)[i] = g[model[i]]
    BY <1>4 DEF Built
  <2> QED BY <1>4, <2>1, BuiltPlaces
<1>5. Built(g) = [i \in DOMAIN model |-> Built(g)[i]] /\ DOMAIN Built(g) = DOMAIN model
  BY DEF Built
<1> HIDE DEF b
<1>6. SliceOf(b, from, upto, last) = [i \in DOMAIN b |-> Leaves(LAMBDA l : IF l.kind = "ssm" THEN IF last THEN l ELSE Skip
            ELSE IF from >= Min({upto, Len(l.pos)}) THEN Skip
            ELSE [l EXCEPT !.pos = SubSeq(@, from + 1, Min({upto, Len(@)}))], b[i])]
  BY DEF SliceOf
<1>7. \A i \in DOMAIN model : SliceOf(b, from, upto, last)[i] = Built(g)[i]
  <2>1. ASSUME NEW i \in DOMAIN model, model[i] = "list"
        PROVE  SliceOf(b, from, upto, last)[i] = Built(g)[i]
    <3>1. SliceOf(b, from, upto, last)[i] = List([j \in DOMAIN b[i].subs |-> Slice1(b[i].subs[j], from, upto, last)])
      BY <1>1, <1>3, <2>1 DEF SliceOf, Leaves, Slice1
    <3>2. [j \in DOMAIN b[i].subs |-> Slice1(b[i].subs[j], from, upto, last)] =
          [j \in DOMAIN SubKinds |-> Slice1(f[SubKinds[j]], from, upto, last)]
      BY <1>3, <2>1
    <3> QED BY <1>3, <2>1, <3>1, <3>2
  <2>2. ASSUME NEW i \in DOMAIN model, model[i] # "list"
        PROVE  SliceOf(b, from, upto, last)[i] = Built(g)[i]
    BY <1>1, <1>4, <2>2 DEF SliceOf, Leaves, Slice1
  <2> QED BY <2>1, <2>2
<1>8. DOMAIN SliceOf(b, from, upto, last) = DOMAIN model
  BY <1>1, <1>6
<1> QED
  BY <1>5, <1>6, <1>7, <1>8 DEF b

\* The kind an attention layer of kind k is stored under.
StoredKind(k) ==
  IF k = "ssm" THEN "ssm" ELSE IF k = "rot" /\ ~ vision THEN "rot"
  ELSE IF bits THEN "quant" ELSE "kv"

\* A layer that is not a list, of one of these kinds and with the model's heads.
Leaf(kinds) == [kind : kinds, pos : Seq(Nat), heads : {1}, subs : {<< >>}]

\* The positions after lo up to hi.
Run(lo, hi) == [x \in 1 .. hi - lo |-> lo + x]

LEMMA RawPositions ==
  ASSUME NEW k \in LeafKinds, NEW t \in Nat, NEW heads
  PROVE  \E pos \in Seq(Nat) :
           /\ RawLayer(k, t, heads) =
                [kind |-> IF k = "tq" THEN "kv" ELSE k, pos |-> pos,
                 heads |-> IF k = "ssm" THEN 1 ELSE heads, subs |-> << >>]
           /\ k = "ssm" => pos = <<t>>
           /\ k # "ssm" /\ (k = "rot" => t <= Window) => pos = Run(0, t)
<1> DEFINE m == Min({t, Window})
           last == [i \in 1 .. m |-> t - m + i]
<1>1. m \in Nat /\ m <= t /\ (t <= Window => m = t)
  BY MinOfTwo, DataAssumption
<1>2. CASE k = "ssm"
  <2>1. RawLayer(k, t, heads) = [kind |-> "ssm", pos |-> <<t>>, heads |-> 1, subs |-> << >>]
    BY <1>2 DEF RawLayer, Layer, LayerOf
  <2>2. <<t>> \in Seq(Nat)
    OBVIOUS
  <2> QED BY <1>2, <2>1, <2>2
<1>3. CASE k = "rot"
  <2>1. RawLayer(k, t, heads) = [kind |-> "rot", pos |-> last, heads |-> heads, subs |-> << >>]
    BY <1>3 DEF RawLayer, LayerOf
  <2> HIDE DEF m
  <2>2. last \in Seq(Nat)
    <3>1. \A i \in 1 .. m : t - m + i \in Nat
      BY <1>1
    <3> QED BY <1>1, <3>1
  <2>3. t <= Window => last = Run(0, t)
    <3>1. ASSUME t <= Window PROVE last = [x \in 1 .. t - 0 |-> 0 + x]
      <4>1. m = t /\ t - 0 = t /\ 1 .. m = 1 .. t - 0
        BY <1>1, <3>1
      <4>2. \A i \in 1 .. m : t - m + i = 0 + i
        BY <1>1, <4>1
      <4> QED BY <4>1, <4>2
    <3> QED BY <3>1 DEF Run
  <2> HIDE DEF last
  <2> QED BY <1>3, <2>1, <2>2, <2>3
<1>4. CASE k \in {"kv", "tq"}
  <2>1. RawLayer(k, t, heads) =
          [kind |-> "kv", pos |-> [i \in 1 .. t |-> i], heads |-> heads, subs |-> << >>]
    BY <1>4 DEF RawLayer, LayerOf
  <2>2. [i \in 1 .. t |-> i] = Run(0, t)
    BY DEF Run
  <2>3. Run(0, t) \in Seq(Nat)
    BY <2>2
  <2> QED BY <1>4, <2>1, <2>2, <2>3
<1> QED
  BY <1>2, <1>3, <1>4 DEF LeafKinds

LEMMA AsList ==
  ASSUME NEW S, NEW N \in Nat, NEW f \in [1 .. N -> S]
  PROVE  f \in Seq(S) /\ Len(f) = N
<1>1. f \in Seq(S)
  OBVIOUS
<1> QED
  BY <1>1, LenProperties

\* A part of a list.
LEMMA PartFacts ==
  ASSUME NEW S, NEW s \in Seq(S), NEW a \in Nat, NEW b \in Nat, a <= b, b <= Len(s)
  PROVE  /\ SubSeq(s, a + 1, b) \in Seq(S) /\ Len(SubSeq(s, a + 1, b)) = b - a
         /\ \A x \in 1 .. b - a : SubSeq(s, a + 1, b)[x] = s[a + x]
<1> DEFINE N == Len(s)
           v == SubSeq(s, a + 1, b)
<1>1. N \in Nat /\ b <= N /\ \A i \in 1 .. N : s[i] \in S
  BY LenProperties, ElementOfSeq
<1>2. \A i \in a + 1 .. b : s[i] \in S
  BY <1>1
<1>3. Len(v) = IF a + 1 <= b THEN b - (a + 1) + 1 ELSE 0
  BY <1>2, SubSeqProperties
<1>4. v \in Seq(S) /\ \A i \in 1 .. b - (a + 1) + 1 : v[i] = s[(a + 1) + i - 1]
  BY <1>2, SubSeqProperties
<1> HIDE DEF v, N
<1>5. v \in Seq(S) /\ Len(v) = b - a /\ \A x \in 1 .. b - a : v[x] = s[a + x]
  BY <1>1, <1>3, <1>4
<1> QED
  BY <1>5 DEF v

\* A part of a run of positions is one.
LEMMA RunFacts ==
  ASSUME NEW lo \in Nat, NEW hi \in Nat
  PROVE  /\ Run(lo, hi) \in Seq(Nat) /\ Len(Run(lo, hi)) = IF lo <= hi THEN hi - lo ELSE 0
         /\ \A a, b \in Nat : a <= b /\ lo + b <= hi =>
              SubSeq(Run(lo, hi), a + 1, b) = Run(lo + a, lo + b)
<1> DEFINE N == IF lo <= hi THEN hi - lo ELSE 0
<1>1. N \in Nat /\ 1 .. hi - lo = 1 .. N /\ \A x \in 1 .. N : lo + x \in Nat
  OBVIOUS
<1>2. Run(lo, hi) \in Seq(Nat) /\ Len(Run(lo, hi)) = N
  <2> HIDE DEF N
  <2>1. Run(lo, hi) \in [1 .. N -> Nat]
    BY <1>1 DEF Run
  <2> QED BY <1>1, <2>1, AsList
<1>3. ASSUME NEW a \in Nat, NEW b \in Nat, a <= b, lo + b <= hi
      PROVE  SubSeq(Run(lo, hi), a + 1, b) = Run(lo + a, lo + b)
  <2> DEFINE s == SubSeq(Run(lo, hi), a + 1, b)
  <2>1. Len(Run(lo, hi)) = hi - lo
    BY <1>2, <1>3
  <2>2. /\ s \in Seq(Nat) /\ Len(s) = b - a
        /\ \A x \in 1 .. b - a : s[x] = Run(lo, hi)[a + x]
    <3>1. b <= Len(Run(lo, hi))
      BY <1>3, <2>1
    <3> QED BY <1>2, <1>3, <3>1, PartFacts
  <2>3. \A x \in 1 .. b - a : Run(lo, hi)[a + x] = (lo + a) + x
    BY <1>3 DEF Run
  <2>4. s = [x \in 1 .. b - a |-> (lo + a) + x]
    <3>1. s = [x \in 1 .. b - a |-> s[x]]
      BY <2>2, LenProperties
    <3> QED BY <2>2, <2>3, <3>1
  <2>5. (lo + b) - (lo + a) = b - a
    BY <1>3
  <2> QED BY <2>4, <2>5 DEF Run
<1> QED
  BY <1>2, <1>3

LEMMA RunParts ==
  ASSUME NEW h \in Nat, NEW a \in Nat, NEW b \in Nat, a <= b, b <= h
  PROVE  Len(Run(0, h)) = h /\ SubSeq(Run(0, h), a + 1, b) = Run(a, b)
<1>1. Len(Run(0, h)) = IF 0 <= h THEN h - 0 ELSE 0
  BY RunFacts
<1> DEFINE c == 0 + a
           d == 0 + b
<1>2. SubSeq(Run(0, h), a + 1, b) = Run(c, d)
  <2>1. 0 + b <= h /\ 0 \in Nat
    OBVIOUS
  <2>2. \A lo, hi \in Nat : \A x, y \in Nat : x <= y /\ lo + y <= hi =>
          SubSeq(Run(lo, hi), x + 1, y) = Run(lo + x, lo + y)
    BY RunFacts
  <2> QED BY <2>1, <2>2, Zenon
<1>3. c = a /\ d = b
  OBVIOUS
<1> HIDE DEF c, d
<1> QED
  BY <1>1, <1>2, <1>3

\* A layer as it is stored.
LEMMA WholeFacts ==
  ASSUME Fixed, NEW k \in LeafKinds, NEW n \in Nat, n > 1, NEW t \in Nat, NEW heads
  PROVE  /\ Whole1(k, n, t, heads) \in Leaf({StoredKind(k)})
         /\ k = "ssm" => Whole1(k, n, t, heads) = Layer("ssm", <<t>>)
         /\ k # "ssm" /\ (k = "rot" => t <= Window) /\ n <= t =>
              Whole1(k, n, t, heads) = LayerOf(StoredKind(k), Run(0, n - 1), 1)
<1>1. PICK pos \in Seq(Nat) :
        /\ RawLayer(k, t, heads) =
             [kind |-> IF k = "tq" THEN "kv" ELSE k, pos |-> pos,
              heads |-> IF k = "ssm" THEN 1 ELSE heads, subs |-> << >>]
        /\ k = "ssm" => pos = <<t>>
        /\ k # "ssm" /\ (k = "rot" => t <= Window) => pos = Run(0, t)
  BY RawPositions
<1> DEFINE raw == RawLayer(k, t, heads)
           a == Shortened1(raw, n)
           b == Quantized1(a)
           w == Own1(b)
           m == Min({PromptTarget(n), Len(pos)})
           cut == SubSeq(pos, 1, m)
<1> HIDE DEF raw, cut
<1>2. a = [kind |-> IF (vision /\ k = "rot") \/ k = "tq" THEN "kv" ELSE k,
           pos |-> IF k = "ssm" THEN pos ELSE cut,
           heads |-> IF k = "ssm" THEN 1 ELSE heads, subs |-> << >>]
  <2>1. CASE k = "ssm"
    <3>1. Shortened(raw, n) = raw
      BY <1>1, <2>1 DEF Shortened, raw
    <3>2. a = raw
      <4>1. raw.kind # "rot"
        BY <1>1, <2>1 DEF raw
      <4>2. [raw EXCEPT !.kind = IF @ = "rot" THEN "kv" ELSE @] = raw
        BY <1>1, <4>1 DEF raw
      <4> QED BY <3>1, <4>2 DEF Shortened1
    <3> QED BY <1>1, <2>1, <3>2 DEF raw
  <2>2. CASE k # "ssm"
    <3> DEFINE s == Shortened(raw, n)
    <3>1. s = [kind |-> IF k = "tq" THEN "kv" ELSE k, pos |-> cut,
               heads |-> heads, subs |-> << >>]
      <4>1. raw.kind # "ssm"
        BY <1>1, <2>2 DEF raw
      <4>2. s = [raw EXCEPT !.pos = SubSeq(@, 1, Min({PromptTarget(n), Len(@)}))]
        BY <4>1 DEF Shortened
      <4>3. raw = [kind |-> IF k = "tq" THEN "kv" ELSE k, pos |-> pos, heads |-> heads,
                   subs |-> << >>]
        BY <1>1, <2>2 DEF raw
      <4>4. SubSeq(raw.pos, 1, Min({PromptTarget(n), Len(raw.pos)})) = cut
        BY <4>3 DEF cut
      <4> HIDE DEF s
      <4> QED BY <4>2, <4>3, <4>4
    <3> HIDE DEF s
    <3>2. [s EXCEPT !.kind = IF @ = "rot" THEN "kv" ELSE @] =
          [kind |-> IF k = "tq" \/ k = "rot" THEN "kv" ELSE k, pos |-> cut,
           heads |-> heads, subs |-> << >>]
      BY <3>1
    <3>3. a = IF vision THEN [s EXCEPT !.kind = IF @ = "rot" THEN "kv" ELSE @] ELSE s
      BY DEF Shortened1, s
    <3> QED BY <2>2, <3>1, <3>2, <3>3 DEF Fixed
  <2> QED BY <2>1, <2>2
<1> HIDE DEF a
<1>3. b = [kind |-> StoredKind(k), pos |-> IF k = "ssm" THEN pos ELSE cut,
           heads |-> IF k = "ssm" THEN 1 ELSE heads, subs |-> << >>]
  BY <1>2 DEF Quantized1, StoredKind, LeafKinds, Fixed
<1> HIDE DEF b
<1>4. w = [kind |-> StoredKind(k), pos |-> IF k = "ssm" THEN pos ELSE cut,
           heads |-> 1, subs |-> << >>]
  BY <1>3 DEF Own1
<1>5. w = Whole1(k, n, t, heads)
  BY DEF Whole1, b, a, raw
<1> HIDE DEF w
<1>6. m \in Nat /\ m <= Len(pos) /\ Len(pos) \in Nat /\ (n - 1 <= Len(pos) => m = n - 1)
  <2>1. n - 1 \in Nat /\ Len(pos) \in Nat
    BY LenProperties
  <2> QED BY <2>1, MinOfTwo DEF PromptTarget
<1> HIDE DEF m
<1>7. cut \in Seq(Nat)
  BY <1>6, PartFacts DEF cut
<1>8. w \in Leaf({StoredKind(k)})
  BY <1>4, <1>7 DEF Leaf
<1>9. k = "ssm" => w = Layer("ssm", <<t>>)
  BY <1>1, <1>4 DEF Layer, LayerOf, StoredKind
<1>10. ASSUME k # "ssm", k = "rot" => t <= Window, n <= t
       PROVE  w = LayerOf(StoredKind(k), Run(0, n - 1), 1)
  <2>1. pos = Run(0, t)
    BY <1>1, <1>10
  <2>2. Len(pos) = t
    BY <2>1, RunFacts
  <2>3. m = n - 1
    BY <1>6, <1>10, <2>2
  <2>4. cut = SubSeq(Run(0, t), 0 + 1, n - 1)
    BY <2>1, <2>3 DEF cut
  <2>5. SubSeq(Run(0, t), 0 + 1, n - 1) = Run(0, n - 1)
    <3> DEFINE h == n - 1
    <3>1. h \in Nat /\ 0 <= h /\ h <= t
      BY <1>10
    <3> HIDE DEF h
    <3>2. SubSeq(Run(0, t), 0 + 1, h) = Run(0, h)
      BY <3>1, RunParts
    <3> QED BY <3>2 DEF h
  <2>6. cut = Run(0, n - 1)
    BY <2>4, <2>5
  <2> QED BY <1>4, <1>10, <2>6 DEF LayerOf
<1> QED
  BY <1>5, <1>8, <1>9, <1>10

\* What a block has of an attention layer of kind k between lo and hi.
Bit(k, lo, hi) == IF lo >= hi THEN Skip ELSE LayerOf(StoredKind(k), Run(lo, hi), 1)

\* A layer's part of a block.
LEMMA SliceFacts ==
  ASSUME Fixed, NEW k \in LeafKinds, NEW n \in Nat, n > 1, NEW t \in Nat, NEW heads,
         NEW from \in Nat, NEW upto \in Nat, NEW last \in BOOLEAN,
         NEW piece, piece = Slice1(Whole1(k, n, t, heads), from, upto, last)
  PROVE  /\ piece \in Leaf({StoredKind(k), "skip"})
         /\ k = "ssm" => piece = IF last THEN Layer("ssm", <<t>>) ELSE Skip
         /\ k # "ssm" /\ (k = "rot" => t <= Window) /\ n <= t =>
              piece = Bit(k, from, Min({upto, n - 1}))
<1> DEFINE w == Whole1(k, n, t, heads)
           m == Min({upto, Len(w.pos)})
<1>1. /\ w \in Leaf({StoredKind(k)})
      /\ k = "ssm" => w = Layer("ssm", <<t>>)
      /\ k # "ssm" /\ (k = "rot" => t <= Window) /\ n <= t =>
           w = LayerOf(StoredKind(k), Run(0, n - 1), 1)
  BY WholeFacts
<1> HIDE DEF w
<1>2. w.pos \in Seq(Nat) /\ w.kind = StoredKind(k) /\ Len(w.pos) \in Nat
  BY <1>1, LenProperties DEF Leaf
<1>3. m = IF upto <= Len(w.pos) THEN upto ELSE Len(w.pos)
  BY <1>2, MinOfTwo
<1>3a. m \in Nat /\ m <= Len(w.pos)
  BY <1>2, <1>3
<1>4. Skip \in Leaf({StoredKind(k), "skip"})
  BY DEF Skip, Layer, LayerOf, Leaf
<1>5. CASE k = "ssm"
  <2>1. w.kind = "ssm"
    BY <1>2, <1>5 DEF StoredKind
  <2>2. piece = IF last THEN w ELSE Skip
    BY <2>1 DEF Slice1, w
  <2>3. w \in Leaf({StoredKind(k), "skip"})
    BY <1>1 DEF Leaf
  <2> QED BY <1>1, <1>4, <1>5, <2>2, <2>3
<1>6. CASE k # "ssm"
  <2>1. w.kind # "ssm"
    BY <1>2, <1>6 DEF StoredKind
  <2>2. piece = IF from >= m THEN Skip ELSE [w EXCEPT !.pos = SubSeq(@, from + 1, m)]
    BY <2>1 DEF Slice1, w
  <2> DEFINE part == SubSeq(w.pos, from + 1, m)
  <2>4. piece = IF from >= m THEN Skip ELSE [w EXCEPT !.pos = part]
    BY <2>2
  <2> HIDE DEF m
  <2>3. ASSUME from < m PROVE part \in Seq(Nat)
    BY <1>2, <1>3, <1>3a, <2>3, PartFacts
  <2> HIDE DEF part
  <2>5. piece \in Leaf({StoredKind(k), "skip"})
    <3>1. CASE from >= m
      BY <1>4, <2>4, <3>1
    <3>2. CASE ~ (from >= m)
      <4>1. part \in Seq(Nat)
        BY <1>3, <1>3a, <2>3, <3>2
      <4> QED BY <1>1, <2>4, <3>2, <4>1 DEF Leaf
    <3> QED BY <3>1, <3>2
  <2>6. ASSUME k = "rot" => t <= Window, n <= t
        PROVE  piece = Bit(k, from, Min({upto, n - 1}))
    <3>1. w = [kind |-> StoredKind(k), pos |-> Run(0, n - 1), heads |-> 1, subs |-> << >>]
      BY <1>1, <1>6, <2>6 DEF LayerOf
    <3> DEFINE h == n - 1
    <3>2. h \in Nat
      OBVIOUS
    <3> HIDE DEF h
    <3>3. w.pos = Run(0, h) /\ Len(w.pos) = h
      BY <3>1, <3>2, RunParts DEF h
    <3>4. Min({upto, h}) = m
      BY <3>3 DEF m
    <3>5. CASE from >= m
      BY <2>4, <3>4, <3>5 DEF Bit, h
    <3>6. CASE ~ (from >= m)
      <4>1. from <= m /\ m <= h
        BY <1>3, <1>3a, <3>3, <3>6
      <4>2. SubSeq(Run(0, h), from + 1, m) = Run(from, m)
        <5>1. m \in Nat
          BY <1>3
        <5> QED BY <3>2, <4>1, <5>1, RunParts
      <4>3. part = Run(from, m)
        BY <3>3, <4>2 DEF part
      <4>4. piece = [kind |-> StoredKind(k), pos |-> Run(from, m), heads |-> 1, subs |-> << >>]
        BY <2>4, <3>1, <3>6, <4>3
      <4> QED BY <3>4, <3>6, <4>4 DEF Bit, LayerOf, h
    <3> QED BY <3>5, <3>6
  <2> QED BY <1>6, <2>5, <2>6
<1> QED
  BY <1>5, <1>6

Wholes(n, t, heads) == [k \in LeafKinds |-> Whole1(k, n, t, heads)]
Slices(n, t, heads, from, upto, last) ==
  [k \in LeafKinds |-> Slice1(Whole1(k, n, t, heads), from, upto, last)]

\* What a request stores: its cache, and the blocks cut from it.
LEMMA StoredBuilt ==
  ASSUME Fixed, NEW n \in Nat, NEW t \in Nat, NEW heads,
         Truncation(n, t, heads) # Absent,
         NEW cache, cache = Extracted(Quantized(Truncation(n, t, heads)))
  PROVE  /\ n > 1 /\ (~ vision => \A i \in DOMAIN model : model[i] = "rot" => t <= Window)
         /\ cache = Built(Wholes(n, t, heads))
         /\ \A from, upto \in Nat, last \in BOOLEAN :
              SliceOf(cache, from, upto, last) = Built(Slices(n, t, heads, from, upto, last))
<1> DEFINE raw == [k \in LeafKinds |-> RawLayer(k, t, heads)]
           short == [k \in LeafKinds |-> Shortened1(raw[k], n)]
           quant == [k \in LeafKinds |-> Quantized1(short[k])]
           own == [k \in LeafKinds |-> Own1(quant[k])]
<1>1. RawCache(t, heads) = Built(raw)
  BY RawBuilt
<1>2. \A k \in LeafKinds : raw[k].kind = IF k = "tq" THEN "kv" ELSE k
  BY RawPositions
<1>3. \A k \in LeafKinds : raw[k].kind # "list"
  BY <1>2 DEF LeafKinds
<1>4. \A k \in LeafKinds : /\ short[k].kind = IF (vision /\ k = "rot") \/ k = "tq" THEN "kv" ELSE k
                           /\ "kind" \in DOMAIN short[k]
  <2> SUFFICES ASSUME NEW k \in LeafKinds
               PROVE  LET l == Shortened1(raw[k], n)
                      IN /\ l.kind = IF (vision /\ k = "rot") \/ k = "tq" THEN "kv" ELSE k
                         /\ "kind" \in DOMAIN l
    OBVIOUS
  <2>1. PICK pos \in Seq(Nat) :
          raw[k] = [kind |-> IF k = "tq" THEN "kv" ELSE k, pos |-> pos,
                    heads |-> IF k = "ssm" THEN 1 ELSE heads, subs |-> << >>]
    BY RawPositions
  <2> DEFINE s == Shortened(raw[k], n)
  <2>2. s.kind = IF k = "tq" THEN "kv" ELSE k
    BY <2>1 DEF Shortened
  <2>3. DOMAIN s = {"kind", "pos", "heads", "subs"}
    BY <2>1 DEF Shortened
  <2> HIDE DEF s
  <2>4. Shortened1(raw[k], n) = IF vision THEN [s EXCEPT !.kind = IF @ = "rot" THEN "kv" ELSE @] ELSE s
    BY DEF Shortened1, s
  <2>5. DOMAIN [s EXCEPT !.kind = IF @ = "rot" THEN "kv" ELSE @] = DOMAIN s
    OBVIOUS
  <2>6. [s EXCEPT !.kind = IF @ = "rot" THEN "kv" ELSE @].kind = IF s.kind = "rot" THEN "kv" ELSE s.kind
    BY <2>3
  <2> QED BY <2>2, <2>3, <2>4, <2>5, <2>6 DEF LeafKinds, Fixed
<1>5. \A k \in LeafKinds : short[k].kind # "list"
  BY <1>4 DEF LeafKinds
<1>6. \A k \in LeafKinds : quant[k].kind # "list"
  <2> SUFFICES ASSUME NEW k \in LeafKinds PROVE Quantized1(short[k]).kind # "list"
    OBVIOUS
  <2> QED BY <1>4, <1>5 DEF Quantized1
<1> HIDE DEF raw
<1>7. /\ n > 1 /\ (~ vision => \A i \in DOMAIN model : model[i] = "rot" => t <= Window)
      /\ Truncation(n, t, heads) = Built(short)
  <2> DEFINE c == Built(raw)
  <2>1. /\ vision => VisionShortened(c, n) = Built(short)
        /\ ~ vision => TextShortened(c, n) = Built(short)
    BY <1>3, TruncatedBuilt
  <2>2. CASE vision
    <3>1. Truncation(n, t, heads) = VisionTruncated(c, n)
      BY <1>1, <2>2 DEF Truncation
    <3>2. ~ (PromptTarget(n) <= 0)
      BY <3>1 DEF VisionTruncated
    <3>3. VisionTruncated(c, n) = VisionShortened(c, n)
      BY <3>2 DEF VisionTruncated, VisionShortened
    <3>4. n > 1
      BY <3>2 DEF PromptTarget
    <3> QED BY <2>1, <2>2, <3>1, <3>3, <3>4
  <2>3. CASE ~ vision
    <3>1. Truncation(n, t, heads) = Truncated(c, n, t)
      BY <1>1, <2>3 DEF Truncation
    <3>2. ~ (PromptTarget(n) <= 0 \/ \E i \in DOMAIN c : c[i].kind = "rot" /\ t > Window)
      BY <3>1 DEF Truncated
    <3>3. Truncated(c, n, t) = TextShortened(c, n)
      BY <3>2 DEF Truncated, TextShortened
    <3>4. n > 1
      BY <3>2 DEF PromptTarget
    <3>5. \A i \in DOMAIN model : model[i] = "rot" => c[i].kind = "rot" /\ i \in DOMAIN c
      <4>1. \A i \in DOMAIN model : model[i] = "rot" => Built(raw)[i] = raw[model[i]]
        BY <1>3, BuiltPlaces
      <4>2. DOMAIN Built(raw) = DOMAIN model
        BY DEF Built
      <4>3. "rot" \in LeafKinds /\ raw["rot"].kind = "rot"
        BY <1>2 DEF LeafKinds
      <4> QED BY <1>1, <4>1, <4>2, <4>3
    <3>6. \A i \in DOMAIN model : model[i] = "rot" => ~ (t > Window)
      BY <3>2, <3>5
    <3>7. \A i \in DOMAIN model : model[i] = "rot" => t <= Window
      BY <3>6, DataAssumption
    <3> QED BY <2>1, <2>3, <3>1, <3>3, <3>4, <3>7
  <2> QED BY <2>2, <2>3
<1> HIDE DEF short
<1>8. Quantized(Truncation(n, t, heads)) = Built(quant)
  BY <1>5, <1>7, QuantizedBuilt
<1> HIDE DEF quant
<1>9. cache = Built(own)
  BY <1>6, <1>8, ExtractedBuilt
<1>10. \A k \in LeafKinds : own[k] = Whole1(k, n, t, heads)
  BY DEF own, quant, short, raw, Whole1
<1>11. own = Wholes(n, t, heads)
  BY <1>10 DEF own, Wholes
<1>12. \A k \in LeafKinds : own[k].kind # "list"
  <2> SUFFICES ASSUME NEW k \in LeafKinds PROVE own[k].kind # "list"
    OBVIOUS
  <2>1. Whole1(k, n, t, heads) \in Leaf({StoredKind(k)})
    BY <1>7, WholeFacts
  <2>2. Whole1(k, n, t, heads).kind = StoredKind(k)
    BY <2>1 DEF Leaf
  <2> QED BY <1>10, <2>2 DEF StoredKind
<1>13. ASSUME NEW from \in Nat, NEW upto \in Nat, NEW last \in BOOLEAN
       PROVE  SliceOf(cache, from, upto, last) = Built(Slices(n, t, heads, from, upto, last))
  <2> HIDE DEF own
  <2> DEFINE g == [k \in LeafKinds |-> Slice1(own[k], from, upto, last)]
  <2>1. SliceOf(Built(own), from, upto, last) = Built(g)
    BY <1>12, SliceBuilt
  <2>2. g = Slices(n, t, heads, from, upto, last)
    BY <1>10 DEF Slices
  <2> QED BY <1>9, <2>1, <2>2
<1> QED
  BY <1>7, <1>9, <1>11, <1>13

-----------------------------------------------------------------------------
\* What a step adds to the pool.

LEMMA InitFixed == DataInit => Fixed
<1> SUFFICES ASSUME DataInit PROVE Fixed
  OBVIOUS
<1>1. vision \in BOOLEAN /\ bits \in BOOLEAN /\ model \in IF vision THEN VisionModels ELSE Models
  BY DEF DataInit
<1>2. model \in Seq({"kv", "tq", "rot", "ssm", "list"})
  BY <1>1, DataAssumption
<1>3. len \in [P -> 1 .. MaxPrompt]
  BY DEF DataInit
<1>4. len[1] \in Nat /\ len[2] \in Nat
  BY <1>3, DataAssumption DEF P
<1> DEFINE m == Min({len[1], len[2]})
<1>5. m \in Nat /\ m <= len[1] /\ m <= len[2]
  BY <1>4, MinOfTwo
<1>6. common \in 0 .. m /\ (PrefixFree => common < m)
  BY DEF DataInit
<1> HIDE DEF m
<1>7. common \in Nat /\ (PrefixFree => common < len[1] /\ common < len[2])
  BY <1>4, <1>5, <1>6
<1> QED
  BY <1>1, <1>2, <1>3, <1>7 DEF Fixed

LEMMA StaysFixed ==
  ASSUME Fixed, [DataNext]_datavars
  PROVE  /\ Fixed'
         /\ UNCHANGED <<vision, model, bits, len, common>>
<1>1. UNCHANGED <<vision, model, bits, len, common>>
  BY DEF DataNext, datavars, Store, Prefill, Evict, Fetch
<1> QED
  BY <1>1 DEF Fixed

\* Lengths, and where a block begins and ends.
LEMMA Extents ==
  ASSUME Fixed, NEW p \in P
  PROVE  /\ BlockSize \in Nat \ {0} /\ len[p] \in Nat \ {0} /\ Stored(p) \in Nat \ {0}
         /\ Stored(p) = IF vision /\ len[p] > 1 THEN len[p] - 1 ELSE len[p]
         /\ \A i \in Nat : EndOf(p, i) \in Nat
              /\ EndOf(p, i) = IF i * BlockSize <= Stored(p) THEN i * BlockSize ELSE Stored(p)
<1>1. BlockSize \in Nat \ {0} /\ len[p] \in Nat \ {0}
  BY DataAssumption DEF Fixed
<1>2. /\ Stored(p) \in Nat \ {0}
      /\ Stored(p) = IF vision /\ len[p] > 1 THEN len[p] - 1 ELSE len[p]
  BY <1>1 DEF Stored
<1>3. ASSUME NEW i \in Nat
      PROVE  /\ EndOf(p, i) \in Nat
             /\ EndOf(p, i) = IF i * BlockSize <= Stored(p) THEN i * BlockSize ELSE Stored(p)
  <2> DEFINE a == i * BlockSize
             b == Stored(p)
  <2>1. a \in Nat /\ b \in Nat
    BY <1>1, <1>2
  <2> HIDE DEF a, b
  <2>2. Min({a, b}) = IF a <= b THEN a ELSE b
    BY <2>1, MinOfTwo
  <2> QED BY <2>1, <2>2 DEF EndOf, a, b
<1> QED
  BY <1>1, <1>2, <1>3

\* The block that a request for p, with m output tokens, cuts as its i-th.
BlockOf(p, m, heads, i) ==
  SliceOf(Extracted(Quantized(Truncation(len[p], len[p] + m, heads))),
          (i - 1) * BlockSize, EndOf(p, i), i = Blocks(p))

LEMMA StoreAdds ==
  ASSUME Fixed, NEW p \in P, NEW m, NEW heads, Store(p, m, heads),
         NEW key \in DOMAIN pool', NEW data \in pool'[key]
  PROVE  \/ key \in DOMAIN pool /\ data \in pool[key]
         \/ /\ Truncation(len[p], len[p] + m, heads) # Absent
            /\ \E i \in 1 .. Blocks(p) : key = Key(p, i) /\ data = BlockOf(p, m, heads, i)
<1> DEFINE t == len[p] + m
           raw == RawCache(t, heads)
           cut == IF vision THEN VisionTruncated(raw, len[p]) ELSE Truncated(raw, len[p], t)
           cache == Extracted(Quantized(cut))
           fresh == {i \in 1 .. Blocks(p) : ~Reuses(p, i)}
           made(k) == {SliceOf(cache, (i - 1) * BlockSize, EndOf(p, i), i = Blocks(p)) :
                         i \in {j \in fresh : Key(p, j) = k}}
<1>1. pool' = IF cut = Absent THEN pool
              ELSE [k \in DOMAIN pool \cup {Key(p, i) : i \in fresh} |-> At(k) \cup made(k)]
  BY DEF Store
<1>2. cut = Truncation(len[p], len[p] + m, heads)
  BY DEF Truncation
<1>3. CASE cut = Absent
  BY <1>1, <1>3
<1>4. CASE cut # Absent
  <2>1. data \in At(key) \cup made(key)
    <3> HIDE DEF cut, made, fresh
    <3> QED BY <1>1, <1>4
  <2>2. CASE data \in At(key)
    BY <2>2 DEF At
  <2>3. CASE data \in made(key)
    <3> HIDE DEF cut
    <3> QED BY <1>2, <1>4, <2>3 DEF BlockOf
  <2> QED BY <2>1, <2>2, <2>3
<1> QED
  BY <1>3, <1>4

LEMMA OthersAddNothing ==
  ASSUME Fixed, [DataNext]_datavars, ~ \E p \in P, m \in 0 .. MaxOutput, h \in Heads : Store(p, m, h)
  PROVE  DOMAIN pool' \subseteq DOMAIN pool /\ \A key \in DOMAIN pool' : pool'[key] = pool[key]
<1>1. ASSUME NEW key, Evict(key)
      PROVE  DOMAIN pool' \subseteq DOMAIN pool /\ \A k \in DOMAIN pool' : pool'[k] = pool[k]
  BY <1>1 DEF Evict
<1>2. CASE UNCHANGED pool
  BY <1>2
<1>3. (\E key \in DOMAIN pool : Evict(key)) \/ UNCHANGED pool
  BY DEF DataNext, datavars, Prefill, Fetch
<1> QED
  BY <1>1, <1>2, <1>3

-----------------------------------------------------------------------------
\* Blocks in files.

LEMMA MaxOfSome ==
  ASSUME NEW N \in Nat, NEW S, S \subseteq 1 .. N, S # {}
  PROVE  Max(S) \in S /\ \A y \in S : Max(S) >= y
<1> DEFINE T == {N - x : x \in S}
<1>1. T \subseteq Nat /\ T # {}
  OBVIOUS
<1>2. PICK d \in T : \A e \in T : d <= e
  BY <1>1, Least
<1>3. PICK x \in S : d = N - x
  BY <1>2
<1>4. \A y \in S : x >= y
  <2> SUFFICES ASSUME NEW y \in S PROVE x >= y
    OBVIOUS
  <2>1. d <= N - y
    BY <1>2
  <2> QED BY <1>3, <2>1
<1>5. \E z \in S : \A y \in S : z >= y
  BY <1>4
<1> QED
  BY <1>5 DEF Max

InnerLayers == Leaf({"kv", "quant", "ssm", "skip"})
\* What may stand in a block: a layer with the model's own heads, or a list of
\* such layers.
Entries == Leaf({"kv", "quant", "rot", "ssm", "skip"})
             \cup {List(subs) : subs \in Seq(InnerLayers) \ {<< >>}}

LEMMA EntriesAreLayers ==
  ASSUME NEW e \in Entries
  PROVE  /\ e \in Layers /\ e # Absent
         /\ \A x \in Inside(e) : x.heads = 1
         /\ \/ e.kind \in {"kv", "quant", "rot", "ssm", "skip"} /\ Inside(e) = {e}
            \/ /\ e.kind = "list" /\ e = List(e.subs) /\ Inside(e) = ToSet(e.subs)
               /\ e.subs \in Seq(InnerLayers) \ {<< >>}
<1>1. CASE e \in Leaf({"kv", "quant", "rot", "ssm", "skip"})
  <2>1. e \in [kind : {"kv", "quant", "rot", "ssm", "skip"}, pos : Seq(Nat), heads : {1},
               subs : {<< >>}]
    BY <1>1 DEF Leaf
  <2>2. e.kind # "list" /\ e.heads = 1 /\ e.subs = << >>
    BY <2>1
  <2>3. Inside(e) = {e}
    BY <2>2 DEF Inside
  <2>4. e \in Layers
    <3> DEFINE X == Seq([kind : Kinds, pos : Seq(Nat), heads : Nat, subs : {<< >>}])
    <3>1. << >> \in X
      OBVIOUS
    <3> HIDE DEF X
    <3>2. e \in [kind : Kinds, pos : Seq(Nat), heads : Nat, subs : X]
      BY <2>1, <3>1 DEF Kinds
    <3> QED BY <3>2 DEF Layers, X
  <2> QED BY <2>1, <2>2, <2>3, <2>4, DataAssumption
<1>2. CASE e \in {List(subs) : subs \in Seq(InnerLayers) \ {<< >>}}
  <2>1. PICK subs \in Seq(InnerLayers) \ {<< >>} : e = List(subs)
    BY <1>2
  <2>2. e = [kind |-> "list", pos |-> << >>, heads |-> 1, subs |-> subs]
    BY <2>1 DEF List, Layer, LayerOf
  <2>3. e.kind = "list" /\ e.subs = subs
    BY <2>2
  <2>4. Inside(e) = ToSet(e.subs)
    BY <2>3 DEF Inside
  <2>5. \A x \in ToSet(e.subs) : x \in InnerLayers
    BY <2>3, LenProperties, ElementOfSeq DEF ToSet
  <2>6. \A x \in InnerLayers : x.heads = 1
    BY DEF InnerLayers, Leaf
  <2>7. e \in Layers
    <3>1. InnerLayers \subseteq [kind : Kinds, pos : Seq(Nat), heads : Nat, subs : {<< >>}]
      BY DEF InnerLayers, Leaf, Kinds
    <3>2. subs \in Seq([kind : Kinds, pos : Seq(Nat), heads : Nat, subs : {<< >>}])
      <4> DEFINE X == [kind : Kinds, pos : Seq(Nat), heads : Nat, subs : {<< >>}]
      <4>1. \A j \in 1 .. Len(subs) : subs[j] \in X
        BY <3>1, ElementOfSeq
      <4> HIDE DEF X
      <4>2. subs \in [1 .. Len(subs) -> X] /\ Len(subs) \in Nat
        BY <4>1, LenProperties
      <4> QED BY <4>2, AsList DEF X
    <3>3. << >> \in Seq(Nat) /\ "list" \in Kinds
      BY DEF Kinds
    <3> QED BY <2>2, <3>2, <3>3 DEF Layers
  <2> QED BY <2>1, <2>3, <2>4, <2>5, <2>6, <2>7, DataAssumption
<1> QED
  BY <1>1, <1>2 DEF Entries

\* One block in its file.
LEMMA FileKeeps ==
  ASSUME NEW data \in Seq(Entries), NEW i \in DOMAIN data
  PROVE  /\ \A e \in Inside(data[i]) : e.heads = 1
         /\ \/ i \in DOMAIN OnDisk(data) /\ OnDisk(data)[i] = data[i]
            \/ \E e \in Inside(data[i]) :
                 e.kind = "skip" \/ (data[i].kind = "list" /\ e.kind = "quant")
<1> DEFINE d == data[i]
           has == {k \in DOMAIN data : FileEntry(data[k]) # Absent}
<1>1. /\ Len(data) \in Nat /\ DOMAIN data = 1 .. Len(data) /\ d \in Entries
  BY LenProperties, ElementOfSeq
<1>2. /\ d \in Layers /\ d # Absent
      /\ \A x \in Inside(d) : x.heads = 1
      /\ \/ d.kind \in {"kv", "quant", "rot", "ssm", "skip"} /\ Inside(d) = {d}
         \/ /\ d.kind = "list" /\ d = List(d.subs) /\ Inside(d) = ToSet(d.subs)
            /\ d.subs \in Seq(InnerLayers) \ {<< >>}
  BY <1>1, EntriesAreLayers
<1> HIDE DEF d
<1>3. ASSUME ~ \E e \in Inside(d) : e.kind = "skip" \/ (d.kind = "list" /\ e.kind = "quant")
      PROVE  FileEntry(d) = d
  <2>1. CASE d.kind # "list"
    <3>1. d.kind # "skip"
      BY <1>2, <1>3, <2>1
    <3> QED BY <2>1, <3>1 DEF FileEntry
  <2>2. CASE d.kind = "list"
    <3> DEFINE s == d.subs
               kept == [j \in DOMAIN s |-> IF s[j].kind \in {"kv", "ssm"} THEN s[j] ELSE Skip]
    <3>1. s \in Seq(InnerLayers) /\ s # << >> /\ d = List(s) /\ Inside(d) = ToSet(s)
      BY <1>2, <2>2
    <3> HIDE DEF s
    <3>2. DOMAIN s = 1 .. Len(s) /\ Len(s) \in Nat /\ Len(s) # 0 /\ \A j \in DOMAIN s : s[j] \in InnerLayers
      BY <3>1, LenProperties, ElementOfSeq, EmptySeq
    <3>3. \A j \in DOMAIN s : s[j].kind \in {"kv", "quant", "ssm", "skip"}
      BY <3>2 DEF InnerLayers, Leaf
    <3>4. \A j \in DOMAIN s : s[j] \in Inside(d)
      BY <3>1 DEF ToSet
    <3>5. \A j \in DOMAIN s : s[j].kind \in {"kv", "ssm"}
      BY <1>3, <2>2, <3>3, <3>4
    <3>6. kept = s
      <4>1. s = [j \in DOMAIN s |-> s[j]]
        BY <3>1, LenProperties
      <4> QED BY <3>5, <4>1
    <3>7. ~ (ToSet(kept) \subseteq {Skip})
      <4>1. 1 \in DOMAIN s
        BY <3>2
      <4>2. s[1] \in ToSet(s) /\ s[1].kind # "skip"
        BY <3>5, <4>1 DEF ToSet
      <4>3. Skip.kind = "skip"
        BY DEF Skip, Layer, LayerOf
      <4> QED BY <3>6, <4>2, <4>3
    <3>8. FileEntry(d) = IF ToSet(kept) \subseteq {Skip} THEN Absent ELSE List(kept)
      BY <2>2 DEF FileEntry, s
    <3> HIDE DEF kept
    <3> QED BY <3>1, <3>6, <3>7, <3>8
  <2> QED BY <2>1, <2>2
<1>4. ASSUME FileEntry(d) = d
      PROVE  i \in DOMAIN OnDisk(data) /\ OnDisk(data)[i] = d
  <2>1. i \in has
    BY <1>2, <1>4 DEF d
  <2>2. has \subseteq 1 .. Len(data) /\ has # {}
    BY <1>1, <2>1
  <2>3. Max(has) \in has /\ Max(has) >= i
    BY <1>1, <2>1, <2>2, MaxOfSome
  <2>4. OnDisk(data) = [k \in 1 .. Max(has) |-> IF k \in has THEN FileEntry(data[k]) ELSE Skip]
    BY <2>2 DEF OnDisk
  <2> HIDE DEF has
  <2>5. i \in 1 .. Max(has)
    <3>1. Max(has) \in 1 .. Len(data)
      BY <2>2, <2>3
    <3> QED BY <1>1, <2>3, <3>1
  <2> QED BY <1>4, <2>1, <2>4, <2>5 DEF d
<1> QED
  BY <1>2, <1>3, <1>4 DEF d

\* Everything in the pool is such a block.
DiskIInv == Fixed /\ \A key \in DOMAIN pool : pool[key] \subseteq Seq(Entries)

LEMMA BlockShape ==
  ASSUME Fixed, NEW p \in P, NEW m \in 0 .. MaxOutput, NEW heads, NEW i \in Nat \ {0},
         Truncation(len[p], len[p] + m, heads) # Absent
  PROVE  BlockOf(p, m, heads, i) \in Seq(Entries)
<1> DEFINE t == len[p] + m
           from == (i - 1) * BlockSize
           upto == EndOf(p, i)
           last == (i = Blocks(p))
           f == Slices(len[p], t, heads, from, upto, last)
<1>1. t \in Nat /\ len[p] \in Nat /\ from \in Nat /\ upto \in Nat /\ last \in BOOLEAN
  <2>1. i - 1 \in Nat /\ BlockSize \in Nat /\ len[p] \in Nat
    BY Extents
  <2>2. upto \in Nat
    BY Extents
  <2>3. m \in Nat
    BY DataAssumption
  <2> QED BY <2>1, <2>2, <2>3
<1>2. len[p] > 1 /\ BlockOf(p, m, heads, i) = Built(f)
  <2> HIDE DEF from, upto, last, t
  <2> DEFINE cache == Extracted(Quantized(Truncation(len[p], t, heads)))
  <2>1. Truncation(len[p], t, heads) # Absent
    BY DEF t
  <2>2. /\ len[p] > 1
        /\ \A a, b \in Nat, c \in BOOLEAN :
             SliceOf(cache, a, b, c) = Built(Slices(len[p], t, heads, a, b, c))
    BY <1>1, <2>1, StoredBuilt
  <2>3. BlockOf(p, m, heads, i) = SliceOf(cache, from, upto, last)
    BY DEF BlockOf, from, upto, last, t
  <2> HIDE DEF cache
  <2> QED BY <1>1, <2>2, <2>3
<1>3. \A k \in LeafKinds : f[k] \in Leaf({StoredKind(k), "skip"})
  BY <1>1, <1>2, SliceFacts DEF Slices
<1> HIDE DEF f
<1>4. \A k \in LeafKinds : f[k] \in Leaf({"kv", "quant", "rot", "ssm", "skip"}) /\ f[k].kind # "list"
  BY <1>3 DEF Leaf, StoredKind
<1>5. \A k \in {"kv", "ssm"} : k \in LeafKinds /\ f[k] \in InnerLayers
  BY <1>3 DEF Leaf, StoredKind, InnerLayers, LeafKinds
<1>6. \A j \in DOMAIN model : Built(f)[j] \in Entries
  <2> SUFFICES ASSUME NEW j \in DOMAIN model PROVE Built(f)[j] \in Entries
    OBVIOUS
  <2>1. CASE model[j] # "list"
    <3>1. Built(f)[j] = f[model[j]] /\ model[j] \in LeafKinds
      BY <1>4, <2>1, BuiltPlaces
    <3> QED BY <1>4, <3>1 DEF Entries
  <2>2. CASE model[j] = "list"
    <3> DEFINE s == [k \in DOMAIN SubKinds |-> f[SubKinds[k]]]
    <3>1. Built(f)[j] = List(s)
      BY <1>4, <2>2, BuiltPlaces
    <3>2. \A k \in 1 .. Len(SubKinds) : s[k] \in InnerLayers
      BY <1>5, ModelKinds
    <3>3. s \in [1 .. Len(SubKinds) -> InnerLayers] /\ Len(SubKinds) \in Nat \ {0}
      BY <3>2, ModelKinds
    <3> HIDE DEF s
    <3>4. s \in Seq(InnerLayers) /\ Len(s) # 0
      BY <3>3, AsList
    <3>5. s # << >>
      BY <3>4
    <3> QED BY <3>1, <3>4, <3>5 DEF Entries
  <2> QED BY <2>1, <2>2
<1>7. DOMAIN Built(f) = 1 .. Len(model) /\ Len(model) \in Nat /\ DOMAIN model = 1 .. Len(model)
  BY ModelKinds DEF Built
<1>8. Built(f) \in [1 .. Len(model) -> Entries]
  <2>1. Built(f) = [j \in DOMAIN model |-> Built(f)[j]]
    BY DEF Built
  <2> QED BY <1>6, <1>7, <2>1
<1> HIDE DEF t, from, upto, last
<1> QED
  BY <1>2, <1>7, <1>8, AsList

LEMMA DiskStep ==
  ASSUME DiskIInv, [DataNext]_datavars
  PROVE  DiskIInv'
<1>1. Fixed /\ Fixed'
  BY StaysFixed DEF DiskIInv
<1>2. ASSUME NEW p \in P, NEW m \in 0 .. MaxOutput, NEW h \in Heads, Store(p, m, h),
             NEW key \in DOMAIN pool', NEW data \in pool'[key]
      PROVE  data \in Seq(Entries)
  <2>1. CASE key \in DOMAIN pool /\ data \in pool[key]
    BY <2>1 DEF DiskIInv
  <2>2. CASE /\ Truncation(len[p], len[p] + m, h) # Absent
             /\ \E i \in 1 .. Blocks(p) : key = Key(p, i) /\ data = BlockOf(p, m, h, i)
    <3>1. PICK i \in 1 .. Blocks(p) : data = BlockOf(p, m, h, i)
      BY <2>2
    <3>2. i \in Nat \ {0}
      OBVIOUS
    <3> QED BY <1>1, <2>2, <3>1, <3>2, BlockShape
  <2> QED BY <1>1, <1>2, <2>1, <2>2, StoreAdds
<1>3. CASE \E p \in P, m \in 0 .. MaxOutput, h \in Heads : Store(p, m, h)
  BY <1>1, <1>2, <1>3 DEF DiskIInv
<1>4. CASE ~ \E p \in P, m \in 0 .. MaxOutput, h \in Heads : Store(p, m, h)
  BY <1>1, <1>4, OthersAddNothing DEF DiskIInv
<1> QED
  BY <1>3, <1>4

\* Whatever is stored, however it was computed and quantized, each of its layers
\* comes back from a file at its own place and with the model's own heads
\* (DiskKeepsLayers; store_cache, _serialize_block, _deserialize_block).
THEOREM LayersKept == DataSpec => []DiskKeepsLayers
<1>1. DataInit => DiskIInv
  <2> SUFFICES ASSUME DataInit PROVE DiskIInv
    OBVIOUS
  <2>1. pool = << >>
    BY DEF DataInit
  <2>2. DOMAIN pool = {}
    BY <2>1
  <2> QED BY <2>2, InitFixed DEF DiskIInv
<1>2. DiskIInv /\ [DataNext]_datavars => DiskIInv'
  BY DiskStep
<1>3. DiskIInv => DiskKeepsLayers
  BY FileKeeps DEF DiskIInv, DiskKeepsLayers
<1> QED
  BY <1>1, <1>2, <1>3, PTL DEF DataSpec

-----------------------------------------------------------------------------
\* Places.

\* How many places in X are not after i.
Rank(X, i) == Cardinality({k \in X : k <= i})

Ranked(X, N) ==
  /\ IsFiniteSet(X) /\ Cardinality(X) \in Nat /\ Rank(X, N) = Cardinality(X)
  /\ \A i \in 0 .. N : Rank(X, i) \in 0 .. Cardinality(X)
  /\ \A i \in X : Rank(X, i) \in 1 .. Cardinality(X)
  /\ \A i, j \in X : i < j => Rank(X, i) < Rank(X, j)
  /\ Rank(X, 0) = 0
  /\ \A i \in 1 .. N : Rank(X, i) = Rank(X, i - 1) + (IF i \in X THEN 1 ELSE 0)

LEMMA RankFacts ==
  ASSUME NEW N \in Nat, NEW X, X \subseteq 1 .. N
  PROVE  Ranked(X, N)
<1> DEFINE U(i) == {k \in X : k <= i}
<1>0. \A k \in X : k \in Nat /\ 1 <= k /\ k <= N
  OBVIOUS
<1>1. IsFiniteSet(X) /\ Cardinality(X) \in Nat
  <2>1. IsFiniteSet(1 .. N)
    BY FS_Interval
  <2> QED BY <2>1, FS_Subset, FS_CardinalityType
<1>2. \A i : IsFiniteSet(U(i)) /\ Cardinality(U(i)) \in Nat /\ Cardinality(U(i)) <= Cardinality(X)
  BY <1>1, FS_Subset, FS_CardinalityType
<1>3. U(N) = X
  BY <1>0
<1>4. \A i \in X : \A j \in 0 .. i - 1 : Cardinality(U(j)) + 1 <= Cardinality(U(i))
  <2> SUFFICES ASSUME NEW i \in X, NEW j \in 0 .. i - 1
               PROVE  Cardinality(U(j)) + 1 <= Cardinality(U(i))
    OBVIOUS
  <2>0. i \in Nat /\ j \in Nat /\ j < i
    BY <1>0
  <2>1. i \notin U(j) /\ U(j) \cup {i} \subseteq U(i)
    <3>1. \A k \in X : k <= j => k <= i
      BY <1>0, <2>0
    <3>2. ~ (i <= j) /\ i <= i
      BY <2>0
    <3> QED BY <3>1, <3>2
  <2>2. Cardinality(U(j) \cup {i}) = Cardinality(U(j)) + 1
    BY <1>2, <2>1, FS_AddElement
  <2>3. Cardinality(U(j) \cup {i}) <= Cardinality(U(i))
    BY <1>2, <2>1, FS_Subset
  <2> QED BY <2>2, <2>3
<1>5. U(0) = {}
  <2>1. \A k \in X : ~ (k <= 0)
    BY <1>0
  <2> QED BY <2>1
<1>6. \A i \in 1 .. N : U(i) = U(i - 1) \cup (IF i \in X THEN {i} ELSE {}) /\ i \notin U(i - 1)
  <2> SUFFICES ASSUME NEW i \in 1 .. N
               PROVE  U(i) = U(i - 1) \cup (IF i \in X THEN {i} ELSE {}) /\ i \notin U(i - 1)
    OBVIOUS
  <2>1. \A k \in X : k <= i <=> k <= i - 1 \/ k = i
    BY <1>0
  <2>2. ~ (i <= i - 1) /\ i <= i
    OBVIOUS
  <2> QED BY <2>1, <2>2
<1>7. \A i : Rank(X, i) = Cardinality(U(i))
  BY DEF Rank
<1> HIDE DEF U
<1>8. Rank(X, 0) = 0
  BY <1>5, <1>7, FS_EmptySet
<1>9. \A i \in 1 .. N : Rank(X, i) = Rank(X, i - 1) + (IF i \in X THEN 1 ELSE 0)
  <2> SUFFICES ASSUME NEW i \in 1 .. N
               PROVE  Rank(X, i) = Rank(X, i - 1) + (IF i \in X THEN 1 ELSE 0)
    OBVIOUS
  <2>1. CASE i \in X
    <3>1. U(i) = U(i - 1) \cup {i} /\ i \notin U(i - 1)
      BY <1>6, <2>1
    <3>2. Cardinality(U(i - 1) \cup {i}) = Cardinality(U(i - 1)) + 1
      BY <1>2, <3>1, FS_AddElement
    <3> QED BY <1>7, <2>1, <3>1, <3>2
  <2>2. CASE i \notin X
    <3>1. U(i) = U(i - 1)
      BY <1>6, <2>2
    <3>2. Rank(X, i) = Rank(X, i - 1) /\ Rank(X, i - 1) \in Nat
      BY <1>2, <1>7, <3>1
    <3> QED BY <2>2, <3>2
  <2> QED BY <2>1, <2>2
<1>10. \A i \in 0 .. N : Rank(X, i) \in 0 .. Cardinality(X)
  BY <1>1, <1>2, <1>7
<1>11. \A i, j \in X : i < j => Rank(X, i) < Rank(X, j)
  <2> SUFFICES ASSUME NEW i \in X, NEW j \in X, i < j PROVE Rank(X, i) < Rank(X, j)
    OBVIOUS
  <2>1. i \in 0 .. j - 1
    OBVIOUS
  <2>2. Cardinality(U(i)) + 1 <= Cardinality(U(j))
    BY <1>4, <2>1
  <2> QED BY <1>2, <1>7, <2>2
<1>12. \A i \in X : Rank(X, i) \in 1 .. Cardinality(X)
  <2> SUFFICES ASSUME NEW i \in X PROVE Rank(X, i) \in 1 .. Cardinality(X)
    OBVIOUS
  <2>1. 0 \in 0 .. i - 1
    OBVIOUS
  <2>2. Cardinality(U(0)) + 1 <= Cardinality(U(i))
    BY <1>4, <2>1
  <2> QED BY <1>1, <1>2, <1>7, <2>2
<1> QED
  BY <1>1, <1>3, <1>7, <1>8, <1>9, <1>10, <1>11, <1>12 DEF Ranked

\* What Only keeps of s, at the places T of the elements of X.
Selected(s, X, T) ==
  Len(Only(s, X)) = Cardinality(T) /\ \A i \in T : Only(s, X)[Rank(T, i)] = s[i]

\* Where the list comprehension puts what it keeps.
LEMMA OnlyRank ==
  ASSUME NEW S, NEW s \in Seq(S), NEW X, NEW T, T = {i \in 1 .. Len(s) : s[i] \in X}
  PROVE  Only(s, X) \in Seq(S) /\ Selected(s, X, T)
<1> DEFINE N == Len(s)
<1>0. N \in Nat /\ DOMAIN s = 1 .. N /\ (\A n \in 1 .. N : s[n] \in S) /\ T \subseteq 1 .. N
  BY LenProperties, ElementOfSeq
<1>1. PICK f : OnlyRun(S, s, X, f)
  BY OnlyUnfolds
<1>2. /\ f \in [0 .. N -> Seq(S)] /\ f[0] = << >> /\ f[N] = Only(s, X)
      /\ \A n \in 1 .. N : f[n] = f[n - 1] \o (IF s[n] \in X THEN <<s[n]>> ELSE << >>)
  BY <1>1 DEF OnlyRun
<1>3. \A n \in 1 .. N : n \in T <=> s[n] \in X
  OBVIOUS
<1>4. /\ \A i \in 0 .. N : Rank(T, i) \in Nat
      /\ \A i \in T : Rank(T, i) \in Nat /\ Rank(T, i) >= 1
      /\ \A i, j \in T : i < j => Rank(T, i) < Rank(T, j)
      /\ Rank(T, 0) = 0 /\ Rank(T, N) = Cardinality(T)
      /\ \A i \in 1 .. N : Rank(T, i) = Rank(T, i - 1) + (IF i \in T THEN 1 ELSE 0)
  <2> HIDE DEF N
  <2>0. N \in Nat /\ T \subseteq 1 .. N
    BY <1>0
  <2>1. Ranked(T, N)
    BY <2>0, RankFacts
  <2>2. \A i \in T : Rank(T, i) \in Nat /\ Rank(T, i) >= 1
    BY <2>1 DEF Ranked
  <2> QED BY <2>1, <2>2 DEF Ranked
<1> HIDE DEF N
<1> DEFINE G == {n \in 0 .. N : /\ Len(f[n]) = Rank(T, n)
                                /\ \A i \in T : i <= n => f[n][Rank(T, i)] = s[i] /\ Rank(T, i) <= Rank(T, n)}
<1>5. 0 \in G
  BY <1>0, <1>2, <1>4
<1>6. ASSUME NEW n \in 1 .. N, n - 1 \in G PROVE n \in G
  <2> DEFINE g == f[n - 1]
             r == Rank(T, n - 1)
  <2>1. /\ g \in Seq(S) /\ Len(g) = r /\ r \in Nat /\ n \in 0 .. N /\ n - 1 \in 0 .. N
        /\ \A i \in T : i <= n - 1 => g[Rank(T, i)] = s[i] /\ Rank(T, i) <= r
    BY <1>0, <1>2, <1>4, <1>6
  <2>2. CASE s[n] \in X
    <3>1. f[n] = g \o <<s[n]>> /\ n \in T /\ Rank(T, n) = r + 1
      BY <1>2, <1>3, <1>4, <2>2
    <3>2. s[n] \in S
      BY <1>0
    <3> DEFINE one == <<s[n]>>
    <3>5. one \in Seq(S) /\ Len(one) = 1 /\ one[1] = s[n]
      BY <3>2
    <3> HIDE DEF g, r, one
    <3>3. /\ Len(f[n]) = r + 1 /\ f[n][r + 1] = s[n]
          /\ \A k \in 1 .. r : f[n][k] = g[k]
      <4>1. f[n] = g \o one
        BY <3>1 DEF one
      <4>2. /\ Len(g \o one) = Len(g) + Len(one)
            /\ \A k \in 1 .. Len(g) + Len(one) :
                 (g \o one)[k] = IF k <= Len(g) THEN g[k] ELSE one[k - Len(g)]
        <5>1. g \in Seq(S) /\ one \in Seq(S)
          BY <2>1, <3>5
        <5> QED BY <5>1, ConcatProperties
      <4>3. r + 1 \in 1 .. r + 1 /\ ~ (r + 1 <= r) /\ (r + 1) - r = 1
            /\ \A k \in 1 .. r : k \in 1 .. r + 1 /\ k <= r
        BY <2>1
      <4> QED BY <2>1, <3>5, <4>1, <4>2, <4>3
    <3>4. ASSUME NEW i \in T, i <= n
          PROVE  f[n][Rank(T, i)] = s[i] /\ Rank(T, i) <= Rank(T, n)
      <4>1. CASE i = n
        <5>1. Rank(T, i) = r + 1 /\ Rank(T, n) = r + 1 /\ r + 1 <= r + 1
          BY <2>1, <3>1, <4>1
        <5> QED BY <3>3, <4>1, <5>1
      <4>2. CASE i # n
        <5>1. i <= n - 1 /\ Rank(T, i) >= 1 /\ Rank(T, i) \in Nat
          BY <1>0, <1>4, <3>4, <4>2
        <5>2. g[Rank(T, i)] = s[i] /\ Rank(T, i) \in 1 .. r
          BY <2>1, <5>1
        <5>3. f[n][Rank(T, i)] = s[i]
          BY <3>3, <5>2
        <5>4. Rank(T, i) <= r + 1
          BY <2>1, <5>1, <5>2
        <5> QED BY <3>1, <5>3, <5>4
      <4> QED BY <4>1, <4>2
    <3> QED BY <2>1, <3>1, <3>3, <3>4
  <2>3. CASE s[n] \notin X
    <3>1. f[n] = g \o << >> /\ n \notin T /\ Rank(T, n) = r
      <4>1. f[n] = g \o << >> /\ n \notin T
        BY <1>2, <1>3, <2>3
      <4>2. Rank(T, n) = r + 0
        BY <1>4, <4>1
      <4> HIDE DEF r
      <4> QED BY <2>1, <4>1, <4>2
    <3>2. f[n] = g
      BY <2>1, <3>1, ConcatEmptySeq
    <3>3. \A i \in T : i <= n => i <= n - 1
      BY <1>0, <3>1
    <3> HIDE DEF g, r
    <3> QED BY <2>1, <3>1, <3>2, <3>3
  <2> QED BY <2>2, <2>3
<1>7. \A n \in 0 .. N : n \in G
  <2> HIDE DEF G
  <2> QED BY <1>0, <1>5, <1>6, UpTo
<1>8. N \in G
  <2> HIDE DEF G
  <2>1. N \in 0 .. N
    BY <1>0
  <2> QED BY <1>7, <2>1
<1>9. \A i \in T : i <= N
  BY <1>0
<1> QED
  BY <1>2, <1>4, <1>8, <1>9 DEF Selected

-----------------------------------------------------------------------------
\* The states of the SSM layers.

Others == DOMAIN model \ KVPositions

\* What is kept beside the blocks: the states of all SSM layers, in the order of
\* the layers and of one moment.
Companionable(states) ==
  /\ \A i \in Others : Rank(Others, i) <= Len(states)
  /\ \E t \in Nat : \A i \in Others :
       model[i] = "ssm" => states[Rank(Others, i)] = Layer("ssm", <<t>>)

CompanionsFit == Hybrid => \A p \in P : companion[p] # Absent => Companionable(companion[p])

LEMMA OthersFacts ==
  ASSUME Fixed
  PROVE  /\ Ranked(Others, Len(model)) /\ Len(model) \in Nat /\ DOMAIN model = 1 .. Len(model)
         /\ KVPositions \subseteq DOMAIN model /\ Others \subseteq DOMAIN model
         /\ \A i \in DOMAIN model : model[i] = "ssm" => i \in Others
         /\ ~ Hybrid => \A i \in DOMAIN model : model[i] # "ssm"
<1>1. DOMAIN model = 1 .. Len(model) /\ Len(model) \in Nat
  BY ModelKinds
<1>2. Others \subseteq 1 .. Len(model)
  BY <1>1 DEF Others
<1>3. \A i \in DOMAIN model : model[i] = "ssm" => i \in Others
  BY DEF Others, KVPositions, KVLike
<1>4. KVPositions \subseteq DOMAIN model
  BY DEF KVPositions
<1>5. ~ Hybrid => \A i \in DOMAIN model : model[i] # "ssm"
  BY <1>3 DEF Hybrid, Others
<1> QED
  BY <1>1, <1>2, <1>3, <1>4, <1>5, RankFacts DEF Others

\* A text model stores the states of its SSM layers.
LEMMA StatesFit ==
  ASSUME HybridsFlat, Fixed, ~ vision, Hybrid, NEW n \in Nat, NEW t \in Nat, NEW heads,
         Truncation(n, t, heads) # Absent
  PROVE  Companionable(States(Extracted(Quantized(Truncation(n, t, heads)))))
<1> DEFINE cache == Extracted(Quantized(Truncation(n, t, heads)))
           S == ToSet(cache)
           X == {l \in ToSet(cache) : l.kind \notin Positional \cup {"list"}}
           f == Wholes(n, t, heads)
<1>1. n > 1 /\ cache = Built(f)
  BY StoredBuilt
<1>2. \A i \in DOMAIN model : model[i] \in LeafKinds
  <2>1. \A i \in DOMAIN model : model[i] = "list" \/ model[i] \in LeafKinds
    BY ModelKinds
  <2>2. "ssm" \in ToSet(model) /\ model \in Models
    BY DEF Hybrid, Fixed, ToSet
  <2>3. "list" \notin ToSet(model)
    BY <2>2 DEF HybridsFlat
  <2> QED BY <2>1, <2>3 DEF ToSet
<1>3. \A k \in LeafKinds : f[k] \in Leaf({StoredKind(k)}) /\ (k = "ssm" => f[k] = Layer("ssm", <<t>>))
  BY <1>1, WholeFacts DEF Wholes
<1> HIDE DEF f
<1>4. \A k \in LeafKinds : f[k].kind = StoredKind(k) /\ f[k].kind # "list"
  BY <1>3 DEF Leaf, StoredKind
<1>5. \A i \in DOMAIN model : Built(f)[i] = f[model[i]]
  <2> SUFFICES ASSUME NEW i \in DOMAIN model PROVE Built(f)[i] = f[model[i]]
    OBVIOUS
  <2>1. model[i] # "list"
    BY <1>2 DEF LeafKinds
  <2>2. \A k \in LeafKinds : f[k].kind # "list"
    BY <1>4
  <2> QED BY <2>1, <2>2, BuiltPlaces
<1>6. DOMAIN cache = 1 .. Len(model) /\ DOMAIN model = 1 .. Len(model) /\ Len(model) \in Nat
  BY <1>1, ModelKinds DEF Built
<1>7. cache \in Seq(S) /\ Len(cache) = Len(model)
  <2>1. cache = [i \in 1 .. Len(model) |-> cache[i]]
    BY <1>1, <1>6 DEF Built
  <2>2. \A i \in 1 .. Len(model) : cache[i] \in S
    BY <1>6 DEF ToSet
  <2> HIDE DEF S, cache
  <2>3. cache \in [1 .. Len(model) -> S]
    BY <2>1, <2>2
  <2> QED BY <1>6, <2>3, AsList
<1>8. \A i \in DOMAIN model : i \in Others <=> model[i] = "ssm"
  BY <1>2 DEF Others, KVPositions, KVLike, LeafKinds
<1>9. \A i \in 1 .. Len(cache) : cache[i] \in X <=> i \in Others
  <2> SUFFICES ASSUME NEW i \in 1 .. Len(model) PROVE cache[i] \in X <=> i \in Others
    BY <1>7
  <2>1. cache[i] = f[model[i]] /\ cache[i] \in ToSet(cache) /\ model[i] \in LeafKinds
    BY <1>1, <1>2, <1>5, <1>6 DEF ToSet
  <2> HIDE DEF cache
  <2>2. cache[i].kind = StoredKind(model[i])
    BY <1>4, <2>1
  <2>3. StoredKind(model[i]) \in Positional \cup {"list"} <=> model[i] # "ssm"
    BY DEF StoredKind, Positional
  <2> QED BY <1>6, <1>8, <2>1, <2>2, <2>3
<1>10. Others = {i \in 1 .. Len(cache) : cache[i] \in X}
  BY <1>6, <1>7, <1>9, OthersFacts
<1> DEFINE st == Only(cache, X)
<1>11. /\ Len(st) = Cardinality(Others)
       /\ \A i \in Others : st[Rank(Others, i)] = cache[i]
  <2> HIDE DEF cache, X, S
  <2>2. Selected(cache, X, Others)
    BY <1>7, <1>10, OnlyRank
  <2> QED BY <2>2 DEF Selected
<1>12. \A i \in Others : Rank(Others, i) <= Len(st)
  <2> HIDE DEF st
  <2>1. \A i \in Others : Rank(Others, i) \in 1 .. Cardinality(Others) /\ Cardinality(Others) \in Nat
    BY OthersFacts DEF Ranked
  <2> QED BY <1>11, <2>1
<1>13. \A i \in Others : model[i] = "ssm" => st[Rank(Others, i)] = Layer("ssm", <<t>>)
  <2> HIDE DEF st
  <2> QED BY <1>1, <1>2, <1>3, <1>5, <1>11, OthersFacts
<1> QED
  BY <1>12, <1>13 DEF States, Companionable

\* A vision model keeps the states of a prefill.
LEMMA PrefillFits ==
  ASSUME Fixed, Hybrid, CompanionsFit, NEW p \in P, Prefill(p),
         companion \in [P -> {companion[q] : q \in P}], NEW q \in P, companion'[q] # Absent
  PROVE  Companionable(companion'[q])
<1> DEFINE raw == RawCache(len[p], 1)
           O == DOMAIN model \ KVPositions
           st == [k \in 1 .. Cardinality(O) |->
                    raw[CHOOSE i \in O : Cardinality({j \in O : j <= i}) = k]]
<1>1. companion' = [companion EXCEPT ![p] = st]
  BY DEF Prefill
<1>2. CASE q # p
  BY <1>1, <1>2 DEF CompanionsFit
<1>3. CASE q = p
  <2>1. companion'[q] = st
    BY <1>1, <1>3
  <2>2. O = Others /\ Ranked(Others, Len(model)) /\ Others \subseteq DOMAIN model
    BY OthersFacts DEF Others
  <2>3. \A i \in Others : Rank(Others, i) \in 1 .. Cardinality(Others)
    BY <2>2 DEF Ranked
  <2>4. \A i, j \in Others : Rank(Others, i) = Rank(Others, j) => i = j
    <3> SUFFICES ASSUME NEW i \in Others, NEW j \in Others, i # j
                 PROVE  Rank(Others, i) # Rank(Others, j)
      OBVIOUS
    <3>1. i \in Nat /\ j \in Nat
      BY OthersFacts
    <3>2. i < j \/ j < i
      BY <3>1
    <3>3. /\ i < j => Rank(Others, i) < Rank(Others, j)
          /\ j < i => Rank(Others, j) < Rank(Others, i)
      BY <2>2 DEF Ranked
    <3>4. Rank(Others, i) \in Nat /\ Rank(Others, j) \in Nat
      BY <2>3
    <3> QED BY <3>2, <3>3, <3>4
  <2>5. st = [k \in 1 .. Cardinality(Others) |-> raw[CHOOSE i \in Others : Rank(Others, i) = k]]
    <3> DEFINE here(k) == CHOOSE i \in Others : Cardinality({j \in Others : j <= i}) = k
               there(k) == CHOOSE i \in Others : Rank(Others, i) = k
    <3>1. \A i, k : Cardinality({j \in Others : j <= i}) = k <=> Rank(Others, i) = k
      BY DEF Rank
    <3>2. \A k : here(k) = there(k)
      BY <3>1
    <3>3. st = [k \in 1 .. Cardinality(Others) |-> raw[here(k)]]
      BY Zenon DEF Others
    <3> HIDE DEF st, raw, O, here, there
    <3>4. st = [k \in 1 .. Cardinality(Others) |-> raw[there(k)]]
      BY <3>2, <3>3
    <3> QED BY <3>4 DEF there
  <2>6. \A i \in Others : (CHOOSE j \in Others : Rank(Others, j) = Rank(Others, i)) = i
    BY <2>4
  <2> HIDE DEF st, O
  <2>7. \A i \in Others : st[Rank(Others, i)] = raw[i]
    BY <2>3, <2>5, <2>6
  <2>8. Len(st) = Cardinality(Others)
    <3>1. Cardinality(Others) \in Nat
      BY <2>2 DEF Ranked
    <3> DEFINE c == Cardinality(Others)
               D == {st[k] : k \in 1 .. c}
    <3>2. st \in [1 .. c -> D]
      BY <2>5
    <3> HIDE DEF c, D
    <3>3. c \in Nat
      BY <3>1 DEF c
    <3> QED BY <3>2, <3>3, AsList DEF c
  <2>9. \A i \in Others : model[i] = "ssm" => raw[i] = Layer("ssm", <<len[p]>>)
    <3>1. \A i \in Others : model[i] = "ssm" => raw[i] = RawLayer("ssm", len[p], 1)
      BY <2>2 DEF RawCache
    <3>2. RawLayer("ssm", len[p], 1) = Layer("ssm", <<len[p]>>)
      BY DEF RawLayer
    <3> QED BY <3>1, <3>2
  <2>10. len[p] \in Nat
    BY Extents
  <2>11. \A i \in Others : Rank(Others, i) <= Len(st)
    BY <2>3, <2>8
  <2> QED BY <2>1, <2>7, <2>9, <2>10, <2>11 DEF Companionable
<1> QED
  BY <1>2, <1>3

\* Companions stay states of one moment.
CompanionsInv ==
  /\ Fixed
  /\ companion \in [P -> {companion[q] : q \in P}]
  /\ CompanionsFit

LEMMA StoreCompanion ==
  ASSUME HybridsFlat, CompanionsInv, NEW p \in P, NEW m \in 0 .. MaxOutput, NEW heads,
         Store(p, m, heads), Hybrid, NEW q \in P, companion'[q] # Absent
  PROVE  Companionable(companion'[q])
<1> DEFINE t == len[p] + m
           raw == RawCache(t, heads)
           cut == IF vision THEN VisionTruncated(raw, len[p]) ELSE Truncated(raw, len[p], t)
           cache == Extracted(Quantized(cut))
<1>1. companion' = [companion EXCEPT ![p] =
                      IF Hybrid /\ ~vision /\ cut # Absent THEN States(cache) ELSE @]
  BY DEF Store
<1>2. cut = Truncation(len[p], t, heads)
  BY DEF Truncation
<1>3. t \in Nat /\ len[p] \in Nat
  <2>1. len[p] \in Nat
    BY Extents DEF CompanionsInv
  <2>2. m \in Nat
    BY DataAssumption
  <2> QED BY <2>1, <2>2
<1> HIDE DEF cut, t
<1>4. CASE q = p /\ ~vision /\ cut # Absent
  <2>1. companion'[q] = States(Extracted(Quantized(Truncation(len[p], t, heads))))
    <3> HIDE DEF cache
    <3>1. companion'[q] = States(cache)
      BY <1>1, <1>4 DEF CompanionsInv
    <3>2. cache = Extracted(Quantized(Truncation(len[p], t, heads)))
      BY <1>2 DEF cache
    <3> QED BY <3>1, <3>2
  <2>2. Truncation(len[p], t, heads) # Absent
    BY <1>2, <1>4
  <2>3. Companionable(States(Extracted(Quantized(Truncation(len[p], t, heads)))))
    BY <1>3, <1>4, <2>2, StatesFit DEF CompanionsInv
  <2> QED BY <2>1, <2>3
<1>5. CASE ~ (q = p /\ ~vision /\ cut # Absent)
  <2>1. companion'[q] = companion[q]
    <3> HIDE DEF cache
    <3> QED BY <1>1, <1>5 DEF CompanionsInv
  <2> QED BY <2>1 DEF CompanionsInv, CompanionsFit
<1> QED
  BY <1>4, <1>5

LEMMA CompanionsStep ==
  ASSUME HybridsFlat, CompanionsInv, [DataNext]_datavars
  PROVE  CompanionsInv'
<1>1. Fixed' /\ UNCHANGED <<vision, model, bits, len, common>>
  BY StaysFixed DEF CompanionsInv
<1>2. (\E p \in P : companion' = [companion EXCEPT ![p] = companion'[p]]) \/ companion' = companion
  <2>1. ASSUME NEW p \in P, NEW x, companion' = [companion EXCEPT ![p] = x]
        PROVE  companion' = [companion EXCEPT ![p] = companion'[p]]
    BY <2>1 DEF CompanionsInv
  <2>2. ASSUME NEW p \in P, NEW m, NEW h, Store(p, m, h)
        PROVE  \E x : companion' = [companion EXCEPT ![p] = x]
    BY <2>2 DEF Store
  <2>3. ASSUME NEW p \in P, Prefill(p)
        PROVE  \E x : companion' = [companion EXCEPT ![p] = x]
    BY <2>3 DEF Prefill
  <2>4. \/ \E p \in P, m \in 0 .. MaxOutput, h \in Heads : Store(p, m, h)
        \/ \E p \in P : Prefill(p)
        \/ companion' = companion
    BY DEF DataNext, datavars, Evict, Fetch
  <2> QED BY <2>1, <2>2, <2>3, <2>4
<1>3. companion' \in [P -> {companion'[q] : q \in P}]
  BY <1>2 DEF CompanionsInv
<1>4. Hybrid' <=> Hybrid
  BY <1>1 DEF Hybrid, KVPositions
<1>5. ASSUME Hybrid, NEW q \in P, companion'[q] # Absent
      PROVE  Companionable(companion'[q])
  <2>1. ASSUME NEW p \in P, NEW m \in 0 .. MaxOutput, NEW h, Store(p, m, h)
        PROVE  Companionable(companion'[q])
    BY <1>5, <2>1, StoreCompanion
  <2>2. ASSUME NEW p \in P, Prefill(p)
        PROVE  Companionable(companion'[q])
    BY <1>5, <2>2, PrefillFits DEF CompanionsInv
  <2>3. CASE companion' = companion
    BY <1>5, <2>3 DEF CompanionsInv, CompanionsFit
  <2>4. \/ \E p \in P, m \in 0 .. MaxOutput, h \in Heads : Store(p, m, h)
        \/ \E p \in P : Prefill(p)
        \/ companion' = companion
    BY DEF DataNext, datavars, Evict, Fetch
  <2> QED BY <2>1, <2>2, <2>3, <2>4
<1>6. CompanionsFit'
  <2>1. ASSUME NEW q \in P, Hybrid, companion'[q] # Absent
        PROVE  Companionable(companion[q])'
    <3>1. Companionable(companion'[q])
      BY <1>5, <2>1
    <3> QED BY <1>1, <3>1 DEF Companionable, Others, KVPositions, Rank
  <2> QED BY <1>4, <2>1 DEF CompanionsFit
<1> QED
  BY <1>1, <1>3, <1>6 DEF CompanionsInv

\* A hit: the blocks found and the states put beside them.
LEMMA FetchFacts ==
  ASSUME NEW p \in P, NEW j, Fetch(p, j), got' # Absent
  PROVE  \E n, blocks, s :
           /\ \/ n = j * BlockSize /\ n <= len[p]
              \/ p \in stored /\ j = Blocks(p) /\ n = Stored(p)
           /\ blocks \in [1 .. j -> UNION {At(Prefix(p, Min({i * BlockSize, n}))) : i \in 1 .. j}]
           /\ \A i \in 1 .. j : blocks[i] \in At(Prefix(p, Min({i * BlockSize, n})))
           /\ Reconstructed(blocks) # Absent
           /\ Hybrid => s \in CompanionOf(n, p)
           /\ got' = [prompt |-> p, tokens |-> n, cache |-> Assembled(Reconstructed(blocks), s)]
<1> DEFINE found == IF j * BlockSize <= len[p] THEN {j * BlockSize} ELSE {}
           listed == IF p \in stored /\ j = Blocks(p) THEN {Stored(p)} ELSE {}
           key(n, i) == Prefix(p, Min({i * BlockSize, n}))
           states(n) == IF Hybrid THEN CompanionOf(n, p) ELSE {<< >>}
<1>1. PICK n, blocks :
        /\ n \in found \cup listed
        /\ blocks \in [1 .. j -> UNION {At(key(n, i)) : i \in 1 .. j}]
        /\ \A i \in 1 .. j : blocks[i] \in At(key(n, i))
        /\ IF Reconstructed(blocks) = Absent \/ states(n) = {} THEN got' = Absent
           ELSE \E s \in states(n) :
                  got' = [prompt |-> p, tokens |-> n, cache |-> Assembled(Reconstructed(blocks), s)]
  <2> HIDE DEF found, listed
  <2> QED BY Zenon DEF Fetch, found, listed
<1>2. \/ n = j * BlockSize /\ n <= len[p]
      \/ p \in stored /\ j = Blocks(p) /\ n = Stored(p)
  BY <1>1
<1> HIDE DEF states, found, listed
<1>3. PICK s \in states(n) :
        got' = [prompt |-> p, tokens |-> n, cache |-> Assembled(Reconstructed(blocks), s)]
  BY <1>1
<1>4. Reconstructed(blocks) # Absent
  BY <1>1
<1>5. Hybrid => s \in CompanionOf(n, p)
  BY <1>3 DEF states
<1> QED
  BY Zenon, <1>1, <1>2, <1>3, <1>4, <1>5

\* A hit on a model with SSM layers: the states fill them.
LEMMA StatesFill ==
  ASSUME Fixed, Hybrid, NEW whole, NEW s, Companionable(s)
  PROVE  \E t \in Nat : \A i \in DOMAIN model :
           model[i] = "ssm" => Assembled(whole, s)[i] = Layer("ssm", <<t>>)
<1> DEFINE cache == FixHybrid(Dequantized(whole))
           rank(i) == Cardinality({k \in DOMAIN cache : k <= i /\ k \notin KVPositions})
<1>1. PICK t \in Nat : \A i \in Others : model[i] = "ssm" => s[Rank(Others, i)] = Layer("ssm", <<t>>)
  BY DEF Companionable
<1>2. DOMAIN cache = DOMAIN model
  BY DEF FixHybrid, Template
<1> HIDE DEF cache
<1>3. \A i : rank(i) = Rank(Others, i)
  <2>1. \A i : {k \in DOMAIN cache : k <= i /\ k \notin KVPositions} = {k \in Others : k <= i}
    BY <1>2 DEF Others
  <2> QED BY <2>1 DEF Rank
<1>4. WithCompanion(cache, s) =
        [i \in DOMAIN model |->
           IF i \notin KVPositions /\ rank(i) <= Len(s) THEN s[rank(i)] ELSE cache[i]]
  BY Zenon, <1>2 DEF WithCompanion
<1> DEFINE full == WithCompanion(cache, s)
<1> HIDE DEF rank
<1>5. ASSUME NEW i \in DOMAIN model, model[i] = "ssm"
      PROVE  full[i] = Layer("ssm", <<t>>) /\ i \in DOMAIN full
  <2>1. i \in Others /\ i \notin KVPositions
    BY <1>5, OthersFacts DEF Others
  <2>2. Rank(Others, i) <= Len(s)
    BY <2>1 DEF Companionable
  <2>3. full[i] = s[Rank(Others, i)] /\ i \in DOMAIN full
    BY <1>3, <1>4, <2>1, <2>2
  <2> QED BY <1>1, <1>5, <2>1, <2>3
<1>6. Assembled(whole, s) = Recompressed(full)
  BY DEF Assembled, cache
<1> HIDE DEF full
<1>7. ASSUME NEW i \in DOMAIN model, model[i] = "ssm"
      PROVE  Assembled(whole, s)[i] = Layer("ssm", <<t>>)
  <2>1. full[i].kind = "ssm"
    BY <1>5, <1>7 DEF Layer, LayerOf
  <2>2. Recompressed(full)[i] = full[i]
    BY <1>5, <1>7, <2>1 DEF Recompressed
  <2> QED BY <1>5, <1>6, <1>7, <2>2
<1> QED
  BY <1>7

\* Only a fetch changes what the last fetch assembled.
LEMMA OnlyFetches ==
  ASSUME [DataNext]_datavars
  PROVE  (\E p \in P, j \in 1 .. MaxPrompt : Fetch(p, j)) \/ got' = got
<1>1. \A p, m, h : Store(p, m, h) => got' = got
  BY DEF Store
<1>2. \A p : Prefill(p) => got' = got
  BY DEF Prefill
<1>3. \A key : Evict(key) => got' = got
  BY DEF Evict
<1> QED
  BY <1>1, <1>2, <1>3 DEF DataNext, datavars

SSMIInv == CompanionsInv /\ SSMTogether

LEMMA SSMStep ==
  ASSUME HybridsFlat, SSMIInv, [DataNext]_datavars
  PROVE  SSMTogether'
<1>1. UNCHANGED <<vision, model, bits, len, common>>
  BY StaysFixed DEF SSMIInv, CompanionsInv
<1>2. ASSUME NEW p \in P, NEW j, Fetch(p, j), got' # Absent
      PROVE  SSMTogether'
  <2>1. PICK n, blocks, s :
          /\ Hybrid => s \in CompanionOf(n, p)
          /\ got' = [prompt |-> p, tokens |-> n, cache |-> Assembled(Reconstructed(blocks), s)]
    BY <1>2, FetchFacts
  <2> DEFINE cache == Assembled(Reconstructed(blocks), s)
  <2>2. got'.cache = cache
    BY <2>1
  <2> HIDE DEF cache
  <2>3. \E t \in Nat : \A i \in DOMAIN model : model[i] = "ssm" => cache[i].pos = <<t>>
    <3>1. CASE Hybrid
      <4>1. PICK q \in P : s = companion[q] /\ companion[q] # Absent
        BY <2>1, <3>1 DEF CompanionOf
      <4>2. Companionable(s)
        BY <3>1, <4>1 DEF SSMIInv, CompanionsInv, CompanionsFit
      <4>3. PICK t \in Nat : \A i \in DOMAIN model :
              model[i] = "ssm" => Assembled(Reconstructed(blocks), s)[i] = Layer("ssm", <<t>>)
        BY <3>1, <4>2, StatesFill DEF SSMIInv, CompanionsInv
      <4>4. Layer("ssm", <<t>>).pos = <<t>>
        BY DEF Layer, LayerOf
      <4> QED BY <4>3, <4>4 DEF cache
    <3>2. CASE ~ Hybrid
      <4>1. \A i \in DOMAIN model : model[i] # "ssm"
        BY <3>2, OthersFacts DEF SSMIInv, CompanionsInv
      <4> QED BY <4>1
    <3> QED BY <3>1, <3>2
  <2>4. PICK t \in Nat : \A i \in DOMAIN model : model[i] = "ssm" => cache[i].pos = <<t>>
    BY <2>3
  <2> DEFINE states == {cache[i].pos : i \in {k \in DOMAIN model : model[k] = "ssm"}}
  <2>5. states \subseteq {<<t>>}
    BY <2>4
  <2>6. << >> \notin states
    BY <2>5
  <2>7. Cardinality(states) <= 1
    <3> HIDE DEF states
    <3>1. IsFiniteSet({<<t>>}) /\ Cardinality({<<t>>}) = 1
      BY FS_Singleton
    <3>2. Cardinality(states) <= Cardinality({<<t>>})
      BY <2>5, <3>1, FS_Subset
    <3> QED BY <3>1, <3>2
  <2>8. {got.cache[i].pos : i \in {k \in DOMAIN model : model[k] = "ssm"}}' = states
    BY <1>1, <2>2
  <2> HIDE DEF states
  <2> QED BY <2>6, <2>7, <2>8 DEF SSMTogether
<1>3. CASE got' = got
  BY <1>1, <1>3 DEF SSMIInv, SSMTogether
<1>4. CASE got' = Absent
  BY <1>4 DEF SSMTogether
<1>5. (\E p \in P, j \in 1 .. MaxPrompt : Fetch(p, j)) \/ got' = got
  BY OnlyFetches
<1>6. CASE \E p \in P, j \in 1 .. MaxPrompt : Fetch(p, j)
  <2>1. PICK p \in P, j \in 1 .. MaxPrompt : Fetch(p, j)
    BY <1>6
  <2>2. CASE got' # Absent
    BY <1>2, <2>1, <2>2
  <2> QED BY <1>4, <2>2
<1> QED
  BY <1>3, <1>5, <1>6

\* The SSM layers of a hit come from one moment of one request, the end of its
\* prefill or of its answer, and none of them starts afresh (SSMTogether;
\* _process_prompts, _cleanup_finished, HybridSSMStateCache, _fix_hybrid_cache).
THEOREM StatesTogether == HybridsFlat => (DataSpec => []SSMTogether)
<1>1. DataInit => SSMIInv
  <2> SUFFICES ASSUME DataInit PROVE SSMIInv
    OBVIOUS
  <2>1. companion = [p \in P |-> Absent] /\ got = Absent
    BY DEF DataInit
  <2> QED BY <2>1, InitFixed DEF SSMIInv, CompanionsInv, CompanionsFit, SSMTogether
<1>2. HybridsFlat /\ SSMIInv /\ [DataNext]_datavars => SSMIInv'
  <2> SUFFICES ASSUME HybridsFlat, SSMIInv, [DataNext]_datavars PROVE SSMIInv'
    OBVIOUS
  <2>1. CompanionsInv'
    BY CompanionsStep DEF SSMIInv
  <2>2. SSMTogether'
    BY SSMStep
  <2> QED BY <2>1, <2>2 DEF SSMIInv
<1>3. SSMIInv => SSMTogether
  BY DEF SSMIInv
<1>4. ASSUME HybridsFlat PROVE DataSpec => []SSMTogether
  <2>1. SSMIInv /\ [DataNext]_datavars => SSMIInv'
    BY <1>2, <1>4
  <2> QED BY <1>1, <1>3, <2>1, PTL DEF DataSpec
<1> QED
  BY <1>4

-----------------------------------------------------------------------------
\* What the blocks of a hit are put together to.

\* Runs that follow each other.
LEMMA RunConcat ==
  ASSUME NEW a \in Nat, NEW b \in Nat, NEW c \in Nat, a <= b, b <= c
  PROVE  Run(a, b) \o Run(b, c) = Run(a, c)
<1> DEFINE u == Run(a, b)
           v == Run(b, c)
           w == u \o v
<1>1. u \in Seq(Nat) /\ Len(u) = b - a /\ v \in Seq(Nat) /\ Len(v) = c - b
  BY RunFacts
<1>2. /\ \A x \in 1 .. b - a : u[x] = a + x
      /\ \A x \in 1 .. c - b : v[x] = b + x
  BY DEF Run
<1> HIDE DEF u, v
<1>3. /\ w \in Seq(Nat) /\ Len(w) = c - a
      /\ \A x \in 1 .. c - a : w[x] = IF x <= b - a THEN u[x] ELSE v[x - (b - a)]
  <2>1. Len(u) + Len(v) = c - a
    BY <1>1
  <2>2. /\ w \in Seq(Nat) /\ Len(w) = Len(u) + Len(v)
        /\ \A x \in 1 .. Len(u) + Len(v) : w[x] = IF x <= Len(u) THEN u[x] ELSE v[x - Len(u)]
    BY <1>1, ConcatProperties
  <2> HIDE DEF w
  <2> QED BY <1>1, <2>1, <2>2
<1>4. \A x \in 1 .. c - a : w[x] = a + x
  <2> SUFFICES ASSUME NEW x \in 1 .. c - a PROVE w[x] = a + x
    OBVIOUS
  <2>1. CASE x <= b - a
    <3>1. x \in 1 .. b - a
      BY <2>1
    <3> QED BY <1>2, <1>3, <2>1, <3>1
  <2>2. CASE ~ (x <= b - a)
    <3>1. x - (b - a) \in 1 .. c - b /\ b + (x - (b - a)) = a + x
      BY <2>2
    <3> QED BY <1>2, <1>3, <2>2, <3>1
  <2> QED BY <2>1, <2>2
<1> HIDE DEF w
<1>5. w = [x \in 1 .. c - a |-> w[x]]
  BY <1>3, LenProperties
<1>6. w = Run(a, c)
  BY <1>4, <1>5 DEF Run
<1> QED
  BY <1>6 DEF w, u, v

LEMMA FlatRuns ==
  ASSUME NEW N \in Nat \ {0}, NEW e \in [0 .. N -> Nat], \A n \in 1 .. N : e[n - 1] <= e[n],
         NEW s, s = [n \in 1 .. N |-> Run(e[n - 1], e[n])]
  PROVE  FlattenSeq(s) = Run(e[0], e[N])
<1> DEFINE R == {Run(a, b) : a \in Nat, b \in Nat}
           g == [n \in 1 .. N |-> Run(e[0], e[n])]
           f == CHOOSE f : f = [i \in 1 .. Len(s) |-> IF i = 1 THEN s[i] ELSE f[i - 1] \o s[i]]
<1>1. Len(s) = N
  <2>1. \A n \in 1 .. N : s[n] \in R
    <3>1. \A n \in 1 .. N : n \in 0 .. N /\ n - 1 \in 0 .. N
      OBVIOUS
    <3> QED BY <3>1
  <2> HIDE DEF R
  <2>2. s \in [1 .. N -> R]
    BY <2>1
  <2> QED BY <2>2, AsList
<1>2. \A n \in 0 .. N : e[n] \in Nat /\ e[0] <= e[n]
  <2> DEFINE G == {n \in 0 .. N : e[0] <= e[n]}
  <2>1. 0 \in G
    OBVIOUS
  <2>2. ASSUME NEW n \in 1 .. N, n - 1 \in G PROVE n \in G
    <3>1. n \in 0 .. N /\ n - 1 \in 0 .. N /\ 0 \in 0 .. N
      OBVIOUS
    <3>2. e[0] \in Nat /\ e[n] \in Nat /\ e[n - 1] \in Nat /\ e[0] <= e[n - 1] /\ e[n - 1] <= e[n]
      BY <2>2, <3>1
    <3>3. e[0] <= e[n]
      BY <3>2
    <3> QED BY <3>1, <3>3
  <2> HIDE DEF G
  <2>3. \A n \in 0 .. N : n \in G
    BY <2>1, <2>2, UpTo
  <2> QED BY <2>3 DEF G
<1>3. \A n \in 1 .. N : n - 1 \in 0 .. N /\ n \in 0 .. N /\ (n # 1 => n - 1 \in 1 .. N)
  OBVIOUS
<1>4. g = [i \in 1 .. Len(s) |-> IF i = 1 THEN s[i] ELSE g[i - 1] \o s[i]]
  <2> SUFFICES ASSUME NEW i \in 1 .. N PROVE g[i] = IF i = 1 THEN s[i] ELSE g[i - 1] \o s[i]
    BY <1>1
  <2>1. s[i] = Run(e[i - 1], e[i]) /\ g[i] = Run(e[0], e[i])
    OBVIOUS
  <2>2. CASE i = 1
    BY <2>1, <2>2
  <2>3. CASE i # 1
    <3>1. g[i - 1] = Run(e[0], e[i - 1])
      BY <1>3, <2>3
    <3>2. e[0] \in Nat /\ e[i - 1] \in Nat /\ e[i] \in Nat /\ e[0] <= e[i - 1] /\ e[i - 1] <= e[i]
      BY <1>2, <1>3
    <3>3. Run(e[0], e[i - 1]) \o Run(e[i - 1], e[i]) = Run(e[0], e[i])
      BY <3>2, RunConcat
    <3> QED BY <2>1, <2>3, <3>1, <3>3
  <2> QED BY <2>2, <2>3
<1>5. f = [i \in 1 .. Len(s) |-> IF i = 1 THEN s[i] ELSE f[i - 1] \o s[i]]
  <2> HIDE DEF g
  <2> QED BY <1>4
<1>6. FlattenSeq(s) = f[N]
  BY <1>1 DEF FlattenSeq
<1> HIDE DEF f
<1> DEFINE G == {n \in 0 .. N : n # 0 => f[n] = Run(e[0], e[n])}
<1>7. 0 \in G
  OBVIOUS
<1>8. ASSUME NEW n \in 1 .. N, n - 1 \in G PROVE n \in G
  <2>1. f[n] = IF n = 1 THEN s[n] ELSE f[n - 1] \o s[n]
    BY <1>1, <1>5
  <2>2. s[n] = Run(e[n - 1], e[n])
    OBVIOUS
  <2>3. CASE n = 1
    BY <2>1, <2>2, <2>3
  <2>4. CASE n # 1
    <3>1. f[n - 1] = Run(e[0], e[n - 1])
      BY <1>8, <2>4
    <3>2. e[0] \in Nat /\ e[n - 1] \in Nat /\ e[n] \in Nat /\ e[0] <= e[n - 1] /\ e[n - 1] <= e[n]
      BY <1>2, <1>3
    <3>3. Run(e[0], e[n - 1]) \o Run(e[n - 1], e[n]) = Run(e[0], e[n])
      BY <3>2, RunConcat
    <3> QED BY <1>3, <2>1, <2>2, <2>4, <3>1, <3>3
  <2> QED BY <2>3, <2>4
<1>9. \A n \in 0 .. N : n \in G
  <2> HIDE DEF G
  <2> QED BY <1>7, <1>8, UpTo
<1>10. f[N] = Run(e[0], e[N])
  <2>1. N \in 0 .. N /\ N # 0
    OBVIOUS
  <2> QED BY <1>9, <2>1
<1> QED
  BY <1>6, <1>10

\* What all blocks have of an attention layer of kind k, of which F positions are
\* stored.
Pieces(k, j, F) ==
  [b \in 1 .. j |-> Bit(k, (b - 1) * BlockSize, IF b = j THEN F ELSE b * BlockSize)]

LEMMA Products ==
  ASSUME NEW n \in Nat, NEW c \in Nat \ {0}
  PROVE  /\ n * c \in Nat /\ 0 * c = 0 /\ 1 * c = c /\ n * c < (n + 1) * c
         /\ (n + 1) * c = n * c + c
         /\ \A m \in Nat : m <= n => m * c <= n * c
<1>1. n * c \in Nat /\ 0 * c = 0 /\ 1 * c = c /\ (n + 1) * c = n * c + c
  OBVIOUS
<1>2. ASSUME NEW m \in Nat, m <= n PROVE m * c <= n * c
  <2> DEFINE d == n - m
  <2>1. d \in Nat /\ n = m + d
    BY <1>2
  <2> HIDE DEF d
  <2>2. d * c \in Nat /\ m * c \in Nat
    BY <2>1
  <2>3. n * c = m * c + d * c
    BY <2>1
  <2> QED BY <2>2, <2>3
<1> QED
  BY <1>1, <1>2

LEMMA JoinedBits ==
  ASSUME Fixed, NEW k \in LeafKinds, k # "ssm", NEW j \in Nat \ {0}, NEW F \in Nat \ {0},
         (j - 1) * BlockSize <= F
  PROVE  Joined(Pieces(k, j, F)) = LayerOf(StoredKind(k), Run(0, F), 1)
<1> DEFINE es == Pieces(k, j, F)
           sk == StoredKind(k)
           e == [b \in 0 .. j |-> IF b = j THEN F ELSE b * BlockSize]
           runs == [b \in 1 .. j |-> Run(e[b - 1], e[b])]
           flat == [b \in DOMAIN es |-> IF es[b].kind = sk THEN es[b].pos ELSE << >>]
<1>0. BlockSize \in Nat \ {0}
  BY DataAssumption
<1>1. /\ e \in [0 .. j -> Nat] /\ e[0] = 0 /\ e[j] = F
      /\ \A b \in 1 .. j : e[b - 1] = (b - 1) * BlockSize /\ e[b - 1] <= e[b]
  <2>1. \A b \in 0 .. j : e[b] \in Nat
    <3> SUFFICES ASSUME NEW b \in 0 .. j PROVE e[b] \in Nat
      OBVIOUS
    <3>1. b * BlockSize \in Nat
      BY <1>0, Products
    <3> QED BY <3>1
  <2>2. e[0] = 0
    <3>1. 0 \in 0 .. j /\ 0 # j /\ 0 * BlockSize = 0
      BY <1>0, Products
    <3> QED BY <3>1
  <2>3. ASSUME NEW b \in 1 .. j
        PROVE  e[b - 1] = (b - 1) * BlockSize /\ e[b - 1] <= e[b]
    <3>1. b - 1 \in 0 .. j /\ b - 1 # j /\ b \in 0 .. j /\ b - 1 \in Nat /\ (b - 1) + 1 = b
      OBVIOUS
    <3>2. (b - 1) * BlockSize < ((b - 1) + 1) * BlockSize /\ (b - 1) * BlockSize \in Nat
          /\ b * BlockSize \in Nat
      BY <1>0, <3>1, Products
    <3>3. e[b - 1] = (b - 1) * BlockSize
      BY <3>1
    <3>4. e[b] = IF b = j THEN F ELSE b * BlockSize
      BY <3>1
    <3> DEFINE x == (b - 1) * BlockSize
               y == b * BlockSize
    <3>5. x < y /\ x \in Nat /\ y \in Nat /\ (b = j => x <= F)
      BY <3>1, <3>2
    <3> HIDE DEF x, y, e
    <3> QED BY <3>3, <3>4, <3>5 DEF x, y
  <2>4. e[j] = F
    OBVIOUS
  <2>5. e = [b \in 0 .. j |-> e[b]]
    OBVIOUS
  <2> HIDE DEF e
  <2> QED BY <2>1, <2>2, <2>3, <2>4, <2>5
<1>2. DOMAIN es = 1 .. j
  BY DEF Pieces
<1>3. \A b \in 1 .. j : es[b] = Bit(k, e[b - 1], e[b])
  <2> SUFFICES ASSUME NEW b \in 1 .. j PROVE es[b] = Bit(k, e[b - 1], e[b])
    OBVIOUS
  <2>1. b \in 0 .. j
    OBVIOUS
  <2>2. e[b] = IF b = j THEN F ELSE b * BlockSize
    BY <2>1
  <2>3. es[b] = Bit(k, (b - 1) * BlockSize, IF b = j THEN F ELSE b * BlockSize)
    BY DEF Pieces
  <2> HIDE DEF e
  <2> QED BY <1>1, <2>2, <2>3
<1>10. 0 < e[1]
  <2>1. 1 \in 0 .. j /\ 1 * BlockSize = BlockSize
    BY <1>0, Products
  <2>2. e[1] = IF 1 = j THEN F ELSE BlockSize
    BY <2>1
  <2> QED BY <1>0, <2>2
<1> HIDE DEF e, es
<1>4. ASSUME NEW b \in 1 .. j
      PROVE  /\ e[b - 1] \in Nat /\ e[b] \in Nat
             /\ e[b - 1] < e[b] => es[b] = LayerOf(sk, Run(e[b - 1], e[b]), 1)
             /\ ~ (e[b - 1] < e[b]) => es[b] = Skip /\ Run(e[b - 1], e[b]) = << >>
  <2>1. b - 1 \in 0 .. j /\ b \in 0 .. j
    OBVIOUS
  <2>2. e[b - 1] \in Nat /\ e[b] \in Nat
    BY <1>1, <2>1
  <2>3. e[b - 1] < e[b] => es[b] = LayerOf(sk, Run(e[b - 1], e[b]), 1)
    BY <1>3, <2>2 DEF Bit
  <2>4. ASSUME ~ (e[b - 1] < e[b])
        PROVE  es[b] = Skip /\ Run(e[b - 1], e[b]) = << >>
    <3>1. e[b - 1] >= e[b]
      BY <2>2, <2>4
    <3>2. Run(e[b - 1], e[b]) \in Seq(Nat) /\ Len(Run(e[b - 1], e[b])) = 0
      <4>1. e[b - 1] = e[b]
        BY <1>1, <2>2, <3>1
      <4>2. Len(Run(e[b - 1], e[b])) = IF e[b - 1] <= e[b] THEN e[b] - e[b - 1] ELSE 0
        BY <2>2, RunFacts
      <4>3. Run(e[b - 1], e[b]) \in Seq(Nat)
        BY <2>2, RunFacts
      <4> DEFINE c == e[b - 1]
                 d == e[b]
                 r == Run(e[b - 1], e[b])
      <4>4. c = d /\ c \in Nat /\ Len(r) = (IF c <= d THEN d - c ELSE 0) /\ r \in Seq(Nat)
        BY <2>2, <4>1, <4>2, <4>3
      <4> HIDE DEF c, d, r
      <4>5. r \in Seq(Nat) /\ Len(r) = 0
        BY <4>4
      <4> QED BY <4>5 DEF r
    <3>3. Run(e[b - 1], e[b]) = << >>
      BY <3>2, EmptySeq
    <3> QED BY <1>3, <3>1, <3>3 DEF Bit
  <2> QED BY <2>2, <2>3, <2>4
<1>5. sk \in {"quant", "kv", "rot"} /\ Skip.kind = "skip"
  BY DEF StoredKind, Skip, Layer, LayerOf, LeafKinds
<1>6. \A b \in 1 .. j : flat[b] = runs[b]
  <2> SUFFICES ASSUME NEW b \in 1 .. j PROVE flat[b] = runs[b]
    OBVIOUS
  <2>1. flat[b] = IF es[b].kind = sk THEN es[b].pos ELSE << >>
    BY <1>2
  <2>2. CASE e[b - 1] < e[b]
    <3>1. es[b] = [kind |-> sk, pos |-> Run(e[b - 1], e[b]), heads |-> 1, subs |-> << >>]
      BY <1>4, <2>2 DEF LayerOf
    <3> HIDE DEF sk, flat
    <3> QED BY <2>1, <3>1
  <2>3. CASE ~ (e[b - 1] < e[b])
    <3>1. es[b].kind # sk
      BY <1>4, <1>5, <2>3
    <3> HIDE DEF flat
    <3> QED BY <1>4, <2>1, <2>3, <3>1
  <2> QED BY <2>2, <2>3
<1>7. flat = runs
  BY <1>2, <1>6
<1>8. FlattenSeq(flat) = Run(0, F)
  <2>1. FlattenSeq(runs) = Run(e[0], e[j])
    <3> HIDE DEF sk
    <3> QED BY <1>1, FlatRuns
  <2> QED BY <1>1, <1>7, <2>1
<1>9. Concat(es, sk) = Run(0, F)
  BY <1>8 DEF Concat
<1> DEFINE kinds == {x.kind : x \in ToSet(es)}
<1>11. sk \in kinds /\ kinds \subseteq {sk, "skip"}
  <2>1. ToSet(es) = {es[b] : b \in 1 .. j}
    BY <1>2 DEF ToSet
  <2>2. \A b \in 1 .. j : es[b].kind \in {sk, "skip"} /\ (e[b - 1] < e[b] => es[b].kind = sk)
    <3> SUFFICES ASSUME NEW b \in 1 .. j
                 PROVE  es[b].kind \in {sk, "skip"} /\ (e[b - 1] < e[b] => es[b].kind = sk)
      OBVIOUS
    <3> HIDE DEF sk
    <3>1. CASE e[b - 1] < e[b]
      <4>1. es[b] = LayerOf(sk, Run(e[b - 1], e[b]), 1)
        BY <1>4, <3>1
      <4> QED BY <4>1 DEF LayerOf
    <3>2. CASE ~ (e[b - 1] < e[b])
      BY <1>4, <1>5, <3>2
    <3> QED BY <3>1, <3>2
  <2>3. 1 \in 1 .. j /\ e[1 - 1] < e[1]
    BY <1>1, <1>10
  <2> HIDE DEF sk
  <2> QED BY <2>1, <2>2, <2>3
<1> DEFINE own == {x \in ToSet(es) : x.kind = sk}
           hs == {x.heads : x \in own}
<1>12. hs = {1}
  <2>1. ToSet(es) = {es[b] : b \in 1 .. j}
    BY <1>2 DEF ToSet
  <2>2. \A b \in 1 .. j : es[b].heads = 1
    <3> SUFFICES ASSUME NEW b \in 1 .. j PROVE es[b].heads = 1
      OBVIOUS
    <3> HIDE DEF sk
    <3>1. CASE e[b - 1] < e[b]
      <4>1. es[b] = LayerOf(sk, Run(e[b - 1], e[b]), 1)
        BY <1>4, <3>1
      <4> QED BY <4>1 DEF LayerOf
    <3>2. CASE ~ (e[b - 1] < e[b])
      <4>1. Skip.heads = 1
        BY DEF LayerOf, Skip, Layer
      <4> QED BY <1>4, <3>2, <4>1
    <3> QED BY <3>1, <3>2
  <2>3. \E x \in ToSet(es) : x.kind = sk
    <3> HIDE DEF sk
    <3> QED BY <1>11
  <2> HIDE DEF sk
  <2> QED BY <2>1, <2>2, <2>3
<1>13. Max(hs) = 1
  <2> HIDE DEF hs
  <2>1. Max(hs) \in hs
    BY <1>12, MaxOfSome
  <2> QED BY <1>12, <2>1
<1>14. Joined(es) = LayerOf(sk, Concat(es, sk), Max(hs))
  <2> DEFINE K(c) == LayerOf(c, Concat(es, c), Max({x.heads : x \in {d \in ToSet(es) : d.kind = c}}))
  <2>1. Joined(es) = CASE "quant" \in kinds -> K("quant")
       [] "quant" \notin kinds /\ "kv" \in kinds -> K("kv")
       [] kinds \cap {"quant", "kv"} = {} /\ "rot" \in kinds -> K("rot")
       [] kinds \cap Positional = {} /\ "ssm" \in kinds ->
            Last(Only(es, {x \in ToSet(es) : x.kind = "ssm"}))
       [] OTHER -> Absent
    BY DEF Joined
  <2>2. K(sk) = LayerOf(sk, Concat(es, sk), Max(hs))
    OBVIOUS
  <2> HIDE DEF K, kinds, hs, own, sk
  <2>3. Joined(es) = K(sk)
    <3>1. CASE sk = "quant"
      BY <1>11, <2>1, <3>1
    <3>2. CASE sk = "kv"
      BY <1>11, <2>1, <3>2
    <3>3. CASE sk = "rot"
      BY <1>11, <2>1, <3>3 DEF Positional
    <3> QED BY <1>5, <3>1, <3>2, <3>3 DEF sk
  <2> QED BY <2>2, <2>3
<1> HIDE DEF hs, own, sk
<1> QED
  BY <1>9, <1>13, <1>14 DEF es, sk

\* Of the states of an SSM layer, one.
LEMMA JoinedStates ==
  ASSUME NEW j \in Nat \ {0}, NEW es, es = [b \in 1 .. j |-> es[b]],
         \A b \in 1 .. j : es[b] = Skip \/ es[b] \in Leaf({"ssm"})
  PROVE  Joined(es) = Absent \/ Joined(es) \in Leaf({"ssm"})
<1> DEFINE S == ToSet(es)
           kinds == {x.kind : x \in S}
           X == {x \in S : x.kind = "ssm"}
<1>1. S = {es[b] : b \in 1 .. j}
  BY DEF ToSet
<1>2. Skip.kind = "skip"
  BY DEF Skip, Layer, LayerOf
<1>3. \A x \in S : x.kind \in {"skip", "ssm"} /\ (x.kind = "ssm" => x \in Leaf({"ssm"}))
  <2>1. \A x \in Leaf({"ssm"}) : x.kind = "ssm"
    BY DEF Leaf
  <2> QED BY <1>1, <1>2, <2>1
<1>4. es \in Seq(S)
  <2>1. \A b \in 1 .. j : es[b] \in S
    BY <1>1
  <2> HIDE DEF S
  <2>2. es \in [1 .. j -> S]
    BY <2>1
  <2> QED BY <2>2, AsList
<1> HIDE DEF S
<1>5. kinds \subseteq {"skip", "ssm"} /\ ("ssm" \in kinds => X # {})
  BY <1>3
<1>6. Joined(es) = IF "ssm" \in kinds THEN Last(Only(es, X)) ELSE Absent
  <2> DEFINE K(c) == LayerOf(c, Concat(es, c), Max({x.heads : x \in {d \in S : d.kind = c}}))
  <2>1. Joined(es) = CASE "quant" \in kinds -> K("quant")
       [] "quant" \notin kinds /\ "kv" \in kinds -> K("kv")
       [] kinds \cap {"quant", "kv"} = {} /\ "rot" \in kinds -> K("rot")
       [] kinds \cap Positional = {} /\ "ssm" \in kinds -> Last(Only(es, X))
       [] OTHER -> Absent
    BY DEF Joined, S
  <2> HIDE DEF K, kinds, X
  <2> QED BY <1>5, <2>1 DEF Positional
<1>7. ASSUME "ssm" \in kinds PROVE Last(Only(es, X)) \in Leaf({"ssm"})
  <2>1. X # {} /\ X \subseteq S /\ X \subseteq Leaf({"ssm"})
    BY <1>3, <1>5, <1>7
  <2> DEFINE o == Only(es, X)
  <2>2. o \in Seq(S) /\ ToSet(o) = S \cap X
    BY <1>4, OnlyFacts DEF S
  <2> HIDE DEF X, o
  <2>3. ToSet(o) = X /\ X # {}
    BY <2>1, <2>2
  <2>4. DOMAIN o = 1 .. Len(o) /\ Len(o) \in Nat
    BY <2>2, LenProperties
  <2>5. Len(o) # 0
    BY <2>3, <2>4 DEF ToSet
  <2>6. o[Len(o)] \in X
    BY <2>3, <2>4, <2>5 DEF ToSet
  <2>7. Last(o) = o[Len(o)]
    BY DEF Last
  <2> QED BY <2>1, <2>6, <2>7 DEF o
<1> QED
  BY <1>6, <1>7

\* The kinds of the layers that hold all the positions stored.
Attending == {k \in {"kv", "tq", "rot"} : k = "rot" => "rot" \in ToSet(model)}

\* A block with the positions after lo up to hi, cut from a cache with layers f.
BlockFits(data, f, lo, hi) ==
  /\ data = Built(f)
  /\ \A k \in LeafKinds : f[k].kind # "list"
  /\ \A k \in Attending : f[k] = Bit(k, lo, hi)
  /\ f["ssm"] = Skip \/ f["ssm"] \in Leaf({"ssm"})

\* The layers that such blocks give.
Given(F, state) ==
  [k \in LeafKinds |-> IF k = "ssm" THEN state ELSE LayerOf(StoredKind(k), Run(0, F), 1)]
AllLayers(F, state) ==
  [i \in DOMAIN model |->
     IF model[i] = "list" THEN List([s \in DOMAIN SubKinds |-> Given(F, state)[SubKinds[s]]])
                          ELSE Given(F, state)[model[i]]]

Fitting(blocks, fs, j, F) ==
  /\ j \in Nat \ {0} /\ F \in Nat \ {0} /\ (j - 1) * BlockSize <= F
  /\ blocks = [b \in 1 .. j |-> blocks[b]]
  /\ \A b \in 1 .. j :
       BlockFits(blocks[b], fs[b], (b - 1) * BlockSize, IF b = j THEN F ELSE b * BlockSize)

\* What they hold of one kind of layer, and the state that they give.
Parts(fs, j, k) == [b \in 1 .. j |-> fs[b][k]]
State(fs, j) == Joined(Parts(fs, j, "ssm"))

LEMMA JoinedGiven ==
  ASSUME Fixed, NEW blocks, NEW fs, NEW j, NEW F, Fitting(blocks, fs, j, F),
         NEW k \in Attending \cup {"ssm"}
  PROVE  Joined(Parts(fs, j, k)) = Given(F, State(fs, j))[k]
<1>1. CASE k = "ssm"
  BY <1>1 DEF State, Given, LeafKinds
<1>2. CASE k # "ssm"
  <2>1. k \in Attending /\ k \in LeafKinds
    BY <1>2 DEF Attending, LeafKinds
  <2>2. Parts(fs, j, k) = Pieces(k, j, F)
    <3>1. \A b \in 1 .. j : fs[b][k] = Bit(k, (b - 1) * BlockSize, IF b = j THEN F ELSE b * BlockSize)
      BY <2>1 DEF Fitting, BlockFits
    <3> QED BY <3>1 DEF Pieces, Parts
  <2>3. Joined(Pieces(k, j, F)) = LayerOf(StoredKind(k), Run(0, F), 1)
    BY <1>2, <2>1, JoinedBits DEF Fitting
  <2> QED BY <1>2, <2>1, <2>2, <2>3 DEF Given
<1> QED
  BY <1>1, <1>2

LEMMA LayersGiven ==
  ASSUME Fixed, NEW blocks, NEW fs, NEW j, NEW F, Fitting(blocks, fs, j, F)
  PROVE  /\ DOMAIN blocks[1] = DOMAIN model
         /\ \A i \in DOMAIN model :
              LET es == [b \in DOMAIN blocks |-> blocks[b][i]]
              IN (IF blocks[1][i].kind = "list" THEN JoinedList(es) ELSE Joined(es))
                   = AllLayers(F, State(fs, j))[i]
<1>0. DOMAIN blocks = 1 .. j /\ 1 \in 1 .. j /\ j \in Nat
  BY DEF Fitting
<1>1. \A b \in 1 .. j : blocks[b] = Built(fs[b]) /\ \A k \in LeafKinds : fs[b][k].kind # "list"
  BY DEF Fitting, BlockFits
<1>2. DOMAIN blocks[1] = DOMAIN model
  BY <1>0, <1>1 DEF Built
<1>4. \A k \in Attending \cup {"ssm"} : Joined(Parts(fs, j, k)) = Given(F, State(fs, j))[k]
  <2> SUFFICES ASSUME NEW k \in Attending \cup {"ssm"}
               PROVE  Joined(Parts(fs, j, k)) = Given(F, State(fs, j))[k]
    OBVIOUS
  <2> QED BY JoinedGiven
<1>3. ASSUME NEW i \in DOMAIN model
      PROVE  LET es == [b \in DOMAIN blocks |-> blocks[b][i]]
             IN (IF blocks[1][i].kind = "list" THEN JoinedList(es) ELSE Joined(es))
                  = AllLayers(F, State(fs, j))[i]
  <2> DEFINE es == [b \in DOMAIN blocks |-> blocks[b][i]]
             G == Given(F, State(fs, j))
             k == model[i]
  <2>1. /\ \A b \in 1 .. j : k = "list" =>
             blocks[b][i].kind = "list" /\ blocks[b][i].subs = [s \in DOMAIN SubKinds |-> fs[b][SubKinds[s]]]
        /\ \A b \in 1 .. j : k # "list" => blocks[b][i] = fs[b][k] /\ blocks[b][i].kind # "list"
    <3> SUFFICES ASSUME NEW b \in 1 .. j
                 PROVE /\ k = "list" =>
                            /\ blocks[b][i].kind = "list"
                            /\ blocks[b][i].subs = [s \in DOMAIN SubKinds |-> fs[b][SubKinds[s]]]
                       /\ k # "list" => blocks[b][i] = fs[b][k] /\ blocks[b][i].kind # "list"
      OBVIOUS
    <3> DEFINE f == fs[b]
    <3>1. blocks[b] = Built(f) /\ \A c \in LeafKinds : f[c].kind # "list"
      BY <1>1
    <3> HIDE DEF f
    <3>2. /\ k = "list" =>
               /\ Built(f)[i].kind = "list"
               /\ Built(f)[i].subs = [s \in DOMAIN SubKinds |-> f[SubKinds[s]]]
          /\ k # "list" => Built(f)[i] = f[k] /\ Built(f)[i].kind # "list"
      BY <3>1, BuiltPlaces
    <3> QED BY <3>1, <3>2 DEF f
  <2>2. CASE k = "list"
    <3>1. blocks[1][i].kind = "list"
      BY <1>0, <2>1, <2>2
    <3>2. \A s \in DOMAIN SubKinds :
            /\ [b \in DOMAIN es |-> es[b].subs[s]] = [b \in 1 .. j |-> fs[b][SubKinds[s]]]
            /\ Joined([b \in 1 .. j |-> fs[b][SubKinds[s]]]) = G[SubKinds[s]]
      <4> SUFFICES ASSUME NEW s \in DOMAIN SubKinds
                   PROVE /\ [b \in DOMAIN es |-> es[b].subs[s]] = [b \in 1 .. j |-> fs[b][SubKinds[s]]]
                         /\ Joined([b \in 1 .. j |-> fs[b][SubKinds[s]]]) = G[SubKinds[s]]
        OBVIOUS
      <4>1. SubKinds[s] \in Attending \cup {"ssm"}
        BY ModelKinds DEF Attending
      <4>2. \A b \in 1 .. j : es[b].subs[s] = fs[b][SubKinds[s]]
        BY <1>0, <2>1, <2>2
      <4>3. DOMAIN es = 1 .. j
        BY <1>0
      <4>4. Joined([b \in 1 .. j |-> fs[b][SubKinds[s]]]) = G[SubKinds[s]]
        BY <1>4, <4>1 DEF Parts
      <4> HIDE DEF es, G
      <4> QED BY <4>2, <4>3, <4>4
    <3>3. JoinedList(es) = List([s \in DOMAIN SubKinds |-> Joined([b \in DOMAIN es |-> es[b].subs[s]])])
      BY DEF JoinedList
    <3> HIDE DEF es, G
    <3>4. [s \in DOMAIN SubKinds |-> Joined([b \in DOMAIN es |-> es[b].subs[s]])]
            = [s \in DOMAIN SubKinds |-> G[SubKinds[s]]]
      BY <3>2
    <3>5. JoinedList(es) = List([s \in DOMAIN SubKinds |-> G[SubKinds[s]]])
      BY <3>3, <3>4
    <3>6. AllLayers(F, State(fs, j))[i] = List([s \in DOMAIN SubKinds |-> G[SubKinds[s]]])
      BY <2>2 DEF AllLayers, G
    <3> QED BY <3>1, <3>5, <3>6 DEF es
  <2>3. CASE k # "list"
    <3>1. blocks[1][i].kind # "list"
      BY <1>0, <2>1, <2>3
    <3>2. es = [b \in 1 .. j |-> fs[b][k]]
      BY <1>0, <2>1, <2>3
    <3>3. k \in Attending \cup {"ssm"}
      BY <2>3, ModelKinds DEF Attending, LeafKinds, ToSet
    <3>4. Joined([b \in 1 .. j |-> fs[b][k]]) = G[k]
      BY <1>4, <3>3 DEF Parts
    <3>5. AllLayers(F, State(fs, j))[i] = G[k]
      BY <2>3 DEF AllLayers
    <3> HIDE DEF es, G
    <3> QED BY <3>1, <3>2, <3>4, <3>5 DEF es
  <2> QED BY <2>2, <2>3
<1> QED
  BY <1>2, <1>3

LEMMA LeafIsLayer == \A kinds \in SUBSET Kinds : Leaf(kinds) \subseteq Layers /\ Absent \notin Leaf(kinds)
<1> SUFFICES ASSUME NEW kinds \in SUBSET Kinds, NEW l \in Leaf(kinds) PROVE l \in Layers /\ l # Absent
  OBVIOUS
<1>1. PICK k \in Kinds, p \in Seq(Nat) : l = [kind |-> k, pos |-> p, heads |-> 1, subs |-> << >>]
  BY DEF Leaf
<1>2. l \in Layers
  BY <1>1 DEF Layers
<1> QED
  BY <1>2, DataAssumption

\* What a layer becomes.
LEMMA GivenFacts ==
  ASSUME Fixed, NEW F \in Nat, NEW st, st = Absent \/ st \in Leaf({"ssm"}), NEW k \in LeafKinds
  PROVE  /\ k = "ssm" => Given(F, st)[k] = st
         /\ k # "ssm" => /\ Given(F, st)[k] = LayerOf(StoredKind(k), Run(0, F), 1)
                         /\ Given(F, st)[k] \in Leaf({StoredKind(k)})
                         /\ Given(F, st)[k] # Absent
         /\ Given(F, st)[k] \in Layers \cup {Absent}
<1>1. k = "ssm" => Given(F, st)[k] = st
  BY DEF Given
<1>2. k # "ssm" => Given(F, st)[k] = LayerOf(StoredKind(k), Run(0, F), 1)
  BY DEF Given
<1>3. LayerOf(StoredKind(k), Run(0, F), 1) \in Leaf({StoredKind(k)})
  <2>1. Run(0, F) \in Seq(Nat)
    BY RunFacts
  <2> QED BY <2>1 DEF LayerOf, Leaf
<1>4. {StoredKind(k)} \in SUBSET Kinds /\ {"ssm"} \in SUBSET Kinds
  BY DEF StoredKind, Kinds, LeafKinds
<1> QED
  BY <1>1, <1>2, <1>3, <1>4, LeafIsLayer

LEMMA WholeGiven ==
  ASSUME Fixed, NEW blocks, NEW fs, NEW j, NEW F, Fitting(blocks, fs, j, F),
         Reconstructed(blocks) # Absent, NEW st, st = State(fs, j)
  PROVE  /\ st = Absent \/ st \in Leaf({"ssm"})
         /\ Reconstructed(blocks) = Without(AllLayers(F, st), {Absent})
         /\ \A i \in DOMAIN model, s \in DOMAIN SubKinds :
              model[i] = "list" => Given(F, st)[SubKinds[s]] # Absent
<1> DEFINE all == AllLayers(F, st)
           G == Given(F, st)
           found == Without(all, {Absent})
           es(i) == [b \in DOMAIN blocks |-> blocks[b][i]]
           layers == [i \in DOMAIN blocks[1] |->
                        IF blocks[1][i].kind = "list" THEN JoinedList(es(i)) ELSE Joined(es(i))]
<1>1. st = Absent \/ st \in Leaf({"ssm"})
  <2>1. \A b \in 1 .. j : fs[b]["ssm"] = Skip \/ fs[b]["ssm"] \in Leaf({"ssm"})
    BY DEF Fitting, BlockFits
  <2> DEFINE z == Parts(fs, j, "ssm")
  <2>2. z = [b \in 1 .. j |-> z[b]] /\ \A b \in 1 .. j : z[b] = Skip \/ z[b] \in Leaf({"ssm"})
    BY <2>1 DEF Parts
  <2>3. j \in Nat \ {0}
    BY DEF Fitting
  <2>4. st = Joined(z)
    BY DEF State
  <2> HIDE DEF z
  <2> QED BY <2>2, <2>3, <2>4, JoinedStates
<1>2. layers = all
  <2>1. all = [i \in DOMAIN model |-> all[i]]
    BY DEF AllLayers
  <2>2. /\ DOMAIN blocks[1] = DOMAIN model
        /\ \A i \in DOMAIN model :
             (IF blocks[1][i].kind = "list" THEN JoinedList(es(i)) ELSE Joined(es(i))) = all[i]
    BY LayersGiven
  <2> HIDE DEF es, all
  <2> QED BY <2>1, <2>2
<1>3. Reconstructed(blocks) =
        IF \/ Without(layers, {Absent}) = << >>
           \/ \E i \in DOMAIN Without(layers, {Absent}) :
                \/ Absent \in ToSet(Without(layers, {Absent})[i].subs)
                \/ \E l \in Inside(Without(layers, {Absent})[i]) : l.heads # 1
          THEN Absent ELSE Without(layers, {Absent})
  BY DEF Reconstructed
<1> HIDE DEF layers
<1>4. /\ Reconstructed(blocks) = found
      /\ \A i \in DOMAIN found : Absent \notin ToSet(found[i].subs)
  BY <1>2, <1>3
<1>5. F \in Nat
  BY DEF Fitting
<1>6. ASSUME NEW i \in DOMAIN model, model[i] = "list", NEW s \in DOMAIN SubKinds, G[SubKinds[s]] = Absent
      PROVE  FALSE
  <2> DEFINE subs == [x \in DOMAIN SubKinds |-> G[SubKinds[x]]]
             L == List(subs)
  <2>1. subs \in Seq(Layers \cup {Absent})
    <3>1. \A x \in DOMAIN SubKinds : G[SubKinds[x]] \in Layers \cup {Absent}
      <4> SUFFICES ASSUME NEW x \in DOMAIN SubKinds PROVE G[SubKinds[x]] \in Layers \cup {Absent}
        OBVIOUS
      <4>1. SubKinds[x] \in LeafKinds
        BY ModelKinds
      <4> QED BY <1>1, <1>5, <4>1, GivenFacts
    <3>2. DOMAIN SubKinds = 1 .. Len(SubKinds) /\ Len(SubKinds) \in Nat
      BY ModelKinds
    <3> HIDE DEF G
    <3>3. subs \in [1 .. Len(SubKinds) -> Layers \cup {Absent}]
      BY <3>1, <3>2
    <3> HIDE DEF subs
    <3> QED BY <3>2, <3>3, AsList
  <2>2. Absent \in ToSet(subs)
    <3>1. subs[s] = Absent /\ s \in DOMAIN subs
      BY <1>6
    <3> HIDE DEF subs
    <3> QED BY <3>1 DEF ToSet
  <2>3. all[i] = L
    BY <1>6 DEF AllLayers
  <2> HIDE DEF subs
  <2>4. L.subs = subs /\ L # Absent
    <3>1. L = [kind |-> "list", pos |-> << >>, heads |-> 1, subs |-> subs]
      BY DEF List, Layer, LayerOf
    <3>2. L \in [kind : {"list"}, pos : {<< >>}, heads : {1}, subs : Seq(Layers \cup {Absent})]
      BY <2>1, <3>1
    <3> QED BY <3>1, <3>2, DataAssumption
  <2> HIDE DEF L
  <2>5. L \in ToSet(all)
    <3>1. DOMAIN all = DOMAIN model
      BY DEF AllLayers
    <3> HIDE DEF all
    <3> QED BY <1>6, <2>3, <3>1 DEF ToSet
  <2>6. all \in Seq(ToSet(all))
    <3>1. DOMAIN all = 1 .. Len(model) /\ Len(model) \in Nat /\ all = [x \in DOMAIN all |-> all[x]]
      BY ModelKinds DEF AllLayers
    <3> HIDE DEF all
    <3> DEFINE S == ToSet(all)
    <3>2. \A x \in DOMAIN all : all[x] \in S
      BY DEF ToSet
    <3> HIDE DEF S
    <3>3. all \in [1 .. Len(model) -> S]
      BY <3>1, <3>2
    <3>4. all \in Seq(S)
      BY <3>1, <3>3, AsList
    <3> QED BY <3>4 DEF S
  <2> HIDE DEF all
  <2>7. L \in ToSet(Without(all, {Absent}))
    <3>1. ToSet(Without(all, {Absent})) = ToSet(all) \ {Absent}
      BY <2>6, WithoutFacts
    <3> QED BY <2>4, <2>5, <3>1
  <2>8. PICK x \in DOMAIN found : found[x] = L
    <3> HIDE DEF found
    <3>1. L \in ToSet(found)
      BY <2>7 DEF found
    <3> QED BY <3>1 DEF ToSet
  <2> HIDE DEF found
  <2> QED BY <1>4, <2>2, <2>4, <2>8
<1> HIDE DEF G
<1> QED
  BY <1>1, <1>4, <1>6 DEF G

-----------------------------------------------------------------------------
\* What is missing from a hit, and what is put in its place.

\* A list loses nothing that is not in it.
LEMMA WithoutNone ==
  ASSUME NEW S, NEW s \in Seq(S), NEW X, ToSet(s) \cap X = {}
  PROVE  Without(s, X) = s
<1> DEFINE N == Len(s)
           Y == ToSet(s) \ X
           T == 1 .. N
           o == Only(s, Y)
<1>1. N \in Nat /\ DOMAIN s = 1 .. N
  BY LenProperties
<1>2. T = {i \in 1 .. Len(s) : s[i] \in Y}
  BY <1>1 DEF ToSet
<1>3. o \in Seq(S) /\ Selected(s, Y, T)
  <2> HIDE DEF Y
  <2> QED BY <1>2, OnlyRank
<1>4. Ranked(T, N) /\ Cardinality(T) = N
  <2>1. 1 \in Int /\ N \in Int /\ Cardinality(1 .. N) = IF 1 > N THEN 0 ELSE N - 1 + 1
    BY <1>1, FS_Interval
  <2>2. Cardinality(T) = N
    BY <1>1, <2>1
  <2>3. Ranked(T, N)
    <3> HIDE DEF N
    <3> QED BY <1>1, RankFacts
  <2> QED BY <2>2, <2>3
<1>5. \A i \in T : Rank(T, i) = i
  <2> SUFFICES ASSUME NEW i \in T PROVE Rank(T, i) = i
    OBVIOUS
  <2>1. {k \in T : k <= i} = 1 .. i /\ i \in Nat /\ 1 \in Int
    BY <1>1
  <2>2. Cardinality(1 .. i) = i
    BY <2>1, FS_Interval
  <2> HIDE DEF T
  <2> QED BY <2>1, <2>2 DEF Rank
<1>6. Len(o) = N /\ \A i \in 1 .. N : o[i] = s[i]
  <2> HIDE DEF N, Y
  <2> QED BY <1>3, <1>4, <1>5 DEF Selected
<1>7. o = s
  <2> HIDE DEF o
  <2>1. DOMAIN o = 1 .. N /\ o = [i \in 1 .. N |-> o[i]]
    BY <1>3, <1>6, LenProperties
  <2>2. s = [i \in 1 .. N |-> s[i]]
    BY <1>1, LenProperties
  <2> HIDE DEF N
  <2> QED BY <1>6, <2>1, <2>2
<1> QED
  BY <1>7 DEF Without

Shapely == HybridsFlat /\ PlainVision

\* An attention layer before it is compressed again.
Ready(k, F) == LayerOf(IF k = "rot" THEN "rot" ELSE "kv", Run(0, F), 1)

LEMMA ModelShape ==
  ASSUME Fixed, Shapely
  PROVE  /\ Hybrid => \A i \in DOMAIN model : model[i] # "list"
         /\ vision => \A i \in DOMAIN model : model[i] \in {"kv", "tq", "ssm"}
         /\ \A i \in DOMAIN model : i \in KVPositions <=> model[i] \in {"kv", "tq", "rot"}
         /\ \A i \in DOMAIN model : model[i] \in {"kv", "tq", "rot"} => model[i] \in Attending
         /\ \A k \in Attending : k = "rot" => ~ vision
<1>1. vision => \A i \in DOMAIN model : model[i] \in {"kv", "tq", "ssm"}
  BY DEF Shapely, PlainVision, Fixed, ToSet
<1>2. Hybrid => \A i \in DOMAIN model : model[i] # "list"
  <2>1. CASE vision
    BY <1>1, <2>1
  <2>2. CASE ~ vision
    BY <2>2 DEF Hybrid, Fixed, ToSet, Shapely, HybridsFlat
  <2> QED BY <2>1, <2>2
<1>3. \A i \in DOMAIN model : i \in KVPositions <=> model[i] \in {"kv", "tq", "rot"}
  BY <1>1, ModelKinds DEF KVPositions, KVLike
<1>4. \A i \in DOMAIN model : model[i] \in {"kv", "tq", "rot"} => model[i] \in Attending
  BY DEF Attending, ToSet
<1>5. \A k \in Attending : k = "rot" => ~ vision
  BY <1>1 DEF Attending, ToSet
<1> QED
  BY <1>1, <1>2, <1>3, <1>4, <1>5

\* A layer taken out of its quantized form.
Plain(l) == IF l.kind = "quant" THEN [l EXCEPT !.kind = "kv"] ELSE l

LEMMA DequantizedFacts ==
  ASSUME Fixed, Shapely, NEW F \in Nat, NEW st
  PROVE  /\ \A cache, i : i \in DOMAIN cache =>
              /\ cache[i].kind # "list" => Dequantized(cache)[i] = Plain(cache[i])
              /\ cache[i].kind = "list" => Dequantized(cache)[i] =
                   List([s \in DOMAIN cache[i].subs |-> Plain(cache[i].subs[s])])
         /\ \A cache : DOMAIN Dequantized(cache) = DOMAIN cache
         /\ \A k \in Attending : /\ Given(F, st)[k].kind # "list"
                                 /\ Plain(Given(F, st)[k]) = Ready(k, F)
         /\ \A l \in Leaf({"ssm"}) : Plain(l) = l /\ l.kind = "ssm"
<1>1. \A cache, i : i \in DOMAIN cache =>
        /\ cache[i].kind # "list" => Dequantized(cache)[i] = Plain(cache[i])
        /\ cache[i].kind = "list" => Dequantized(cache)[i] =
             List([s \in DOMAIN cache[i].subs |-> Plain(cache[i].subs[s])])
  BY DEF Dequantized, Leaves, Plain
<1>2. \A cache : DOMAIN Dequantized(cache) = DOMAIN cache
  BY DEF Dequantized
<1>3. ASSUME NEW k \in Attending
      PROVE  Given(F, st)[k].kind # "list" /\ Plain(Given(F, st)[k]) = Ready(k, F)
  <2>1. k \in LeafKinds /\ k # "ssm" /\ k \in {"kv", "tq", "rot"} /\ (k = "rot" => ~ vision)
    BY ModelShape DEF Attending, LeafKinds
  <2>2. Given(F, st)[k] = [kind |-> StoredKind(k), pos |-> Run(0, F), heads |-> 1, subs |-> << >>]
    BY <2>1 DEF Given, LayerOf
  <2>3. StoredKind(k) \in {"quant", "kv", "rot"} /\ (k = "rot" => StoredKind(k) = "rot")
        /\ (k # "rot" => StoredKind(k) \in {"quant", "kv"})
    BY <2>1 DEF StoredKind
  <2> QED BY <2>2, <2>3 DEF Plain, Ready, LayerOf
<1>4. \A l \in Leaf({"ssm"}) : Plain(l) = l /\ l.kind = "ssm"
  BY DEF Leaf, Plain
<1> QED
  BY <1>1, <1>2, <1>3, <1>4

LEMMA RecompressedFacts ==
  ASSUME Fixed, Shapely, NEW F \in Nat \ {0}, NEW cache
  PROVE  /\ DOMAIN Recompressed(cache) = DOMAIN cache
         /\ \A i \in DOMAIN model \cap DOMAIN cache :
              /\ model[i] \in {"kv", "tq", "rot"} /\ cache[i] = Ready(model[i], F) =>
                   Recompressed(cache)[i] = LayerOf(model[i], Run(0, F), 1)
              /\ cache[i].kind # "kv" => Recompressed(cache)[i] = cache[i]
<1>1. DOMAIN Recompressed(cache) = DOMAIN cache
  BY DEF Recompressed
<1>2. ASSUME NEW i \in DOMAIN model \cap DOMAIN cache, cache[i].kind # "kv"
      PROVE  Recompressed(cache)[i] = cache[i]
  BY <1>2 DEF Recompressed
<1>3. Run(0, F) # << >>
  <2>1. Len(Run(0, F)) = F
    BY RunParts
  <2> QED BY <2>1
<1>4. ASSUME NEW i \in DOMAIN model \cap DOMAIN cache, model[i] \in {"kv", "tq", "rot"},
             cache[i] = Ready(model[i], F)
      PROVE  Recompressed(cache)[i] = LayerOf(model[i], Run(0, F), 1)
  <2>1. cache[i] = [kind |-> IF model[i] = "rot" THEN "rot" ELSE "kv", pos |-> Run(0, F),
                    heads |-> 1, subs |-> << >>]
    BY <1>4 DEF Ready, LayerOf
  <2>2. Recompressed(cache)[i] =
          IF cache[i].kind = "kv" /\ cache[i].pos # << >> /\ model[i] = "tq"
            THEN [cache[i] EXCEPT !.kind = "tq"] ELSE cache[i]
    BY DEF Recompressed
  <2> QED BY <1>3, <1>4, <2>1, <2>2 DEF LayerOf
<1> QED
  BY <1>1, <1>2, <1>4

LEMMA AllFacts ==
  ASSUME Fixed, NEW F, NEW st
  PROVE  /\ DOMAIN AllLayers(F, st) = DOMAIN model
         /\ AllLayers(F, st) \in Seq(ToSet(AllLayers(F, st)))
         /\ Len(AllLayers(F, st)) = Len(model)
<1> DEFINE all == AllLayers(F, st)
           S == ToSet(all)
<1>1. DOMAIN all = 1 .. Len(model) /\ DOMAIN all = DOMAIN model /\ Len(model) \in Nat
      /\ all = [x \in DOMAIN all |-> all[x]]
  BY ModelKinds DEF AllLayers
<1> HIDE DEF all
<1>2. \A x \in DOMAIN all : all[x] \in S
  BY DEF ToSet
<1> HIDE DEF S
<1>3. all \in [1 .. Len(model) -> S]
  BY <1>1, <1>2
<1>4. all \in Seq(S) /\ Len(all) = Len(model)
  BY <1>1, <1>3, AsList
<1> QED
  BY <1>1, <1>4 DEF S, all

\* Nothing is missing from a cache with a state, or without SSM layers.
LEMMA NothingMissing ==
  ASSUME Fixed, Shapely, NEW F \in Nat, NEW st, st = Absent \/ st \in Leaf({"ssm"}),
         \A i \in DOMAIN model, s \in DOMAIN SubKinds :
           model[i] = "list" => Given(F, st)[SubKinds[s]] # Absent,
         st # Absent \/ ~ Hybrid
  PROVE  Without(AllLayers(F, st), {Absent}) = AllLayers(F, st)
<1> DEFINE all == AllLayers(F, st)
           G == Given(F, st)
<1>1. ASSUME NEW i \in DOMAIN model PROVE all[i] # Absent
  <2>1. CASE model[i] = "list"
    <3> DEFINE subs == [s \in DOMAIN SubKinds |-> G[SubKinds[s]]]
               L == List(subs)
    <3>1. all[i] = L
      BY <2>1 DEF AllLayers
    <3>2. \A x \in DOMAIN SubKinds : G[SubKinds[x]] \in Layers \cup {Absent}
      <4> SUFFICES ASSUME NEW x \in DOMAIN SubKinds PROVE G[SubKinds[x]] \in Layers \cup {Absent}
        OBVIOUS
      <4>1. SubKinds[x] \in LeafKinds
        BY ModelKinds
      <4> QED BY <4>1, GivenFacts
    <3>3. DOMAIN SubKinds = 1 .. Len(SubKinds) /\ Len(SubKinds) \in Nat
      BY ModelKinds
    <3> HIDE DEF G
    <3>4. subs \in [1 .. Len(SubKinds) -> Layers \cup {Absent}]
      BY <3>2, <3>3
    <3> HIDE DEF subs
    <3>5. subs \in Seq(Layers \cup {Absent})
      BY <3>3, <3>4, AsList
    <3>6. L = [kind |-> "list", pos |-> << >>, heads |-> 1, subs |-> subs]
      BY DEF List, Layer, LayerOf
    <3>7. L \in [kind : {"list"}, pos : {<< >>}, heads : {1}, subs : Seq(Layers \cup {Absent})]
      BY <3>5, <3>6
    <3> QED BY <3>1, <3>7, DataAssumption
  <2>2. CASE model[i] # "list"
    <3>1. model[i] \in LeafKinds /\ all[i] = G[model[i]]
      BY <2>2, ModelKinds DEF AllLayers
    <3>2. CASE model[i] # "ssm"
      <4> DEFINE k == model[i]
      <4>2. k \in LeafKinds /\ k # "ssm"
        BY <3>1, <3>2
      <4> HIDE DEF k
      <4>3. Given(F, st)[k] # Absent
        BY <4>2, GivenFacts
      <4>1. G[model[i]] # Absent
        BY <4>3 DEF k
      <4> QED BY <3>1, <4>1
    <3>3. CASE model[i] = "ssm"
      <4>1. Hybrid
        BY <3>3, OthersFacts
      <4>2. G[model[i]] = st
        BY <3>1, <3>3, GivenFacts
      <4> QED BY <3>1, <4>1, <4>2
    <3> QED BY <3>2, <3>3
  <2> QED BY <2>1, <2>2
<1>2. all \in Seq(ToSet(all)) /\ DOMAIN all = DOMAIN model
  BY AllFacts
<1> HIDE DEF all
<1>3. ToSet(all) \cap {Absent} = {}
  BY <1>1, <1>2 DEF ToSet
<1>4. Without(all, {Absent}) = all
  BY <1>2, <1>3, WithoutNone
<1> QED
  BY <1>4 DEF all

\* Without a state, what is left is the attention layers, in their order.
LEMMA StatesMissing ==
  ASSUME Fixed, Shapely, NEW F \in Nat, Hybrid
  PROVE  LET left == Without(AllLayers(F, Absent), {Absent})
         IN /\ left \in Seq(ToSet(AllLayers(F, Absent)))
            /\ Len(left) = Cardinality(KVPositions) /\ Cardinality(KVPositions) # Len(model)
            /\ \A i \in KVPositions : /\ Rank(KVPositions, i) \in 1 .. Len(left)
                                      /\ left[Rank(KVPositions, i)] = Given(F, Absent)[model[i]]
<1> DEFINE all == AllLayers(F, Absent)
           S == ToSet(all)
           X == S \ {Absent}
           left == Only(all, X)
<1>1. DOMAIN all = DOMAIN model /\ all \in Seq(S) /\ Len(all) = Len(model)
  BY AllFacts
<1>2. DOMAIN model = 1 .. Len(model) /\ Len(model) \in Nat
  BY ModelKinds
<1>3. \A i \in DOMAIN model : all[i] = Given(F, Absent)[model[i]]
  BY ModelShape DEF AllLayers
<1>4. ASSUME NEW i \in DOMAIN model PROVE i \in KVPositions <=> all[i] # Absent
  <2>1. model[i] \in LeafKinds
    BY ModelKinds, ModelShape
  <2>2. /\ model[i] = "ssm" => Given(F, Absent)[model[i]] = Absent
        /\ model[i] # "ssm" => Given(F, Absent)[model[i]] # Absent
    BY <2>1, GivenFacts
  <2>3. i \in KVPositions <=> model[i] # "ssm"
    BY <2>1, ModelShape DEF LeafKinds
  <2> QED BY <1>3, <2>2, <2>3
<1> HIDE DEF all
<1>5. KVPositions \subseteq 1 .. Len(model)
  BY <1>2, OthersFacts
<1>6. KVPositions = {i \in 1 .. Len(all) : all[i] \in X}
  BY <1>1, <1>2, <1>4, <1>5 DEF ToSet
<1>7. left \in Seq(S) /\ Selected(all, X, KVPositions)
  <2> HIDE DEF X, S
  <2> QED BY <1>1, <1>6, OnlyRank
<1>8. Ranked(KVPositions, Len(model))
  BY <1>2, <1>5, RankFacts
<1>9. Len(left) = Cardinality(KVPositions)
  BY <1>7 DEF Selected
<1>10. Cardinality(KVPositions) # Len(model)
  <2>1. KVPositions # 1 .. Len(model)
    <3>1. CASE vision
      BY <1>2, <3>1 DEF Hybrid
    <3>2. CASE ~ vision
      <4>1. PICK i \in DOMAIN model : model[i] = "ssm"
        BY <3>2 DEF Hybrid
      <4>2. i \notin KVPositions
        BY <4>1, ModelShape
      <4> QED BY <1>2, <4>1, <4>2
    <3> QED BY <3>1, <3>2
  <2>2. IsFiniteSet(1 .. Len(model)) /\ Cardinality(1 .. Len(model)) = Len(model)
    <3> DEFINE N == Len(model)
    <3>1. N \in Nat
      BY <1>2
    <3> HIDE DEF N
    <3>2. 1 \in Int /\ N \in Int
      BY <3>1
    <3>3. IsFiniteSet(1 .. N) /\ Cardinality(1 .. N) = IF 1 > N THEN 0 ELSE N - 1 + 1
      BY <3>2, FS_Interval
    <3>4. IsFiniteSet(1 .. N) /\ Cardinality(1 .. N) = N
      BY <3>1, <3>3
    <3> QED BY <3>4 DEF N
  <2> QED BY <1>5, <2>1, <2>2, FS_Subset
<1>11. ASSUME NEW i \in KVPositions
       PROVE  /\ Rank(KVPositions, i) \in 1 .. Len(left)
              /\ left[Rank(KVPositions, i)] = Given(F, Absent)[model[i]]
  <2>1. Rank(KVPositions, i) \in 1 .. Cardinality(KVPositions)
    BY <1>8 DEF Ranked
  <2>2. left[Rank(KVPositions, i)] = all[i]
    BY <1>7 DEF Selected
  <2>3. i \in DOMAIN model
    BY <1>2, <1>5
  <2> HIDE DEF left
  <2> QED BY <1>3, <1>9, <2>1, <2>2, <2>3
<1>12. left = Without(AllLayers(F, Absent), {Absent})
  BY DEF Without, all
<1> HIDE DEF left
<1> QED
  BY <1>7, <1>9, <1>10, <1>11, <1>12 DEF all

\* The attention layers of a cache, in place.
InPlace(cache, F) ==
  /\ DOMAIN cache = DOMAIN model
  /\ \A i \in KVPositions : cache[i] = Ready(model[i], F)

\* Putting the layers of a hybrid model in their places.
LEMMA FixedUp ==
  ASSUME Fixed, Shapely, Hybrid, NEW F \in Nat, NEW st, st = Absent \/ st \in Leaf({"ssm"}),
         NEW cache, cache = FixHybrid(Dequantized(Without(AllLayers(F, st), {Absent})))
  PROVE  InPlace(cache, F)
<1> DEFINE all == AllLayers(F, st)
           left == Without(all, {Absent})
           D == Dequantized(left)
<1>0. DOMAIN model = 1 .. Len(model) /\ Len(model) \in Nat
  BY ModelKinds
<1>1. \A i \in KVPositions : /\ i \in DOMAIN model /\ model[i] \in Attending
                             /\ model[i] \in {"kv", "tq", "rot"} /\ model[i] \in LeafKinds
  BY ModelShape, OthersFacts DEF LeafKinds
<1>2. DOMAIN D = DOMAIN left
  BY DequantizedFacts
<1>3. \A k \in Attending : /\ Given(F, st)[k].kind # "list" /\ Plain(Given(F, st)[k]) = Ready(k, F)
                           /\ Ready(k, F).kind = IF k = "rot" THEN "rot" ELSE "kv"
  BY DequantizedFacts DEF Ready, LayerOf
<1>4. \A i \in DOMAIN left : left[i].kind # "list" => D[i] = Plain(left[i])
  BY DequantizedFacts
<1>5. CASE st # Absent
  <2>1. left = all
    <3>1. \A i \in DOMAIN model : model[i] # "list"
      BY ModelShape
    <3> QED BY <1>5, <3>1, NothingMissing
  <2>2. DOMAIN all = DOMAIN model /\ Len(all) = Len(model)
    BY AllFacts
  <2>3. Len(D) = Len(model)
    <3>1. DOMAIN D = 1 .. Len(model)
      BY <1>0, <1>2, <2>1, <2>2
    <3>2. D = [i \in DOMAIN D |-> D[i]]
      BY DEF Dequantized
    <3> HIDE DEF D
    <3> DEFINE S == {D[i] : i \in DOMAIN D}
    <3>3. D \in [1 .. Len(model) -> S]
      BY <3>1, <3>2
    <3> HIDE DEF S
    <3> QED BY <1>0, <3>3, AsList
  <2>4. cache = [i \in DOMAIN model |->
                   IF model[i] \notin KVLike /\ D[i].kind \in KVLike THEN Template[i] ELSE D[i]]
    <3>1. cache = FixHybrid(D)
      OBVIOUS
    <3> HIDE DEF D
    <3> QED BY <2>3, <3>1 DEF FixHybrid
  <2>5. ASSUME NEW i \in KVPositions PROVE cache[i] = Ready(model[i], F)
    <3>1. all[i] = Given(F, st)[model[i]]
      BY <1>1 DEF AllLayers
    <3>2. D[i] = Ready(model[i], F)
      <4>1. left[i] = Given(F, st)[model[i]] /\ i \in DOMAIN left
        BY <1>1, <2>1, <2>2, <3>1
      <4> HIDE DEF left, D
      <4> QED BY <1>1, <1>3, <1>4, <4>1
    <3>3. ~ (model[i] \notin KVLike /\ D[i].kind \in KVLike)
      <4> HIDE DEF D
      <4> QED BY <1>1, <1>3, <3>2 DEF KVLike
    <3> HIDE DEF D
    <3> QED BY <1>1, <2>4, <3>2, <3>3
  <2>6. DOMAIN cache = DOMAIN model
    <3> HIDE DEF D
    <3> QED BY <2>4
  <2> QED BY <2>5, <2>6 DEF InPlace
<1>6. CASE st = Absent
  <2>1. /\ left \in Seq(ToSet(all)) /\ Len(left) = Cardinality(KVPositions)
        /\ Cardinality(KVPositions) # Len(model)
        /\ \A i \in KVPositions : /\ Rank(KVPositions, i) \in 1 .. Len(left)
                                  /\ left[Rank(KVPositions, i)] = Given(F, st)[model[i]]
    BY <1>6, StatesMissing
  <2>2. DOMAIN left = 1 .. Len(left) /\ Len(left) \in Nat
    <3> HIDE DEF left
    <3> QED BY <2>1, LenProperties
  <2>3. Len(D) = Len(left)
    <3>2. D = [i \in DOMAIN D |-> D[i]]
      BY DEF Dequantized
    <3> HIDE DEF D, left
    <3> DEFINE S == {D[i] : i \in DOMAIN D}
    <3>3. D \in [1 .. Len(left) -> S]
      BY <1>2, <2>2, <3>2
    <3> HIDE DEF S
    <3> QED BY <2>2, <3>3, AsList
  <2>4. cache = [i \in DOMAIN model |->
                   IF i \in KVPositions THEN D[Cardinality({k \in KVPositions : k <= i})]
                                        ELSE Template[i]]
    <3>1. cache = FixHybrid(D)
      OBVIOUS
    <3>2. Len(D) # Len(model) /\ Len(D) = Cardinality(KVPositions)
      BY <2>1, <2>3
    <3> HIDE DEF D
    <3> QED BY Zenon, <3>1, <3>2 DEF FixHybrid
  <2>5. ASSUME NEW i \in KVPositions PROVE cache[i] = Ready(model[i], F)
    <3>1. cache[i] = D[Rank(KVPositions, i)]
      <4> HIDE DEF D
      <4> QED BY <1>1, <2>4 DEF Rank
    <3> DEFINE r == Rank(KVPositions, i)
    <3>2. r \in DOMAIN left /\ left[r] = Given(F, st)[model[i]]
      BY <2>1, <2>2
    <3> HIDE DEF r, left, D
    <3>3. D[r] = Ready(model[i], F)
      BY <1>1, <1>3, <1>4, <3>2
    <3> QED BY <3>1, <3>3 DEF r
  <2>6. DOMAIN cache = DOMAIN model
    <3> HIDE DEF D
    <3> QED BY <2>4
  <2> QED BY <2>5, <2>6 DEF InPlace
<1> QED
  BY <1>5, <1>6

LEMMA CompanionKeeps ==
  ASSUME NEW F, NEW cache, InPlace(cache, F), NEW s
  PROVE  InPlace(WithCompanion(cache, s), F)
<1> DEFINE full == WithCompanion(cache, s)
           rank(i) == Cardinality({k \in DOMAIN cache : k <= i /\ k \notin KVPositions})
<1>1. full = [i \in DOMAIN cache |->
                IF i \notin KVPositions /\ rank(i) <= Len(s) THEN s[rank(i)] ELSE cache[i]]
  BY Zenon DEF WithCompanion
<1> HIDE DEF full, rank
<1>2. DOMAIN full = DOMAIN model
  BY <1>1 DEF InPlace
<1>3. \A i \in KVPositions : i \in DOMAIN model
  BY DEF KVPositions
<1>4. \A i \in KVPositions : full[i] = Ready(model[i], F)
  BY <1>1, <1>3 DEF InPlace
<1> QED
  BY <1>2, <1>4 DEF InPlace, full

\* What is handed over holds, at each attention layer, the first F positions.
Handed(cache, F) ==
  /\ DOMAIN cache = DOMAIN model
  /\ \A i \in DOMAIN model :
       /\ model[i] \in {"kv", "tq", "rot"} => cache[i] = LayerOf(model[i], Run(0, F), 1)
       /\ model[i] = "ssm" => cache[i].kind = "ssm"
       /\ model[i] = "list" =>
            /\ cache[i].kind = "list"
            /\ \A l \in ToSet(cache[i].subs) : l.kind = "ssm" \/ l.pos = Run(0, F)

LEMMA HandedHybrid ==
  ASSUME Fixed, Shapely, Hybrid, NEW blocks, NEW fs, NEW j, NEW F, Fitting(blocks, fs, j, F),
         Reconstructed(blocks) # Absent, NEW s, Companionable(s)
  PROVE  Handed(Assembled(Reconstructed(blocks), s), F)
<1> DEFINE st == State(fs, j)
           whole == Reconstructed(blocks)
           mixed == FixHybrid(Dequantized(whole))
           full == WithCompanion(mixed, s)
           cache == Assembled(whole, s)
<1>1. F \in Nat \ {0}
  BY DEF Fitting
<1>2. (st = Absent \/ st \in Leaf({"ssm"})) /\ whole = Without(AllLayers(F, st), {Absent})
  <2> HIDE DEF st
  <2> QED BY WholeGiven DEF st
<1>3. cache = Recompressed(full)
  BY DEF Assembled
<1> HIDE DEF st, whole
<1>4. InPlace(mixed, F)
  BY <1>1, <1>2, FixedUp
<1> HIDE DEF mixed
<1>5. InPlace(full, F)
  BY <1>4, CompanionKeeps
<1> HIDE DEF full
<1>6. DOMAIN cache = DOMAIN model
  <2> HIDE DEF cache
  <2> QED BY <1>1, <1>3, <1>5, RecompressedFacts DEF InPlace
<1>7. ASSUME NEW i \in DOMAIN model, model[i] \in {"kv", "tq", "rot"}
      PROVE  cache[i] = LayerOf(model[i], Run(0, F), 1)
  <2>1. i \in KVPositions
    BY <1>7, ModelShape
  <2>2. full[i] = Ready(model[i], F) /\ i \in DOMAIN model \cap DOMAIN full
    BY <1>5, <2>1 DEF InPlace
  <2> HIDE DEF cache
  <2> QED BY <1>1, <1>3, <1>7, <2>2, RecompressedFacts
<1>8. PICK t \in Nat : \A i \in DOMAIN model : model[i] = "ssm" => cache[i] = Layer("ssm", <<t>>)
  BY StatesFill
<1>9. Layer("ssm", <<t>>).kind = "ssm"
  BY DEF Layer, LayerOf
<1>10. \A i \in DOMAIN model : model[i] # "list"
  BY ModelShape
<1> HIDE DEF cache
<1>11. Handed(cache, F)
  BY <1>6, <1>7, <1>8, <1>9, <1>10 DEF Handed
<1> QED
  BY <1>11 DEF cache, whole

LEMMA HandedPlain ==
  ASSUME Fixed, Shapely, ~ Hybrid, NEW blocks, NEW fs, NEW j, NEW F, Fitting(blocks, fs, j, F),
         Reconstructed(blocks) # Absent, NEW s
  PROVE  Handed(Assembled(Reconstructed(blocks), s), F)
<1> DEFINE st == State(fs, j)
           whole == Reconstructed(blocks)
           all == AllLayers(F, st)
           D == Dequantized(all)
           cache == Assembled(whole, s)
<1>1. F \in Nat \ {0}
  BY DEF Fitting
<1>2. /\ st = Absent \/ st \in Leaf({"ssm"})
      /\ whole = Without(all, {Absent})
      /\ \A i \in DOMAIN model, x \in DOMAIN SubKinds :
           model[i] = "list" => Given(F, st)[SubKinds[x]] # Absent
  <2> HIDE DEF st
  <2> QED BY WholeGiven DEF st
<1> HIDE DEF st
<1>3. whole = all
  BY <1>1, <1>2, NothingMissing
<1>4. cache = Recompressed(D)
  BY <1>3 DEF Assembled
<1>5. DOMAIN all = DOMAIN model
  BY AllFacts
<1>6. DOMAIN D = DOMAIN model
  BY <1>1, <1>5, DequantizedFacts
<1>7. DOMAIN cache = DOMAIN model
  <2> HIDE DEF D, cache
  <2> QED BY <1>1, <1>4, <1>6, RecompressedFacts
<1>8. \A k \in Attending : Given(F, st)[k].kind # "list" /\ Plain(Given(F, st)[k]) = Ready(k, F)
  BY <1>1, DequantizedFacts
<1>9. ASSUME NEW i \in DOMAIN model, model[i] \in {"kv", "tq", "rot"}
      PROVE  cache[i] = LayerOf(model[i], Run(0, F), 1)
  <2>1. model[i] \in Attending
    BY <1>9, ModelShape
  <2>2. all[i] = Given(F, st)[model[i]]
    BY <1>9 DEF AllLayers
  <2>3. D[i] = Ready(model[i], F)
    <3> HIDE DEF all
    <3>1. all[i].kind # "list" /\ Plain(all[i]) = Ready(model[i], F) /\ i \in DOMAIN all
      BY <1>5, <1>8, <2>1, <2>2
    <3>2. D[i] = Plain(all[i])
      BY <1>1, <3>1, DequantizedFacts
    <3> QED BY <3>1, <3>2
  <2> HIDE DEF D, cache
  <2> QED BY <1>1, <1>4, <1>6, <1>9, <2>3, RecompressedFacts
<1>10. \A i \in DOMAIN model : model[i] # "ssm"
  BY OthersFacts
<1>11. ASSUME NEW i \in DOMAIN model, model[i] = "list"
       PROVE  /\ cache[i].kind = "list"
              /\ \A l \in ToSet(cache[i].subs) : l.kind = "ssm" \/ l.pos = Run(0, F)
  <2> DEFINE subs == [x \in DOMAIN SubKinds |-> Given(F, st)[SubKinds[x]]]
             flat == [x \in DOMAIN subs |-> Plain(subs[x])]
  <2>1. all[i] = List(subs)
    BY <1>11 DEF AllLayers
  <2>2. \A y : List(y).kind = "list" /\ List(y).subs = y
    BY DEF List, Layer, LayerOf
  <2>3. D[i] = List(flat)
    <3> HIDE DEF all, subs
    <3>1. all[i].kind = "list" /\ all[i].subs = subs /\ i \in DOMAIN all
      BY <1>5, <2>1, <2>2
    <3>2. D[i] = List([x \in DOMAIN all[i].subs |-> Plain(all[i].subs[x])])
      BY <1>1, <3>1, DequantizedFacts
    <3> QED BY <3>1, <3>2
  <2>4. ASSUME NEW x \in DOMAIN SubKinds
        PROVE  flat[x].kind = "ssm" \/ flat[x].pos = Run(0, F)
    <3>1. flat[x] = Plain(Given(F, st)[SubKinds[x]])
      BY <2>4
    <3>2. SubKinds[x] \in {"kv", "ssm"} /\ SubKinds[x] \in LeafKinds
      BY ModelKinds
    <3>3. CASE SubKinds[x] = "kv"
      <4>1. "kv" \in Attending
        BY DEF Attending
      <4>2. flat[x] = Ready("kv", F)
        BY <1>8, <3>1, <3>3, <4>1
      <4> HIDE DEF flat
      <4> QED BY <4>2 DEF Ready, LayerOf
    <3>4. CASE SubKinds[x] = "ssm"
      <4>1. Given(F, st)[SubKinds[x]] = st
        BY <1>1, <1>2, <3>2, <3>4, GivenFacts
      <4>2. Given(F, st)[SubKinds[x]] # Absent
        BY <1>2, <1>11
      <4>3. st \in Leaf({"ssm"})
        BY <1>2, <4>1, <4>2
      <4>4. Plain(st) = st /\ st.kind = "ssm"
        BY <1>1, <4>3, DequantizedFacts
      <4> HIDE DEF flat
      <4> QED BY <3>1, <4>1, <4>4
    <3> QED BY <3>2, <3>3, <3>4
  <2>5. \A l \in ToSet(flat) : l.kind = "ssm" \/ l.pos = Run(0, F)
    <3>1. DOMAIN flat = DOMAIN SubKinds
      OBVIOUS
    <3> HIDE DEF flat
    <3> QED BY <2>4, <3>1 DEF ToSet
  <2> HIDE DEF flat
  <2>6. D[i].kind = "list" /\ D[i].subs = flat
    BY <2>2, <2>3
  <2> HIDE DEF D, cache
  <2>7. cache[i] = D[i]
    BY <1>1, <1>4, <1>6, <1>11, <2>6, RecompressedFacts
  <2> QED BY <2>5, <2>6, <2>7
<1> HIDE DEF cache
<1>12. Handed(cache, F)
  BY <1>7, <1>9, <1>10, <1>11 DEF Handed
<1> QED
  BY <1>12 DEF cache

-----------------------------------------------------------------------------
\* The pool holds what its keys say.

\* How far the blocks at a key reach: to its last token, but never to the last
\* one of a prompt.
Reach(key) == IF key[2] \in P /\ key[1] = len[key[2]] THEN key[1] - 1 ELSE key[1]

FitsAt(data, key, i, f) ==
  /\ i \in Nat \ {0} /\ key[1] \in Nat /\ (i - 1) * BlockSize < key[1] /\ key[1] <= i * BlockSize
  /\ Reach(key) \in Nat \ {0}
  /\ BlockFits(data, f, (i - 1) * BlockSize, Reach(key))

PoolFits ==
  \A key \in DOMAIN pool : \A data \in pool[key] : \E i, f : FitsAt(data, key, i, f)

LEMMA RoundedUp ==
  ASSUME NEW S \in Nat \ {0}, NEW c \in Nat \ {0}, NEW q, q = (S + c - 1) \div c
  PROVE  /\ q \in Nat \ {0} /\ S <= q * c
         /\ \A i \in 1 .. q : (i - 1) * c < S
<1>1. q \in Nat /\ q * c \in Nat /\ q * c <= S + c - 1 /\ S + c - 1 < q * c + c
  OBVIOUS
<1>2. S <= q * c
  <2> DEFINE x == q * c
  <2>1. x \in Nat /\ S + c - 1 < x + c
    BY <1>1
  <2> HIDE DEF x
  <2>2. S <= x
    BY <2>1
  <2> QED BY <2>2 DEF x
<1>3. ASSUME NEW i \in 1 .. q PROVE (i - 1) * c < S
  <2>1. i \in Nat /\ i - 1 \in Nat /\ i <= q /\ (i - 1) + 1 = i
    OBVIOUS
  <2>2. i * c <= q * c
    BY <1>1, <2>1, Products
  <2>3. ((i - 1) + 1) * c = (i - 1) * c + c /\ (i - 1) * c \in Nat
    BY <2>1, Products
  <2> DEFINE x == q * c
             y == (i - 1) * c
             z == i * c
  <2>4. z <= x /\ z = y + c /\ y \in Nat /\ x \in Nat /\ x <= S + c - 1
    BY <1>1, <2>1, <2>2, <2>3
  <2> HIDE DEF x, y, z
  <2>5. y < S
    BY <2>4
  <2> QED BY <2>5 DEF y
<1>4. q # 0
  <2> SUFFICES ASSUME q = 0 PROVE FALSE
    OBVIOUS
  <2>1. q * c = 0
    OBVIOUS
  <2> QED BY <1>2, <2>1
<1> QED
  BY <1>1, <1>2, <1>3, <1>4

\* A block reaches as far as its key says.
LEMMA KeyReach ==
  ASSUME PrefixFree, Fixed, NEW p \in P, len[p] > 1, NEW e \in Nat \ {0}, e <= len[p]
  PROVE  /\ Reach(Prefix(p, e)) = IF e = len[p] THEN e - 1 ELSE e
         /\ Reach(Prefix(p, e)) = Min({e, len[p] - 1})
         /\ Reach(Prefix(p, e)) \in Nat \ {0} /\ Prefix(p, e)[1] = e
<1>1. len[p] \in Nat /\ common \in Nat /\ common < len[p] /\ 0 \notin P
  <2>1. len[p] \in Nat
    BY Extents
  <2>2. common \in Nat /\ common < len[1] /\ common < len[2]
    BY DEF Fixed
  <2>3. p = 1 \/ p = 2
    BY DEF P
  <2>4. 0 \notin P
    BY DEF P
  <2> QED BY <2>1, <2>2, <2>3, <2>4
<1>2. Prefix(p, e) = <<e, IF e <= common THEN 0 ELSE p>>
  BY DEF Prefix
<1>3. Reach(Prefix(p, e)) = IF e = len[p] THEN e - 1 ELSE e
  BY <1>1, <1>2 DEF Reach
<1> DEFINE h == len[p] - 1
<1>4. h \in Nat /\ h = len[p] - 1
  BY <1>1
<1> HIDE DEF h
<1>5. Min({e, h}) = IF e <= h THEN e ELSE h
  BY <1>4, MinOfTwo
<1>6. Min({e, h}) = IF e = len[p] THEN e - 1 ELSE e
  BY <1>1, <1>4, <1>5
<1>7. Prefix(p, e)[1] = e
  BY <1>2
<1>8. (IF e = len[p] THEN e - 1 ELSE e) \in Nat \ {0}
  BY <1>1
<1> QED
  BY <1>3, <1>6, <1>7, <1>8 DEF h

LEMMA StoreFits ==
  ASSUME PrefixFree, Fixed, Shapely, NEW p \in P, NEW m \in 0 .. MaxOutput, NEW heads,
         NEW i \in 1 .. Blocks(p), Truncation(len[p], len[p] + m, heads) # Absent
  PROVE  \E f : FitsAt(BlockOf(p, m, heads, i), Key(p, i), i, f)
<1> DEFINE t == len[p] + m
           from == (i - 1) * BlockSize
           upto == EndOf(p, i)
           last == (i = Blocks(p))
           f == Slices(len[p], t, heads, from, upto, last)
           c == BlockSize
<1>0. /\ c \in Nat \ {0} /\ len[p] \in Nat \ {0} /\ Stored(p) \in Nat \ {0} /\ Stored(p) <= len[p]
      /\ i \in Nat \ {0} /\ i - 1 \in Nat /\ m \in Nat
  <2>1. Stored(p) <= len[p]
    BY Extents
  <2>2. m \in Nat
    BY DataAssumption
  <2> QED BY <2>1, <2>2, Extents
<1>1. t \in Nat /\ from \in Nat /\ upto \in Nat /\ last \in BOOLEAN /\ len[p] <= t
  <2>1. from \in Nat
    BY <1>0, Products
  <2>2. upto \in Nat
    BY <1>0, Extents
  <2> QED BY <1>0, <2>1, <2>2
<1>2. /\ len[p] > 1 /\ BlockOf(p, m, heads, i) = Built(f)
      /\ ~ vision => \A x \in DOMAIN model : model[x] = "rot" => t <= Window
  <2> HIDE DEF from, upto, last, t
  <2> DEFINE cache == Extracted(Quantized(Truncation(len[p], t, heads)))
  <2>1. Truncation(len[p], t, heads) # Absent
    BY DEF t
  <2>2. /\ len[p] > 1
        /\ ~ vision => \A x \in DOMAIN model : model[x] = "rot" => t <= Window
        /\ \A a, b \in Nat, d \in BOOLEAN :
             SliceOf(cache, a, b, d) = Built(Slices(len[p], t, heads, a, b, d))
    BY <1>0, <1>1, <2>1, StoredBuilt
  <2>3. BlockOf(p, m, heads, i) = SliceOf(cache, from, upto, last)
    BY DEF BlockOf, from, upto, last, t
  <2> HIDE DEF cache
  <2> QED BY <1>1, <2>2, <2>3
<1>3. from < upto /\ upto <= i * c /\ upto <= len[p] /\ upto \in Nat \ {0}
  <2>1. upto = IF i * BlockSize <= Stored(p) THEN i * BlockSize ELSE Stored(p)
    BY <1>0, Extents
  <2>2. from < Stored(p)
    <3>1. Blocks(p) = (Stored(p) + c - 1) \div c
      BY DEF Blocks
    <3>2. \A x \in 1 .. Blocks(p) : (x - 1) * c < Stored(p)
      BY <1>0, <3>1, RoundedUp
    <3> QED BY <3>2
  <2>3. from < i * c
    <3>1. (i - 1) * c < ((i - 1) + 1) * c /\ (i - 1) + 1 = i
      BY <1>0, Products
    <3> QED BY <3>1
  <2>4. i * c \in Nat
    BY <1>0, Products
  <2> DEFINE z == i * c
             S == Stored(p)
  <2>5. from < S /\ from < z /\ z \in Nat /\ upto = (IF z <= S THEN z ELSE S) /\ S <= len[p]
        /\ S \in Nat
    BY <1>0, <2>1, <2>2, <2>3, <2>4
  <2> HIDE DEF from, upto, z, S
  <2>6. from < upto /\ upto <= z /\ upto <= len[p] /\ upto \in Nat \ {0}
    BY <1>0, <1>1, <2>5
  <2> QED BY <2>6 DEF z
<1>4. /\ Key(p, i) = Prefix(p, upto) /\ Prefix(p, upto)[1] = upto
      /\ Reach(Prefix(p, upto)) = Min({upto, len[p] - 1}) /\ Reach(Prefix(p, upto)) \in Nat \ {0}
  <2>1. Key(p, i) = Prefix(p, upto)
    BY DEF Key
  <2> HIDE DEF upto
  <2> QED BY <1>2, <1>3, <2>1, KeyReach
<1> HIDE DEF from, upto, last, t
<1>5. ASSUME NEW k \in LeafKinds
      PROVE  /\ f[k] \in Leaf({StoredKind(k), "skip"})
             /\ k = "ssm" => f[k] = IF last THEN Layer("ssm", <<t>>) ELSE Skip
             /\ k # "ssm" /\ (k = "rot" => t <= Window) => f[k] = Bit(k, from, Min({upto, len[p] - 1}))
  <2>1. f[k] = Slice1(Whole1(k, len[p], t, heads), from, upto, last)
    BY DEF Slices
  <2> DEFINE piece == f[k]
             n == len[p]
  <2>2. n \in Nat /\ n > 1 /\ n <= t /\ piece = Slice1(Whole1(k, n, t, heads), from, upto, last)
    BY <1>0, <1>1, <1>2, <2>1
  <2> HIDE DEF piece, n
  <2>3. /\ piece \in Leaf({StoredKind(k), "skip"})
        /\ k = "ssm" => piece = IF last THEN Layer("ssm", <<t>>) ELSE Skip
        /\ k # "ssm" /\ (k = "rot" => t <= Window) => piece = Bit(k, from, Min({upto, n - 1}))
    BY <1>1, <2>2, SliceFacts
  <2> QED BY <2>3 DEF piece, n
<1> HIDE DEF f
<1>6. \A k \in LeafKinds : f[k].kind # "list"
  BY <1>5 DEF Leaf, StoredKind
<1>7. \A k \in Attending : f[k] = Bit(k, from, Min({upto, len[p] - 1}))
  <2> SUFFICES ASSUME NEW k \in Attending PROVE f[k] = Bit(k, from, Min({upto, len[p] - 1}))
    OBVIOUS
  <2>1. k \in LeafKinds /\ k # "ssm" /\ (k = "rot" => ~ vision /\ "rot" \in ToSet(model))
    BY ModelShape DEF Attending, LeafKinds
  <2>2. k = "rot" => t <= Window
    BY <1>2, <2>1 DEF ToSet
  <2> QED BY <1>5, <2>1, <2>2
<1>8. f["ssm"] = Skip \/ f["ssm"] \in Leaf({"ssm"})
  <2>1. Layer("ssm", <<t>>) \in Leaf({"ssm"})
    BY <1>1 DEF Layer, LayerOf, Leaf
  <2>2. f["ssm"] = IF last THEN Layer("ssm", <<t>>) ELSE Skip
    BY <1>5 DEF LeafKinds
  <2> QED BY <1>1, <2>1, <2>2
<1>9. BlockFits(BlockOf(p, m, heads, i), f, from, Reach(Key(p, i)))
  BY <1>2, <1>4, <1>6, <1>7, <1>8 DEF BlockFits
<1> DEFINE key == Key(p, i)
<1>10. /\ key[1] = upto /\ upto \in Nat /\ from < upto /\ upto <= i * c
       /\ Reach(key) \in Nat \ {0}
  BY <1>3, <1>4
<1> HIDE DEF key
<1>11. FitsAt(BlockOf(p, m, heads, i), key, i, f)
  BY <1>0, <1>9, <1>10 DEF FitsAt, from, key
<1> QED
  BY <1>11 DEF key

PoolInv == Fixed /\ PoolFits

LEMMA PoolStep ==
  ASSUME PrefixFree, Shapely, PoolInv, [DataNext]_datavars
  PROVE  PoolInv'
<1>1. Fixed /\ Fixed' /\ UNCHANGED <<vision, model, bits, len, common>>
  BY StaysFixed DEF PoolInv
<1>2. \A data, key, i, f : FitsAt(data, key, i, f)' <=> FitsAt(data, key, i, f)
  BY <1>1 DEF FitsAt, Reach, BlockFits, Built, Attending, Bit, StoredKind
<1>3. ASSUME NEW p \in P, NEW m \in 0 .. MaxOutput, NEW h \in Heads, Store(p, m, h),
             NEW key \in DOMAIN pool', NEW data \in pool'[key]
      PROVE  \E i, f : FitsAt(data, key, i, f)
  <2>1. CASE key \in DOMAIN pool /\ data \in pool[key]
    BY <2>1 DEF PoolInv, PoolFits
  <2>2. CASE /\ Truncation(len[p], len[p] + m, h) # Absent
             /\ \E i \in 1 .. Blocks(p) : key = Key(p, i) /\ data = BlockOf(p, m, h, i)
    <3>1. PICK i \in 1 .. Blocks(p) : key = Key(p, i) /\ data = BlockOf(p, m, h, i)
      BY <2>2
    <3>2. \E f : FitsAt(BlockOf(p, m, h, i), Key(p, i), i, f)
      BY <1>1, <2>2, StoreFits
    <3> QED BY <3>1, <3>2
  <2> QED BY <1>1, <1>3, <2>1, <2>2, StoreAdds
<1>4. ASSUME NEW key \in DOMAIN pool', NEW data \in pool'[key]
      PROVE  \E i, f : FitsAt(data, key, i, f)
  <2>1. CASE \E p \in P, m \in 0 .. MaxOutput, h \in Heads : Store(p, m, h)
    BY <1>3, <1>4, <2>1
  <2>2. CASE ~ \E p \in P, m \in 0 .. MaxOutput, h \in Heads : Store(p, m, h)
    <3>1. key \in DOMAIN pool /\ data \in pool[key]
      BY <1>1, <1>4, <2>2, OthersAddNothing
    <3> QED BY <3>1 DEF PoolInv, PoolFits
  <2> QED BY <2>1, <2>2
<1>5. PoolFits'
  BY <1>2, <1>4 DEF PoolFits
<1> QED
  BY <1>1, <1>5 DEF PoolInv

\* How many of the n tokens found are fed already.
FedOf(p, n) == IF n = len[p] THEN n - 1 ELSE n

\* The blocks that a hit finds follow each other from the first position on.
LEMMA FoundFits ==
  ASSUME PrefixFree, PoolInv, NEW p \in P, NEW j \in Nat \ {0}, NEW n, NEW blocks,
         \/ n = j * BlockSize /\ n <= len[p]
         \/ j = Blocks(p) /\ n = Stored(p),
         blocks = [b \in 1 .. j |-> blocks[b]],
         \A b \in 1 .. j : blocks[b] \in At(Prefix(p, Min({b * BlockSize, n})))
  PROVE  \E fs : Fitting(blocks, fs, j, FedOf(p, n))
<1> DEFINE c == BlockSize
           F == FedOf(p, n)
           low(b) == (b - 1) * c
           high(b) == IF b = j THEN F ELSE b * c
<1>0. c \in Nat \ {0} /\ len[p] \in Nat \ {0} /\ Stored(p) \in Nat \ {0} /\ Stored(p) <= len[p]
  <2>1. Stored(p) <= len[p]
    BY Extents DEF PoolInv
  <2> QED BY <2>1, Extents DEF PoolInv
<1>1. n \in Nat \ {0} /\ n <= len[p] /\ (j - 1) * c < n /\ n <= j * c
  <2>1. CASE n = j * BlockSize /\ n <= len[p]
    <3>1. j - 1 \in Nat /\ (j - 1) + 1 = j
      OBVIOUS
    <3>2. (j - 1) * c < ((j - 1) + 1) * c /\ (j - 1) * c \in Nat /\ j * c \in Nat
      BY <1>0, <3>1, Products
    <3> DEFINE x == (j - 1) * c
               y == j * c
    <3>3. x < y /\ x \in Nat /\ y \in Nat /\ n = y
      BY <2>1, <3>1, <3>2
    <3> HIDE DEF x, y
    <3>4. n \in Nat \ {0} /\ x < n /\ n <= y
      BY <3>3
    <3> QED BY <2>1, <3>4 DEF x, y
  <2>2. CASE j = Blocks(p) /\ n = Stored(p)
    <3>1. j = (Stored(p) + c - 1) \div c
      BY <2>2 DEF Blocks
    <3>2. Stored(p) <= j * c /\ \A x \in 1 .. j : (x - 1) * c < Stored(p)
      BY <1>0, <3>1, RoundedUp
    <3>3. j \in 1 .. j
      OBVIOUS
    <3> QED BY <1>0, <2>2, <3>2, <3>3
  <2> QED BY <2>1, <2>2
<1>2. ASSUME NEW b \in 1 .. j
      PROVE  \E f : high(b) \in Nat \ {0} /\ BlockFits(blocks[b], f, low(b), high(b))
  <2> DEFINE a == Min({b * c, n})
             x == b * c
  <2>0. b \in Nat /\ b - 1 \in Nat /\ (b - 1) + 1 = b /\ j \in Nat /\ b <= j
    OBVIOUS
  <2>1. x \in Nat /\ (b # j => x <= (j - 1) * c)
    <3>1. x \in Nat
      BY <1>0, <2>0, Products
    <3>2. b # j => b <= j - 1 /\ j - 1 \in Nat
      BY <2>0
    <3>3. b # j => b * c <= (j - 1) * c
      BY <1>0, <2>0, <3>2, Products
    <3> QED BY <3>1, <3>3
  <2>2. a = IF b = j THEN n ELSE x
    <3> DEFINE y == (j - 1) * c
               z == j * c
    <3>1. y < n /\ n <= z /\ (b # j => x <= y) /\ (b = j => x = z) /\ y \in Nat /\ z \in Nat
      <4>1. j - 1 \in Nat /\ j \in Nat
        BY <2>0
      <4>2. (j - 1) * c \in Nat /\ j * c \in Nat
        BY <1>0, <4>1, Products
      <4> QED BY <1>1, <2>1, <4>2
    <3>2. a = IF x <= n THEN x ELSE n
      <4> HIDE DEF x
      <4>1. Min({x, n}) = IF x <= n THEN x ELSE n
        BY <1>1, <2>1, MinOfTwo
      <4> QED BY <4>1 DEF x
    <3> HIDE DEF a, x, y, z
    <3> QED BY <1>1, <2>1, <3>1, <3>2
  <2>3. low(b) < x /\ low(b) \in Nat
    <3>1. (b - 1) * c < ((b - 1) + 1) * c /\ (b - 1) * c \in Nat
      BY <1>0, <2>0, Products
    <3> QED BY <2>0, <3>1
  <2>4. a \in Nat \ {0} /\ a <= n /\ a <= x /\ low(b) < a /\ (b # j => a < n)
    <3>1. b = j => low(b) < n /\ n <= x
      BY <1>1
    <3>2. b # j => x < n
      <4> DEFINE y == (j - 1) * c
      <4>1. y < n /\ (b # j => x <= y) /\ y \in Nat
        <5>1. (j - 1) * c \in Nat
          <6>1. j - 1 \in Nat
            BY <2>0
          <6> QED BY <1>0, <6>1, Products
        <5> QED BY <1>1, <2>1, <5>1
      <4> HIDE DEF x, y
      <4> QED BY <1>1, <2>1, <4>1
    <3> HIDE DEF low, x, a
    <3> QED BY <1>1, <2>1, <2>2, <2>3, <3>1, <3>2
  <2> DEFINE key == Prefix(p, a)
  <2>5. PICK i, f : FitsAt(blocks[b], key, i, f)
    <3>1. blocks[b] \in At(key)
      OBVIOUS
    <3> HIDE DEF key
    <3> QED BY <3>1 DEF At, PoolInv, PoolFits
  <2>6. key[1] = a
    BY DEF Prefix
  <2>7. Reach(key) = high(b)
    <3>1. common < len[p] /\ common \in Nat /\ 0 \notin P
      <4>2. common \in Nat /\ common < len[1] /\ common < len[2]
        BY DEF Fixed, PoolInv
      <4>3. p = 1 \/ p = 2
        BY DEF P
      <4>4. 0 \notin P
        BY DEF P
      <4> QED BY <4>2, <4>3, <4>4
    <3>2. key = <<a, IF a <= common THEN 0 ELSE p>>
      BY DEF Prefix
    <3> HIDE DEF a, key, x
    <3>3. Reach(key) = IF a = len[p] THEN a - 1 ELSE a
      BY <1>0, <2>4, <3>1, <3>2 DEF Reach
    <3>4. CASE b = j
      <4>1. a = n
        BY <2>2, <3>4
      <4> QED BY <3>3, <3>4, <4>1 DEF FedOf
    <3>5. CASE b # j
      <4>1. a < n /\ n <= len[p] /\ a = b * c
        BY <1>1, <2>2, <2>4, <3>5 DEF x
      <4>2. a # len[p]
        BY <1>0, <1>1, <2>4, <4>1
      <4>3. high(b) = b * c
        BY <3>5
      <4> QED BY <3>3, <4>1, <4>2, <4>3
    <3> QED BY <3>4, <3>5
  <2> HIDE DEF key, a, high
  <2>8. /\ i \in Nat \ {0} /\ (i - 1) * c < a /\ a <= i * c
        /\ high(b) \in Nat \ {0} /\ BlockFits(blocks[b], f, (i - 1) * c, high(b))
    BY <2>5, <2>6, <2>7 DEF FitsAt
  <2>9. i = b
    <3>1. i - 1 \in Nat /\ i \in Nat
      BY <2>8
    <3>2. (i - 1) * c \in Nat /\ i * c \in Nat
      BY <1>0, <3>1, Products
    <3>3. ASSUME i < b PROVE FALSE
      <4>1. i <= b - 1
        BY <2>0, <3>1, <3>3
      <4>2. i * c <= (b - 1) * c
        BY <1>0, <2>0, <3>1, <4>1, Products
      <4> DEFINE y == i * c
                 z == (b - 1) * c
      <4>3. y <= z /\ z < a /\ a <= y /\ y \in Nat /\ z \in Nat
        BY <2>3, <2>4, <2>8, <3>2, <4>2
      <4> HIDE DEF y, z
      <4> QED BY <2>4, <4>3
    <3>4. ASSUME b < i PROVE FALSE
      <4>1. b <= i - 1
        BY <2>0, <3>1, <3>4
      <4>2. b * c <= (i - 1) * c
        BY <1>0, <2>0, <3>1, <4>1, Products
      <4> DEFINE y == (i - 1) * c
      <4>3. x <= y /\ y < a /\ a <= x /\ y \in Nat /\ x \in Nat
        BY <2>1, <2>4, <2>8, <3>2, <4>2
      <4> HIDE DEF x, y
      <4> QED BY <2>4, <4>3
    <3> QED BY <2>0, <3>1, <3>3, <3>4
  <2> QED BY <2>8, <2>9
<1> DEFINE fs == [b \in 1 .. j |-> CHOOSE f : BlockFits(blocks[b], f, low(b), high(b))]
<1> HIDE DEF low, high
<1>3. \A b \in 1 .. j : BlockFits(blocks[b], fs[b], low(b), high(b))
  <2> SUFFICES ASSUME NEW b \in 1 .. j PROVE BlockFits(blocks[b], fs[b], low(b), high(b))
    OBVIOUS
  <2>1. \E f : BlockFits(blocks[b], f, low(b), high(b))
    BY <1>2
  <2>2. fs[b] = CHOOSE f : BlockFits(blocks[b], f, low(b), high(b))
    OBVIOUS
  <2> HIDE DEF fs
  <2> QED BY <2>1, <2>2
<1> HIDE DEF fs
<1>4. F \in Nat \ {0}
  <2>1. j \in 1 .. j
    OBVIOUS
  <2>2. high(j) \in Nat \ {0}
    BY <1>2, <2>1
  <2> QED BY <2>2 DEF high
<1>5. (j - 1) * c <= F
  <2> DEFINE y == (j - 1) * c
  <2>1. y < n /\ y \in Nat
    <3>1. j - 1 \in Nat
      OBVIOUS
    <3>2. (j - 1) * c \in Nat
      BY <1>0, <3>1, Products
    <3> QED BY <1>1, <3>2
  <2> HIDE DEF y
  <2>2. y <= F
    BY <1>1, <2>1 DEF FedOf
  <2> QED BY <2>2 DEF y
<1>6. Fitting(blocks, fs, j, F)
  <2>1. \A b \in 1 .. j :
          BlockFits(blocks[b], fs[b], (b - 1) * BlockSize, IF b = j THEN F ELSE b * BlockSize)
    BY <1>3 DEF low, high
  <2> HIDE DEF F
  <2> QED BY <1>4, <1>5, <2>1 DEF Fitting
<1> QED
  BY <1>6

-----------------------------------------------------------------------------
\* What a hit hands over.

\* A hit hands over a cache that holds what has been fed.
LEMMA HitHanded ==
  ASSUME PrefixFree, Shapely, CompanionsInv, PoolFits, NEW p \in P, NEW j \in Nat \ {0}, Fetch(p, j),
         got' # Absent
  PROVE  \E n, cache, S :
           /\ got' = [prompt |-> p, tokens |-> n, cache |-> cache]
           /\ FedOf(p, n) \in Nat /\ Handed(cache, FedOf(p, n))
           /\ cache \in Seq(S) /\ Len(cache) = Len(model)
<1>1. Fixed /\ PoolInv
  BY DEF CompanionsInv, PoolInv
<1>2. PICK n, blocks, s :
        /\ \/ n = j * BlockSize /\ n <= len[p]
           \/ p \in stored /\ j = Blocks(p) /\ n = Stored(p)
        /\ blocks \in [1 .. j -> UNION {At(Prefix(p, Min({i * BlockSize, n}))) : i \in 1 .. j}]
        /\ \A i \in 1 .. j : blocks[i] \in At(Prefix(p, Min({i * BlockSize, n})))
        /\ Reconstructed(blocks) # Absent
        /\ Hybrid => s \in CompanionOf(n, p)
        /\ got' = [prompt |-> p, tokens |-> n, cache |-> Assembled(Reconstructed(blocks), s)]
  BY FetchFacts
<1> DEFINE F == FedOf(p, n)
           cache == Assembled(Reconstructed(blocks), s)
<1>3. blocks = [b \in 1 .. j |-> blocks[b]]
  BY <1>2
<1>4. PICK fs : Fitting(blocks, fs, j, F)
  <2>1. \/ n = j * BlockSize /\ n <= len[p]
        \/ j = Blocks(p) /\ n = Stored(p)
    BY <1>2
  <2> QED BY <1>1, <1>2, <1>3, <2>1, FoundFits
<1>5. F \in Nat
  BY <1>4 DEF Fitting
<1> HIDE DEF F
<1>6. Handed(cache, F)
  <2>1. CASE Hybrid
    <3>1. PICK q \in P : s = companion[q] /\ companion[q] # Absent
      BY <1>2, <2>1 DEF CompanionOf
    <3>2. Companionable(s)
      BY <2>1, <3>1 DEF CompanionsInv, CompanionsFit
    <3>3. Reconstructed(blocks) # Absent
      BY <1>2
    <3> QED BY <1>1, <1>4, <2>1, <3>2, <3>3, HandedHybrid
  <2>2. CASE ~ Hybrid
    <3>3. Reconstructed(blocks) # Absent
      BY <1>2
    <3> QED BY <1>1, <1>4, <2>2, <3>3, HandedPlain
  <2> QED BY <2>1, <2>2
<1>7. got' = [prompt |-> p, tokens |-> n, cache |-> cache]
  BY <1>2
<1>8. cache = [i \in DOMAIN cache |-> cache[i]]
  BY DEF Assembled, Recompressed
<1> HIDE DEF cache
<1>9. DOMAIN cache = 1 .. Len(model) /\ Len(model) \in Nat
  BY <1>1, <1>6, ModelKinds DEF Handed
<1> DEFINE S == {cache[i] : i \in DOMAIN cache}
<1>10. cache \in Seq(S) /\ Len(cache) = Len(model)
  <2>1. cache \in [1 .. Len(model) -> S]
    BY <1>8, <1>9
  <2> HIDE DEF S
  <2> QED BY <1>9, <2>1, AsList
<1> QED
  BY <1>5, <1>6, <1>7, <1>10 DEF F

\* Such a cache is aligned.
LEMMA HandedAligned ==
  ASSUME Fixed, NEW cache, NEW F \in Nat, Handed(cache, F), NEW i \in DOMAIN model
  PROVE  /\ \A l \in Inside(cache[i]) :
              l.kind \in {"kv", "tq", "rot"} => l.pos = [k \in 1 .. F |-> k]
         /\ (model[i] = "tq") <=> (cache[i].kind = "tq")
         /\ (model[i] = "ssm") <=> (cache[i].kind = "ssm")
<1>1. Run(0, F) = [k \in 1 .. F |-> k]
  BY DEF Run
<1>2. CASE model[i] \in {"kv", "tq", "rot"}
  <2>1. cache[i] = [kind |-> model[i], pos |-> Run(0, F), heads |-> 1, subs |-> << >>]
    BY <1>2 DEF Handed, LayerOf
  <2>2. cache[i].kind = model[i] /\ cache[i].pos = Run(0, F)
    BY <2>1
  <2>3. Inside(cache[i]) = {cache[i]}
    BY <1>2, <2>2 DEF Inside
  <2> QED BY <1>1, <1>2, <2>2, <2>3
<1>3. CASE model[i] = "ssm"
  <2>1. cache[i].kind = "ssm"
    BY <1>3 DEF Handed
  <2>2. Inside(cache[i]) = {cache[i]}
    BY <2>1 DEF Inside
  <2> QED BY <1>3, <2>1, <2>2
<1>4. CASE model[i] = "list"
  <2>1. /\ cache[i].kind = "list"
        /\ \A l \in ToSet(cache[i].subs) : l.kind = "ssm" \/ l.pos = Run(0, F)
    BY <1>4 DEF Handed
  <2>2. Inside(cache[i]) = ToSet(cache[i].subs)
    BY <2>1 DEF Inside
  <2> QED BY <1>1, <1>4, <2>1, <2>2
<1> QED
  BY <1>2, <1>3, <1>4, ModelKinds DEF LeafKinds

AlignedIInv == CompanionsInv /\ PoolFits /\ Aligned

LEMMA AlignedStep ==
  ASSUME PrefixFree, Shapely, AlignedIInv, [DataNext]_datavars
  PROVE  Aligned'
<1>1. Fixed /\ Fixed' /\ UNCHANGED <<vision, model, bits, len, common>>
  BY StaysFixed DEF AlignedIInv, CompanionsInv
<1>2. ASSUME NEW p \in P, NEW j \in Nat \ {0}, Fetch(p, j), got' # Absent
      PROVE  Aligned'
  <2>1. PICK n, cache, S :
          /\ got' = [prompt |-> p, tokens |-> n, cache |-> cache]
          /\ FedOf(p, n) \in Nat /\ Handed(cache, FedOf(p, n))
          /\ cache \in Seq(S) /\ Len(cache) = Len(model)
    BY <1>2, HitHanded DEF AlignedIInv
  <2> DEFINE F == FedOf(p, n)
  <2>2. got'.cache = cache /\ got'.tokens = n /\ got'.prompt = p
    BY <2>1
  <2>3. Fed' = F
    BY <1>1, <2>2 DEF Fed, FedOf
  <2> HIDE DEF F
  <2>4. \A i \in DOMAIN model :
          /\ \A l \in Inside(cache[i]) :
               l.kind \in {"kv", "tq", "rot"} => l.pos = [k \in 1 .. F |-> k]
          /\ (model[i] = "tq") <=> (cache[i].kind = "tq")
          /\ (model[i] = "ssm") <=> (cache[i].kind = "ssm")
    <3>1. F \in Nat /\ Handed(cache, F)
      BY <2>1 DEF F
    <3> QED BY <1>1, <3>1, HandedAligned
  <2> QED BY <1>1, <2>1, <2>2, <2>3, <2>4 DEF Aligned
<1>3. CASE got' = got
  BY <1>1, <1>3 DEF AlignedIInv, Aligned, Fed
<1>4. CASE got' = Absent
  BY <1>4 DEF Aligned
<1>5. (\E p \in P, j \in 1 .. MaxPrompt : Fetch(p, j)) \/ got' = got
  BY OnlyFetches
<1>6. CASE \E p \in P, j \in 1 .. MaxPrompt : Fetch(p, j)
  <2>1. PICK p \in P, j \in 1 .. MaxPrompt : Fetch(p, j)
    BY <1>6
  <2>2. j \in Nat \ {0}
    BY DataAssumption
  <2>3. CASE got' # Absent
    BY <1>2, <2>1, <2>2, <2>3
  <2> QED BY <1>4, <2>3
<1> QED
  BY <1>3, <1>5, <1>6

\* What a hit hands over has every layer of the model at its place, compressed
\* where the model's is, and every attention layer holds exactly the positions
\* before the token that is fed next (Aligned; _truncate_cache_to_prompt_length,
\* store_cache, reconstruct_cache, _fix_hybrid_cache, _recompress_to_tq).
THEOREM HitsAligned == PrefixFree /\ Shapely => (DataSpec => []Aligned)
<1>1. DataInit => AlignedIInv
  <2> SUFFICES ASSUME DataInit PROVE AlignedIInv
    OBVIOUS
  <2>1. companion = [p \in P |-> Absent] /\ got = Absent /\ pool = << >>
    BY DEF DataInit
  <2>2. CompanionsInv
    BY <2>1, InitFixed DEF CompanionsInv, CompanionsFit
  <2>3. PoolFits
    <3>1. DOMAIN pool = {}
      BY <2>1
    <3> QED BY <3>1 DEF PoolFits
  <2> QED BY <2>1, <2>2, <2>3 DEF AlignedIInv, Aligned
<1>2. PrefixFree /\ Shapely /\ AlignedIInv /\ [DataNext]_datavars => AlignedIInv'
  <2> SUFFICES ASSUME PrefixFree, Shapely, AlignedIInv, [DataNext]_datavars PROVE AlignedIInv'
    OBVIOUS
  <2>1. CompanionsInv'
    BY CompanionsStep DEF AlignedIInv, Shapely
  <2>2. PoolInv'
    BY PoolStep DEF AlignedIInv, CompanionsInv, PoolInv
  <2>3. Aligned'
    BY AlignedStep
  <2> QED BY <2>1, <2>2, <2>3 DEF AlignedIInv, PoolInv
<1>3. AlignedIInv => Aligned
  BY DEF AlignedIInv
<1>4. ASSUME PrefixFree, Shapely PROVE DataSpec => []Aligned
  <2>1. AlignedIInv /\ [DataNext]_datavars => AlignedIInv'
    BY <1>2, <1>4
  <2> QED BY <1>1, <1>3, <2>1, PTL DEF DataSpec
<1> QED
  BY <1>4
=============================================================================
