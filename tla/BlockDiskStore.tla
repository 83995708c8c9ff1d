---------------------------- MODULE BlockDiskStore ----------------------------
(***************************************************************************)
(* BlockDiskStore (vmlx_engine/block_disk_store.py): the files of cache    *)
(* blocks under blocks/, the SQLite index of them, and the queue between   *)
(* the main thread, which saves and loads tensors, and a background        *)
(* writer, which renames files and keeps the index.                        *)
(*                                                                         *)
(* The main thread's operations follow one another; the writer's steps     *)
(* come between theirs.  A store is opened again after a shutdown or a     *)
(* crash; the writer of a store whose shutdown gave up waiting goes on     *)
(* beside the next one.  The content of a file is the epoch it was saved   *)
(* in (the number of clears before it) and whether all of it is written.   *)
(* Blocks have one size; which ones eviction takes is left open (their     *)
(* order by last_accessed), and an access update changes nothing else.     *)
(***************************************************************************)
EXTENDS Naturals, FiniteSets, Sequences

CONSTANTS
  Hashes,     \* the block hashes
  MaxQueue,   \* maxsize of the write queue (1000)
  MaxRows,    \* max_size_bytes, in blocks
  Target,     \* what eviction frees down to (80 %), in blocks
  Faults,     \* the sets of faults to consider, of "crash", "save", "overlap", "db"
  MaxStores,  \* bound: how often the store is opened
  MaxSaves,   \* bound: saves of a store
  MaxOverlap, \* bound: saves of a store when writers overlap
  MaxClears,  \* bound: clears that return
  None

ASSUME DiskAssumption ==
  /\ IsFiniteSet(Hashes)
  /\ MaxQueue \in Nat \ {0} /\ MaxRows \in Nat \ {0} /\ Target \in 0 .. MaxRows
  /\ Faults \subseteq SUBSET {"crash", "save", "overlap", "db"}
  /\ MaxStores \in Nat \ {0} /\ MaxSaves \in Nat /\ MaxOverlap \in 0 .. MaxSaves
  /\ MaxClears \in Nat
  /\ None \notin Hashes \X Nat

\* Of a failed save or a crash half a file is left, which a writer that still
\* works for an earlier store could publish under the same number.
ASSUME SeparateFaults ==
  \A F \in Faults : "overlap" \in F => F \cap {"crash", "save"} = {}

VARIABLES
  rows,       \* the hashes in the index
  final,      \* the file of each hash, or None
  tmps,       \* the temporary files
  store,      \* the queue and the writer of each store opened
  cur,        \* the store the main thread uses
  seq,        \* _tmp_seq of that store
  main,       \* what the main thread is doing
  epoch,      \* the number of clears that returned
  reply,      \* what the last read_block returned
  faults      \* the faults of this behaviour

disk == <<rows, final, tmps>>
vars == <<rows, final, tmps, store, cur, seq, main, epoch, reply, faults>>

Item(op, h, n) == [op |-> op, hash |-> h, seq |-> n]
Idle == [pc |-> "idle"]
\* "start": no batch taken yet; an item of the batch is at hand in "item".
StoreAt(pc, stop) ==
  [queue |-> << >>, batch |-> << >>, pc |-> pc, stop |-> stop, gone |-> {}]
NewStore == StoreAt("start", FALSE)
Ended == StoreAt("ended", TRUE)

\* An empty directory: tables made, writer started.
Init ==
  /\ rows = {} /\ final = [h \in Hashes |-> None] /\ tmps = {}
  /\ store = [s \in 1 .. MaxStores |-> IF s = 1 THEN NewStore ELSE Ended]
  /\ cur = 1 /\ seq = 0 /\ main = Idle /\ epoch = 0 /\ reply = None
  /\ faults \in Faults

\* put_nowait: dropped when the queue is full.
Put(s, item) ==
  IF Len(s.queue) < MaxQueue THEN [s EXCEPT !.queue = Append(@, item)] ELSE s

TmpOf(h, n) == {t \in tmps : t.hash = h /\ t.seq = n}
Written(f) == [f EXCEPT !.whole = TRUE]

-------------------------------------------------------------------------------
(* The main thread.                                                        *)

\* write_block_async serializes the block and begins to save its file.
SaveBegin(h) ==
  /\ main.pc = "idle" /\ seq < (IF "overlap" \in faults THEN MaxOverlap ELSE MaxSaves)
  /\ seq' = seq + 1
  /\ tmps' = tmps \cup {[hash |-> h, seq |-> seq, epoch |-> epoch, whole |-> FALSE]}
  /\ main' = [pc |-> "save", hash |-> h, seq |-> seq]
  /\ UNCHANGED <<rows, final, store, cur, epoch, reply, faults>>

\* The file is written, under whichever name it has by now, and queued; a
\* full queue drops it.
SaveEnd ==
  /\ main.pc = "save"
  /\ LET h == main.hash
         mine == TmpOf(h, main.seq)
         full == Len(store[cur].queue) >= MaxQueue
     IN /\ tmps' = (tmps \ mine)
                     \cup (IF full THEN {} ELSE {Written(t) : t \in mine})
        /\ final' = IF mine = {} /\ final[h] # None
                      THEN [final EXCEPT ![h] = Written(@)] ELSE final
        /\ store' = [store EXCEPT ![cur] = Put(@, Item("write", h, main.seq))]
  /\ main' = Idle
  /\ UNCHANGED <<rows, cur, seq, epoch, reply, faults>>

\* Saving raises: the file stays as it is.
SaveFail ==
  /\ main.pc = "save" /\ "save" \in faults
  /\ main' = Idle
  /\ UNCHANGED <<rows, final, tmps, store, cur, seq, epoch, reply, faults>>

\* read_block looks up the row ...
ReadRow(h) ==
  /\ main.pc = "idle"
  /\ IF h \in rows THEN main' = [pc |-> "load", hash |-> h] /\ UNCHANGED reply
                   ELSE reply' = None /\ UNCHANGED main
  /\ UNCHANGED <<rows, final, tmps, store, cur, seq, epoch, faults>>

\* ... and loads the file: a hit queues an access update, a file that is
\* gone or does not load queues the removal of row and file.
ReadHit ==
  /\ main.pc = "load" /\ final[main.hash] # None
  /\ LET h == main.hash  f == final[h]
     IN /\ reply' = IF f.whole THEN <<h, f.epoch>> ELSE <<h, None>>
        /\ store' = [store EXCEPT ![cur] = Put(@, Item("access", None, 0))]
  /\ main' = Idle
  /\ UNCHANGED <<rows, final, tmps, cur, seq, epoch, faults>>

ReadMiss ==
  /\ main.pc = "load"
  /\ final[main.hash] # None => ~final[main.hash].whole
  /\ reply' = None
  /\ store' = [store EXCEPT ![cur] = Put(@, Item("cleanup", main.hash, 0))]
  /\ main' = Idle
  /\ UNCHANGED <<rows, final, tmps, cur, seq, epoch, faults>>

\* clear drains the queue, and rmtree lists the directory ...
ClearBegin ==
  /\ main.pc = "idle" /\ epoch < MaxClears
  /\ store' = [store EXCEPT ![cur].queue = << >>]
  /\ main' = [pc |-> "rmtree", tmps |-> tmps, final |-> final]
  /\ UNCHANGED <<rows, final, tmps, cur, seq, epoch, reply, faults>>

\* Bug: clear removes the files that have rows, as it would one by one.
BugClearFiles ==
  /\ main.pc = "rmtree"
  /\ tmps = main.tmps /\ final = main.final
  /\ final' = [h \in Hashes |-> None]
  /\ main' = [pc |-> "rows"]
  /\ UNCHANGED <<rows, tmps, store, cur, seq, epoch, reply, faults>>

\* ... and removes it: it raises when the writer changes it meanwhile.
ClearFiles ==
  /\ main.pc = "rmtree"
  /\ tmps = main.tmps /\ final = main.final
  /\ tmps' = {} /\ final' = [h \in Hashes |-> None]
  /\ main' = [pc |-> "rows"]
  /\ UNCHANGED <<rows, store, cur, seq, epoch, reply, faults>>

ClearRaises ==
  /\ main.pc = "rmtree"
  /\ \E s \in 1 .. MaxStores : store[s].pc \notin {"start", "get", "ended"}
       \/ tmps # main.tmps \/ final # main.final
  /\ \E T \in SUBSET main.tmps, H \in SUBSET Hashes :
       /\ tmps' = tmps \ T
       /\ final' = [h \in Hashes |-> IF h \in H THEN None ELSE final[h]]
  /\ main' = Idle
  /\ UNCHANGED <<rows, store, cur, seq, epoch, reply, faults>>

\* The rows go when no transaction of a writer is open.
ClearRows ==
  /\ main.pc = "rows"
  /\ \A s \in 1 .. MaxStores : store[s].pc # "evict"
  /\ rows' = {} /\ epoch' = epoch + 1 /\ main' = Idle
  /\ UNCHANGED <<final, tmps, store, cur, seq, reply, faults>>

\* shutdown sets the stop event and joins the writer, for five seconds.
Shutdown ==
  /\ main.pc = "idle"
  /\ store' = [store EXCEPT ![cur].stop = TRUE]
  /\ main' = [pc |-> "join"]
  /\ UNCHANGED <<rows, final, tmps, cur, seq, epoch, reply, faults>>

JoinTimeout ==
  /\ main.pc = "join" /\ store[cur].pc # "ended" /\ "overlap" \in faults
  /\ main' = [pc |-> "closed"]
  /\ UNCHANGED <<rows, final, tmps, store, cur, seq, epoch, reply, faults>>

\* Bug: shutdown leaves the queue as it is.
BugFlush ==
  /\ main.pc = "join" /\ store[cur].pc = "ended"
  /\ main' = [pc |-> "flush"]
  /\ UNCHANGED <<rows, final, tmps, store, cur, seq, epoch, reply, faults>>

\* The writer has stopped: the main thread does what is left in the queue.
Flush ==
  /\ main.pc = "join" /\ store[cur].pc = "ended"
  /\ store' = [store EXCEPT ![cur].queue = << >>, ![cur].batch = store[cur].queue,
                            ![cur].pc = "item"]
  /\ main' = [pc |-> "flush"]
  /\ UNCHANGED <<rows, final, tmps, cur, seq, epoch, reply, faults>>

Flushed ==
  /\ main.pc = "flush" /\ store[cur].pc = "ended"
  /\ main' = [pc |-> "closed"]
  /\ UNCHANGED <<rows, final, tmps, store, cur, seq, epoch, reply, faults>>

\* __init__ on the same directory removes every temporary file.
Reopened ==
  /\ cur < MaxStores
  /\ cur' = cur + 1 /\ seq' = 0 /\ main' = Idle /\ tmps' = {}
  /\ UNCHANGED <<rows, final, epoch, reply, faults>>

Reopen ==
  /\ main.pc = "closed"
  /\ Reopened
  /\ store' = [store EXCEPT ![cur + 1] = NewStore]

\* The process ends at any point, and is started again.
Crash ==
  /\ "crash" \in faults
  /\ Reopened
  /\ store' = [s \in 1 .. MaxStores |-> IF s = cur + 1 THEN NewStore ELSE Ended]

-------------------------------------------------------------------------------
(* The background writer of store s.                                       *)

mainvars == <<cur, seq, main, epoch, reply, faults>>

\* The item at hand is done, or has raised.
Done(s) == [store EXCEPT ![s].pc = "item", ![s].batch = Tail(@)]

\* The loop takes what the queue holds, or ends when told to stop.
WriterGet(s) ==
  /\ store[s].pc \in {"start", "get"}
  /\ IF store[s].stop
       THEN store' = [store EXCEPT ![s].pc = "ended"]
       ELSE \E n \in 1 .. Len(store[s].queue) :
              store' = [store EXCEPT ![s].pc = "item",
                                     ![s].batch = SubSeq(store[s].queue, 1, n),
                                     ![s].queue = SubSeq(@, n + 1, Len(@))]
  /\ UNCHANGED <<disk, mainvars>>

AtItem(s, op) == store[s].pc = "item" /\ store[s].batch # << >> /\ Head(store[s].batch).op = op
AtHand(s) == Head(store[s].batch)

WriterAccess(s) ==
  /\ AtItem(s, "access")
  /\ store' = Done(s)
  /\ UNCHANGED <<disk, mainvars>>

\* Bug: only the row is removed.
BugWriterCleanup(s) ==
  /\ AtItem(s, "cleanup")
  /\ store' = IF AtHand(s).hash \in rows THEN [store EXCEPT ![s].pc = "forget"] ELSE Done(s)
  /\ UNCHANGED <<disk, mainvars>>

\* _cleanup_entry: the file, then the row.
WriterCleanup(s) ==
  /\ AtItem(s, "cleanup")
  /\ IF AtHand(s).hash \in rows
       THEN /\ final' = [final EXCEPT ![AtHand(s).hash] = None]
            /\ store' = [store EXCEPT ![s].pc = "forget"]
       ELSE store' = Done(s) /\ UNCHANGED final
  /\ UNCHANGED <<rows, tmps, mainvars>>

WriterForget(s) ==
  /\ store[s].pc = "forget"
  /\ rows' = rows \ {AtHand(s).hash}
  /\ store' = Done(s)
  /\ UNCHANGED <<final, tmps, mainvars>>

\* _write_block: the temporary file goes when there is a row; otherwise it is
\* renamed, which raises when it is gone.
WriterWrite(s) ==
  /\ AtItem(s, "write")
  /\ LET h == AtHand(s).hash
         mine == TmpOf(h, AtHand(s).seq)
     IN /\ tmps' = tmps \ mine
        /\ IF h \in rows \/ mine = {}
             THEN store' = Done(s) /\ UNCHANGED final
             ELSE /\ store' = [store EXCEPT ![s].pc = "renamed"]
                  /\ \E t \in mine :
                       final' = [final EXCEPT ![h] = [epoch |-> t.epoch, whole |-> t.whole]]
  /\ UNCHANGED <<rows, mainvars>>

\* The size is read, which raises when the file is gone, and the row inserted.
WriterInsert(s) ==
  /\ store[s].pc = "renamed"
  /\ \/ rows' = rows \cup {AtHand(s).hash}
     \/ /\ final[AtHand(s).hash] = None \/ "db" \in faults
        /\ UNCHANGED rows
  /\ store' = Done(s)
  /\ UNCHANGED <<final, tmps, mainvars>>

OverBudget == Cardinality(rows) > MaxRows

\* _maybe_evict after the batch: files, then the rows in one transaction.
\* What it raises ends the thread.
WriterEvict(s) ==
  /\ store[s].pc = "item" /\ store[s].batch = << >> /\ main.pc # "flush"
  /\ IF ~OverBudget
       THEN store' = [store EXCEPT ![s].pc = "get"] /\ UNCHANGED final
       ELSE \E V \in SUBSET rows :
              /\ Cardinality(rows \ V) = Target
              /\ final' = [h \in Hashes |-> IF h \in V THEN None ELSE final[h]]
              /\ store' = [store EXCEPT ![s].pc = "evict", ![s].gone = V]
  /\ UNCHANGED <<rows, tmps, mainvars>>

WriterCommit(s) ==
  /\ store[s].pc = "evict"
  /\ \/ /\ rows' = rows \ store[s].gone
        /\ store' = [store EXCEPT ![s].pc = "get", ![s].gone = {}]
     \/ /\ "db" \in faults
        /\ store' = [store EXCEPT ![s].pc = "ended", ![s].gone = {}]
        /\ UNCHANGED rows
  /\ UNCHANGED <<final, tmps, mainvars>>

\* shutdown's flush evicts nothing.
FlushDone(s) ==
  /\ main.pc = "flush" /\ s = cur
  /\ store[s].pc = "item" /\ store[s].batch = << >>
  /\ store' = [store EXCEPT ![s].pc = "ended"]
  /\ UNCHANGED <<disk, mainvars>>

Writer(s) ==
  \/ WriterGet(s) \/ WriterAccess(s) \/ WriterCleanup(s) \/ WriterForget(s)
  \/ WriterWrite(s) \/ WriterInsert(s) \/ WriterEvict(s) \/ WriterCommit(s)
  \/ FlushDone(s)

MainThread ==
  \/ \E h \in Hashes : SaveBegin(h) \/ ReadRow(h)
  \/ SaveEnd \/ SaveFail \/ ReadHit \/ ReadMiss
  \/ ClearBegin \/ ClearFiles \/ ClearRaises \/ ClearRows
  \/ Shutdown \/ JoinTimeout \/ Flush \/ Flushed \/ Reopen

Next == MainThread \/ Crash \/ \E s \in 1 .. MaxStores : Writer(s)

\* A thread that can run does; the main thread finishes what it has begun.
Fairness ==
  /\ \A s \in 1 .. MaxStores : WF_vars(Writer(s))
  /\ WF_vars(main.pc # "idle" /\ MainThread)

Spec == Init /\ [][Next]_vars
FairSpec == Spec /\ Fairness

-------------------------------------------------------------------------------

Items == [op : {"write", "access", "cleanup"}, hash : Hashes \cup {None}, seq : Nat]

\* Queues and batches hold items, files carry an epoch that has begun.
TypeOK ==
  /\ rows \subseteq Hashes
  /\ final \in [Hashes -> {None} \cup [epoch : 0 .. epoch, whole : BOOLEAN]]
  /\ \A t \in tmps : t.hash \in Hashes /\ t.seq < seq /\ t.epoch <= epoch
  /\ \A s \in 1 .. MaxStores :
       /\ store[s].queue \in Seq(Items) /\ Len(store[s].queue) <= MaxQueue
       /\ store[s].batch \in Seq(Items) /\ store[s].gone \subseteq Hashes
       /\ store[s].pc \in {"forget", "renamed"} => store[s].batch # << >>
  /\ cur \in 1 .. MaxStores /\ seq \in 0 .. MaxSaves /\ epoch \in 0 .. MaxClears

\* The store is a lossy store of whole blocks (LossyStore): read_block returns
\* what was saved under the hash after the last clear that returned, whatever
\* the writer, an earlier store's writer and crashes do in between.
Held == {<<h, final[h].epoch>> : h \in {k \in Hashes : final[k] # None}}
          \cup {<<t.hash, t.epoch>> : t \in tmps}

Lossy == INSTANCE LossyStore WITH Keys <- Hashes, held <- Held

Promise == Lossy!Spec

\* A file that eviction does not count, one without a row, exists only while
\* the writer is about to insert the row, unless an insert failed, the process
\* ended just then or two writers worked at once (_write_block, _cleanup_entry,
\* clear); and after every batch the index is within the budget (_maybe_evict).
NoOrphans ==
  /\ TypeOK
  /\ faults \cap {"db", "overlap"} = {} /\ ("crash" \in faults => cur = 1) =>
       \A h \in Hashes \ rows :
         final[h] # None =>
           \E s \in 1 .. MaxStores : store[s].pc = "renamed" /\ AtHand(s).hash = h
  /\ "overlap" \notin faults /\ store[cur].pc = "get" => Cardinality(rows) <= MaxRows

\* Every queued block is written or dropped in the end, by the writer or by the
\* flush of shutdown, when no index error ends the thread and shutdown waits.
Drained ==
  \A h \in Hashes :
    LET queued == \E s \in 1 .. MaxStores : \E i \in DOMAIN store[s].queue :
                    store[s].queue[i].op = "write" /\ store[s].queue[i].hash = h
    IN (queued /\ faults \cap {"overlap", "db"} = {}) ~> ~queued
===============================================================================
