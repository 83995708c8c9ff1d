------------------------------ MODULE BlockPool ------------------------------
(***************************************************************************)
(* The block pool of the paged KV cache: the state PagedCacheManager keeps *)
(* about its blocks (vmlx_engine/paged_cache.py) and what each of its      *)
(* primitive operations does to it.  A pool is a record                    *)
(*                                                                         *)
(*   free   free_block_queue: ids in eviction order, the head goes first   *)
(*   alloc  allocated_blocks                                               *)
(*   ref    CacheBlock.ref_count                                           *)
(*   hash   CacheBlock.block_hash, the chain hash, or None                 *)
(*   hval   CacheBlock.hash_value, the legacy content hash, or None        *)
(*   data   what the block's KV tensors were computed for, or None         *)
(*   hmap   cached_block_hash_to_block: per chain hash, its blocks in the  *)
(*          order they were inserted                                       *)
(*   lmap   hash_to_block: per legacy hash, the block registered last      *)
(*                                                                         *)
(* An operator maps a pool to the pool after the call; the modules that    *)
(* EXTEND this one use them in their actions.  The reserved null block 0   *)
(* is left out: it is popped at construction, pinned with one reference,   *)
(* and no operation puts it into a table or an index.  Statistics and      *)
(* access times are left out, prefix caching is enabled as in production.  *)
(***************************************************************************)
EXTENDS Integers, Sequences, FiniteSets, SequencesExt

CONSTANTS
  NumBlocks,   \* usable blocks: max_blocks - 1
  Hash,        \* chain hashes (compute_block_hash)
  Legacy,      \* content hashes (PagedCacheManager.compute_block_hash)
  Data,        \* what the tensors of a block can hold
  None         \* Python's None

Blocks == 1 .. NumBlocks

ASSUME PoolAssumption ==
  /\ NumBlocks \in Nat \ {0}
  /\ None \notin Blocks
  /\ None \notin Hash
  /\ None \notin Legacy
  /\ None \notin Data

Pools ==
  [free  : Seq(Blocks),
   alloc : SUBSET Blocks,
   ref   : [Blocks -> Nat],
   hash  : [Blocks -> Hash \cup {None}],
   hval  : [Blocks -> Legacy \cup {None}],
   data  : [Blocks -> Data \cup {None}],
   hmap  : [Hash -> Seq(Blocks)],
   lmap  : [Legacy -> Blocks \cup {None}]]

\* The sequence s without the element e, which it holds at most once.
Unlinked(s, e) ==
  IF Contains(s, e)
  THEN RemoveAt(s, CHOOSE i \in 1 .. Len(s) : s[i] = e)
  ELSE s

\* __init__ and clear: every block is free, in the order of the ids.
EmptyPool ==
  [free  |-> [i \in 1 .. NumBlocks |-> i],
   alloc |-> {},
   ref   |-> [b \in Blocks |-> 0],
   hash  |-> [b \in Blocks |-> None],
   hval  |-> [b \in Blocks |-> None],
   data  |-> [b \in Blocks |-> None],
   hmap  |-> [h \in Hash |-> << >>],
   lmap  |-> [v \in Legacy |-> None]]

-----------------------------------------------------------------------------
\* The two hash indexes.

\* BlockHashToBlockMap.get_block: the block inserted first.
GetBlock(p, h) == IF p.hmap[h] = << >> THEN None ELSE Head(p.hmap[h])

\* find_cached_block: only a block that is allocated is a legacy hit.
FindCached(p, v) ==
  IF p.lmap[v] \in p.alloc THEN p.lmap[v] ELSE None

\* block.block_hash = h, and BlockHashToBlockMap.insert.
InsertHash(p, b, h) ==
  [p EXCEPT !.hash[b] = h,
            !.hmap[h] = IF Contains(@, b) THEN @ ELSE Append(@, b)]

\* register_block_hash: the last registration of a content wins.
RegisterLegacy(p, b, v) ==
  [p EXCEPT !.hval[b] = v, !.lmap[v] = b]

\* Bug: the content index keeps an entry for the evicted block.
BugEvictKeepsLegacy(p, b) ==
  LET h == p.hash[b]
  IN  IF h = None \/ ~ Contains(p.hmap[h], b) THEN p
      ELSE [p EXCEPT !.hmap[h] = Unlinked(@, b),
                     !.hash[b] = None, !.hval[b] = None, !.data[b] = None]

\* A computed block is published under its chain hash and its content.
Publish(p, b, h, v) == RegisterLegacy(InsertHash(p, b, h), b, v)

\* _maybe_evict_cached_block: forget what a reusable block still caches.
MaybeEvict(p, b) ==
  LET h == p.hash[b]
      v == p.hval[b]
  IN  IF h = None THEN p
      ELSE IF ~ Contains(p.hmap[h], b) THEN p
      ELSE [p EXCEPT
              !.hmap[h] = Unlinked(@, b),
              !.lmap = [u \in Legacy |->
                          IF u = v /\ @[u] = b THEN None ELSE @[u]],
              !.hash[b] = None,
              !.hval[b] = None,
              !.data[b] = None]

-----------------------------------------------------------------------------
\* Allocation, references and eviction.

\* The block the next allocation hands out.
NextFree(p) == Head(p.free)

\* Bug: a reused block is not evicted from the indexes.
BugAllocateCached(p) ==
  LET b == NextFree(p)
  IN  [p EXCEPT !.free = Tail(@), !.alloc = @ \cup {b}, !.ref[b] = 1]

\* allocate_block, when a block is free.
Allocate(p) ==
  LET b == NextFree(p)
  IN  [MaybeEvict(p, b) EXCEPT
         !.free = Tail(@), !.alloc = @ \cup {b}, !.ref[b] = 1]

\* Bug: a block goes back to the queue while other tables still hold it.
BugFreeShared(p, b) ==
  IF b \notin p.alloc THEN p
  ELSE IF p.ref[b] > 1
  THEN [p EXCEPT !.ref[b] = @ - 1, !.free = Append(@, b)]
  ELSE [p EXCEPT !.ref[b] = 0, !.alloc = @ \ {b}, !.free = Append(@, b)]

\* free_block: an unknown block is ignored; the last reference puts the
\* block at the back of the queue, with its hash and its tensors.
FreeBlock(p, b) ==
  IF b \notin p.alloc THEN p
  ELSE IF p.ref[b] > 1 THEN [p EXCEPT !.ref[b] = @ - 1]
  ELSE [p EXCEPT !.ref[b] = 0,
                 !.alloc = @ \ {b},
                 !.free = Append(@, b)]

\* increment_ref: only an allocated block can be shared.
IncrementRef(p, b) ==
  IF b \in p.alloc THEN [p EXCEPT !.ref[b] = @ + 1] ELSE p

\* Bug: a hit leaves the block in the free queue.
BugTouchKeepsQueue(p, b) ==
  IF p.ref[b] = 0
  THEN [p EXCEPT !.alloc = @ \cup {b}, !.ref[b] = 1]
  ELSE [p EXCEPT !.ref[b] = @ + 1]

\* touch: a hit on a free block takes it out of the free queue.
Touch(p, b) ==
  IF p.ref[b] = 0 /\ Contains(p.free, b)
  THEN [p EXCEPT !.free = Unlinked(@, b),
                 !.alloc = @ \cup {b},
                 !.ref[b] = 1]
  ELSE [p EXCEPT !.ref[b] = @ + 1]

\* Bug: the shared block keeps the reference of the table that left it.
BugCowKeepsRef(p, b) ==
  [Allocate(p) EXCEPT !.data[NextFree(p)] = p.data[b]]

\* _cow_copy_block: a private copy of b, one reference less on b.
CowCopy(p, b) ==
  [Allocate(p) EXCEPT
     !.data[NextFree(p)] = p.data[b],
     !.ref[b] = @ - 1]

\* block.cache_data = d: the block now holds the tensors computed for d.
SetData(p, b, d) == [p EXCEPT !.data[b] = d]

\* One round of evict_lru_blocks: the front block loses its cached content
\* and goes to the back.
EvictFront(p) ==
  LET b == NextFree(p)
  IN  [MaybeEvict(p, b) EXCEPT !.free = Append(Tail(@), b)]

\* reset_prefix_cache, when no block is in use.
ForgetAll(p) ==
  [EmptyPool EXCEPT !.free = p.free, !.alloc = p.alloc, !.ref = p.ref]

-----------------------------------------------------------------------------
\* What holds of a pool between any two of these operations.

\* Every block is in exactly one place: once in the free queue with no
\* reference, or allocated with at least one.
FreeExact(p) ==
  /\ IsInjective(p.free)
  /\ ToSet(p.free) = Blocks \ p.alloc
  /\ \A b \in Blocks : b \in p.alloc <=> p.ref[b] > 0

\* A block is indexed under its chain hash and under no other, once; the
\* content index leads to blocks that are published under that content.
IndexExact(p) ==
  /\ \A h \in Hash : IsInjective(p.hmap[h])
  /\ \A h \in Hash : \A b \in Blocks : Contains(p.hmap[h], b) <=> p.hash[b] = h
  /\ \A v \in Legacy : p.lmap[v] # None =>
       p.hash[p.lmap[v]] # None /\ p.hval[p.lmap[v]] = v
=============================================================================
