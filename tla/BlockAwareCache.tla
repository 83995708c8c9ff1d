--------------------------- MODULE BlockAwareCache ---------------------------
(***************************************************************************)
(* BlockAwarePrefixCache (vmlx_engine/prefix_cache.py) on top of the block *)
(* pool, and the two protocols its clients follow: the one its docstring   *)
(* shows (fetch_cache, store_cache, release_cache) and the one of the      *)
(* scheduler (vmlx_engine/scheduler.py), which detaches a finished request *)
(* before it stores.                                                       *)
(*                                                                         *)
(* A client runs to completion: the scheduler's methods run on one thread  *)
(* between two awaits.  A prompt is a sequence of block contents; fetching *)
(* matches whole blocks (the partial-block sizes are left out) of a model  *)
(* whose layers are all positional, so a stored block never needs the      *)
(* cumulative state of hybrid models.                                      *)
(***************************************************************************)
EXTENDS BlockPool

CONSTANTS
  Requests,   \* slots for requests; a slot is used again for a new request
  Prompts,    \* Prompts[u]: the prompts a request of user u may have
  Users,      \* the clients to consider, "library" and "scheduler"
  Wrong,      \* data: KV that was computed after the KV of another prefix
  MaxRef      \* bound on the reference count of a block

VARIABLES
  pool,       \* the PagedCacheManager
  tables,     \* request_tables; << >> is no table
  entries,    \* the keys of _request_tables
  index,      \* _prefix_index: per prefix the blocks stored for it, or << >>
  req,        \* what the client knows of its request
  user        \* who uses the cache in this behaviour: "library" or "scheduler"

cache == <<pool, tables, entries, index, req>>
vars == <<cache, user>>

Chain(s, i) == SubSeq(s, 1, i)

ASSUME CacheAssumption ==
  /\ IsFiniteSet(Requests) /\ MaxRef \in Nat
  /\ Users \subseteq {"library", "scheduler"}
  /\ Wrong \in Data /\ Wrong \notin Hash
  /\ Hash \subseteq Seq(Legacy) /\ Hash \subseteq Data
  /\ DOMAIN Prompts = Users
  /\ \A u \in Users : \A s \in Prompts[u] : s \in Seq(Legacy)
                               /\ \A i \in 1 .. Len(s) : Chain(s, i) \in Hash

\* A request that is not in the system; a running one knows whether the KV
\* it decodes from is the KV of its own prompt.
NoRequest == [phase |-> "none", prompt |-> << >>, right |-> TRUE]

Init ==
  /\ pool = EmptyPool
  /\ tables = [r \in Requests |-> << >>]
  /\ entries = {}
  /\ index = [h \in Hash |-> << >>]
  /\ req = [r \in Requests |-> NoRequest]
  /\ user \in Users

-----------------------------------------------------------------------------
\* fetch_cache.

\* Bug: find_shared_prefix goes on after a block that is not cached.
BugSharedBlocks(s) ==
  LET hits == SelectSeq([i \in 1 .. Len(s) |-> FindCached(pool, s[i])],
                        LAMBDA b : b # None)
  IN  hits

\* find_shared_prefix: the longest run of blocks whose contents are cached
\* in allocated blocks; the content hash does not depend on the position.
SharedBlocks(s) ==
  LET hits(k) == \A i \in 1 .. k : FindCached(pool, s[i]) # None
      n == CHOOSE k \in 0 .. Len(s) :
             hits(k) /\ (k < Len(s) => ~ hits(k + 1))
  IN  [i \in 1 .. n |-> FindCached(pool, s[i])]

AllAllocated(ids) == ToSet(ids) \subseteq pool.alloc

\* _find_best_prefix_match: the longest indexed prefix whose block ids are
\* all allocated (to whatever they are allocated now).
BestMatch(s) ==
  LET good == {k \in 1 .. Len(s) :
                 /\ index[Chain(s, k)] # << >>
                 /\ AllAllocated(index[Chain(s, k)])}
  IN  IF good = {} THEN << >>
      ELSE index[Chain(s, CHOOSE k \in good : \A j \in good : j <= k)]

\* The stale entries it removes on its way.
WithoutStale(s) ==
  [h \in Hash |->
     IF (\E k \in 1 .. Len(s) : h = Chain(s, k)) /\ ~ AllAllocated(index[h])
     THEN << >> ELSE index[h]]

\* Bug: a hit is not counted.
BugSharing(p, ids) == p

\* increment_ref for each block of a hit.
Sharing(p, ids) ==
  LET after[n \in 0 .. Len(ids)] ==
        IF n = 0 THEN p ELSE IncrementRef(after[n - 1], ids[n])
  IN  after[Len(ids)]

\* free_block for each block of a table.
Freeing(p, ids) ==
  LET after[n \in 0 .. Len(ids)] ==
        IF n = 0 THEN p ELSE FreeBlock(after[n - 1], ids[n])
  IN  after[Len(ids)]

\* The blocks that a fetch for prompt s hands to the request.
Matched(s) == IF SharedBlocks(s) # << >> THEN SharedBlocks(s) ELSE BestMatch(s)

\* reconstruct_cache: every block is allocated and holds tensors.
Reconstructs(ids) ==
  \A i \in 1 .. Len(ids) : ids[i] \in pool.alloc /\ pool.data[ids[i]] # None

\* The KV in these blocks is the KV of the prefix of s.
HoldsPrefix(ids, s) ==
  \A i \in 1 .. Len(ids) : pool.data[ids[i]] = Chain(s, i)

\* fetch_cache(r, s), and reconstruct_cache for a hit: when a block cannot be
\* used the request keeps its table and prefills from the start.
FetchCache(r, s) ==
  LET ids == Matched(s)
  IN  /\ \A b \in ToSet(ids) : pool.ref[b] < MaxRef
      /\ pool' = Sharing(pool, ids)
      /\ index' = IF SharedBlocks(s) = << >> THEN WithoutStale(s) ELSE index
      /\ tables' = [tables EXCEPT ![r] = ids]
      /\ req' = [req EXCEPT ![r] =
                   [phase |-> "running", prompt |-> s,
                    right |-> Reconstructs(ids) => HoldsPrefix(ids, s)]]
      /\ entries' = entries \ {r}    \* a new request has none

-----------------------------------------------------------------------------
\* store_cache.

\* Bug: a block is stored again although its prefix is cached.
BugStoreBlock(s, right, st, i) ==
  LET p == st.pool
      b == NextFree(p)
      q == SetData(Allocate(p), b, IF right THEN Chain(s, i) ELSE Wrong)
  IN  IF ~ st.room \/ p.free = << >> THEN [st EXCEPT !.room = FALSE]
      ELSE [st EXCEPT !.pool = Publish(q, b, Chain(s, i), s[i]),
                      !.ids = Append(@, b)]

\* One round of the loop over the new blocks: take the block that is cached
\* for the prefix, or one with the same content, or a new one.  The count of
\* a hit is raised where it stands, whether the block is allocated or free.
\* Without a free block handle_memory_pressure(1) finds nothing to evict and
\* the loop stops.
StoreBlock(s, right, st, i) ==
  LET p == st.pool
      h == Chain(s, i)
      same == GetBlock(p, h)
      alike == FindCached(p, s[i])
      b == NextFree(p)
      hit(x) == [st EXCEPT !.pool.ref[x] = @ + 1, !.ids = Append(@, x)]
  IN  IF ~ st.room THEN st
      ELSE IF same # None THEN hit(same)
      ELSE IF alike # None THEN hit(alike)
      ELSE IF p.free = << >> THEN [st EXCEPT !.room = FALSE]
      ELSE [st EXCEPT
              !.pool = Publish(
                         SetData(Allocate(p), b, IF right THEN h ELSE Wrong),
                         b, h, s[i]),
              !.ids = Append(@, b)]

\* The loop, for a request that already has the blocks ids.
StoreLoop(s, right, ids) ==
  LET N == Len(s) - Len(ids)
      after[n \in 0 .. N] ==
        IF n = 0 THEN [pool |-> pool, ids |-> ids, room |-> TRUE]
        ELSE StoreBlock(s, right, after[n - 1], Len(ids) + n)
  IN  after[N]

\* _update_prefix_index: every prefix up to the last block that was stored.
Indexed(s, ids) ==
  [h \in Hash |->
     IF \E i \in 1 .. Len(ids) : h = Chain(s, i)
     THEN SubSeq(ids, 1, Len(h)) ELSE index[h]]

\* store_cache(r, s) by a request that already has the blocks ids.
StoreCache(r, ids) ==
  LET s == req[r].prompt
      done == StoreLoop(s, req[r].right, ids)
  IN  /\ \A b \in Blocks : pool.ref[b] < MaxRef
      /\ IF Len(ids) < Len(s)
         THEN /\ pool' = done.pool
              /\ index' = Indexed(s, done.ids)
              /\ entries' = entries \cup {r}
              /\ tables' = [tables EXCEPT ![r] = done.ids]
         ELSE UNCHANGED <<pool, index, entries, tables>>

-----------------------------------------------------------------------------
\* The docstring's protocol.

LibraryFetch(r, s) ==
  /\ req[r].phase = "none"
  /\ FetchCache(r, s)

\* After generation the client stores what it computed.
LibraryStore(r) ==
  /\ req[r].phase = "running"
  /\ StoreCache(r, tables[r])
  /\ req' = [req EXCEPT ![r].phase = "stored"]

\* release_cache: nothing happens unless store_cache made an entry.
ReleaseCache(r) ==
  /\ req[r].phase = "stored"
  /\ IF r \in entries
     THEN /\ pool' = Freeing(pool, tables[r])
          /\ tables' = [tables EXCEPT ![r] = << >>]
          /\ entries' = entries \ {r}
     ELSE UNCHANGED <<pool, tables, entries>>
  /\ req' = [req EXCEPT ![r] = NoRequest]
  /\ UNCHANGED index

\* clear.
Clear ==
  /\ pool' = EmptyPool
  /\ tables' = [r \in Requests |-> << >>]
  /\ entries' = {}
  /\ index' = [h \in Hash |-> << >>]
  /\ UNCHANGED req

LibraryNext ==
  \/ \E r \in Requests :
       \/ \E s \in Prompts[user] : LibraryFetch(r, s)
       \/ LibraryStore(r)
       \/ ReleaseCache(r)
  \/ Clear

-----------------------------------------------------------------------------
\* The scheduler's protocol.

\* add_request looks its prompt up.  A finished request's slot can be taken
\* by a new one: nothing will refer to the finished one again.
AddRequest(r, s) ==
  /\ req[r].phase \in {"none", "finished"}
  /\ FetchCache(r, s)

\* add_request finds the prompt in the disk cache after a miss: it is stored
\* and the request detached at once.
AddFromDisk(r, s) ==
  LET done == StoreLoop(s, TRUE, << >>)
  IN  /\ req[r].phase \in {"none", "finished"}
      /\ Matched(s) = << >>
      /\ \A b \in Blocks : pool.ref[b] < MaxRef
      /\ pool' = done.pool
      /\ index' = Indexed(s, done.ids)
      /\ entries' = entries \ {r}
      /\ tables' = [tables EXCEPT ![r] = << >>]
      /\ req' = [req EXCEPT ![r] =
                   [phase |-> "running", prompt |-> s, right |-> TRUE]]

\* _cleanup_finished for a request whose cache is not worth storing: its
\* entry is dropped and its table detached.
FinishWithoutStore(r) ==
  /\ req[r].phase = "running"
  /\ entries' = entries \ {r}
  /\ tables' = [tables EXCEPT ![r] = << >>]
  /\ req' = [req EXCEPT ![r].phase = "finished"]
  /\ UNCHANGED <<pool, index>>

\* _cleanup_finished otherwise: the table is detached first, so that the
\* store starts from an empty one.
FinishAndStore(r) ==
  /\ req[r].phase = "running"
  /\ StoreCache(r, << >>)
  /\ req' = [req EXCEPT ![r].phase = "finished"]

\* abort_request: the table's references are given back.
AbortRequest(r) ==
  /\ req[r].phase = "running"
  /\ pool' = Freeing(pool, tables[r])
  /\ tables' = [tables EXCEPT ![r] = << >>]
  /\ entries' = entries \ {r}
  /\ req' = [req EXCEPT ![r] = NoRequest]
  /\ UNCHANGED index

SchedulerNext ==
  \/ \E r \in Requests :
       \/ \E s \in Prompts[user] : AddRequest(r, s) \/ AddFromDisk(r, s)
       \/ FinishWithoutStore(r)
       \/ FinishAndStore(r)
       \/ AbortRequest(r)
  \/ Clear

Next ==
  /\ UNCHANGED user
  /\ \/ user = "library" /\ LibraryNext
     \/ user = "scheduler" /\ SchedulerNext

Spec == Init /\ [][Next]_vars

-----------------------------------------------------------------------------
(***************************************************************************)
(* Properties.                                                             *)
(***************************************************************************)

\* The types of the variables.
TypeOK ==
  /\ pool \in Pools
  /\ tables \in [Requests -> Seq(Blocks)]
  /\ entries \subseteq Requests
  /\ index \in [Hash -> Seq(Blocks)]
  /\ req \in [Requests -> [phase  : {"none", "running", "stored", "finished"},
                           prompt : Prompts[user] \cup {<< >>},
                           right  : BOOLEAN]]

\* A request never decodes from the KV of another prefix.
OwnKV == \A r \in Requests : req[r].phase = "running" => req[r].right

\* The prefix index leads from a prefix to the blocks with its KV, or to
\* blocks that are recognised as freed, and a prefix is held in one block only,
\* however many requests compute it at the same time.
IndexResolves ==
  /\ TypeOK
  /\ \A h \in Hash :
       /\ index[h] # << >> /\ AllAllocated(index[h]) => HoldsPrefix(index[h], h)
       /\ Len(pool.hmap[h]) <= 1

\* Aborting a request takes a cached block away from nobody: a block that is
\* published stays allocated until everything is cleared.
CachedStays ==
  [][user = "scheduler" /\ pool' # EmptyPool =>
       \A b \in Blocks : pool.hash[b] # None =>
         /\ b \in pool'.alloc
         /\ pool'.hash[b] = pool.hash[b] /\ pool'.data[b] = pool.data[b]]_vars
=============================================================================
