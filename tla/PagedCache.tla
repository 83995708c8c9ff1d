------------------------------ MODULE PagedCache ------------------------------
(***************************************************************************)
(* PagedCacheManager (vmlx_engine/paged_cache.py) and the requests that    *)
(* use it: block tables over a shared pool, chain-hash prefix hits,        *)
(* copy-on-write forks, deletion, detachment and eviction.                 *)
(*                                                                         *)
(* Every method runs under the manager's lock, and many of them loop over  *)
(* blocks.  The variable op is the method that holds the lock: an action   *)
(* that needs the lock starts only when op is idle, and a loop takes one   *)
(* step per block, so every intermediate state of a loop is a state of the *)
(* model.  A request is a client of the manager that computes the blocks   *)
(* of one prompt in order; Prompt[r][i] is the content of its i-th full    *)
(* block and Chain(r, i) the chain hash of its first i blocks.             *)
(***************************************************************************)
EXTENDS BlockPool

CONSTANTS
  Requests,   \* request ids
  Prompt,     \* Prompt[r]: the contents of r's full blocks
  MaxLost     \* bound on the references a block may lose to detach_request

VARIABLES
  pool,       \* the block pool, see BlockPool
  tables,     \* request_tables: r's block ids; << >> is no table
  lost,       \* references whose table was detached: nobody can drop them
  op          \* the method that holds the lock

vars == <<pool, tables, lost, op>>

\* compute_block_hash chained over r's first i blocks.
Chain(r, i) == SubSeq(Prompt[r], 1, i)

ASSUME RequestAssumption ==
  /\ IsFiniteSet(Requests)
  /\ None \notin Requests
  /\ MaxLost \in Nat
  /\ Hash \subseteq Seq(Legacy)
  /\ Hash \subseteq Data
  /\ Prompt \in [Requests -> Seq(Legacy)]
  /\ \A r \in Requests : \A i \in 1 .. Len(Prompt[r]) : Chain(r, i) \in Hash

Kinds == {"idle", "grow", "cache", "lookup", "touch", "fork", "cow",
          "delete", "evict"}

Ops == [kind   : Kinds,
        req    : Requests \cup {None},   \* the request it works for
        src    : Requests \cup {None},   \* fork: the request it copies
        pos    : Nat,                 \* the next block position or round
        last   : Nat,                 \* the last one
        hits   : Seq(Blocks)]         \* lookup, touch: blocks found

Idle == op.kind = "idle"

IdleOp == [kind |-> "idle", req |-> None, src |-> None,
           pos |-> 1, last |-> 0, hits |-> << >>]

\* A method takes the lock.
Begin(kind, r, s, first, last) ==
  /\ Idle
  /\ op' = [kind |-> kind, req |-> r, src |-> s,
            pos |-> first, last |-> last, hits |-> << >>]

\* The blocks that request r holds.
Held(r) == ToSet(tables[r])

Init ==
  /\ pool = EmptyPool
  /\ tables = [r \in Requests |-> << >>]
  /\ lost = [b \in Blocks |-> 0]
  /\ op = IdleOp

-----------------------------------------------------------------------------
\* get_new_blocks(n), or allocate_block for n = 1, and add_block_to_table:
\* r computes its next n blocks.  With fewer than n free blocks the call
\* raises (or returns None) and changes nothing.
GetNewBlocks(r, n) ==
  /\ n <= Len(pool.free)
  /\ Len(tables[r]) + n <= Len(Prompt[r])
  /\ Begin("grow", r, r, 1, n)
  /\ UNCHANGED <<pool, tables, lost>>

GrowStep ==
  LET r == op.req
      b == NextFree(pool)
  IN  /\ op.kind = "grow" /\ op.pos <= op.last
      /\ pool' = SetData(Allocate(pool), b, Chain(r, Len(tables[r]) + 1))
      /\ tables' = [tables EXCEPT ![r] = Append(@, b)]
      /\ op' = [op EXCEPT !.pos = @ + 1]
      /\ UNCHANGED lost

\* cache_full_blocks(blocks, tokens, k, n): publish blocks k+1 .. n of r.
\* The parent hash is taken from block k, which the caller says is cached.
CacheFullBlocks(r, k, n) ==
  /\ k < n /\ n <= Len(tables[r])
  /\ k > 0 => pool.hash[tables[r][k]] # None
  /\ Begin("cache", r, r, k + 1, n)
  /\ UNCHANGED <<pool, tables, lost>>

CacheStep ==
  LET r == op.req
      i == op.pos
      b == tables[r][i]
      parent == IF i = 1 THEN << >> ELSE pool.hash[tables[r][i - 1]]
      v == Prompt[r][i]
  IN  /\ op.kind = "cache" /\ i <= op.last
      /\ pool' = IF pool.hash[b] # None THEN pool
                 ELSE Publish(pool, b, Append(parent, v), v)
      /\ op' = [op EXCEPT !.pos = @ + 1]
      /\ UNCHANGED <<tables, lost>>

\* get_computed_blocks and touch: a new request takes over the blocks that
\* are cached for a prefix of its prompt, in the free queue or not.
Lookup(r) ==
  /\ tables[r] = << >>
  /\ Begin("lookup", r, r, 1, Len(Prompt[r]))
  /\ UNCHANGED <<pool, tables, lost>>

LookupStep ==
  LET b == GetBlock(pool, Chain(op.req, op.pos))
  IN  /\ op.kind = "lookup"
      /\ op' = IF op.pos <= op.last /\ b # None
               THEN [op EXCEPT !.pos = @ + 1, !.hits = Append(@, b)]
               ELSE [op EXCEPT !.kind = "touch"]
      /\ UNCHANGED <<pool, tables, lost>>

TouchStep ==
  LET r == op.req
      b == Head(op.hits)
  IN  /\ op.kind = "touch" /\ op.hits # << >>
      /\ pool' = Touch(pool, b)
      /\ tables' = [tables EXCEPT ![r] = Append(@, b)]
      /\ op' = [op EXCEPT !.hits = Tail(@)]
      /\ UNCHANGED lost

\* fork_block_table: request s continues where r is.
ForkBlockTable(r, s) ==
  /\ tables[r] # << >> /\ tables[s] = << >>
  /\ Len(tables[r]) <= Len(Prompt[s])
  /\ Chain(r, Len(tables[r])) = Chain(s, Len(tables[r]))
  /\ Begin("fork", s, r, 1, Len(tables[r]))
  /\ UNCHANGED <<pool, tables, lost>>

ForkStep ==
  LET b == tables[op.src][op.pos]
  IN  /\ op.kind = "fork" /\ op.pos <= op.last
      /\ pool' = IncrementRef(pool, b)
      /\ tables' = [tables EXCEPT ![op.req] = Append(@, b)]
      /\ op' = [op EXCEPT !.pos = @ + 1]
      /\ UNCHANGED lost

\* get_blocks_for_generation: r gets a private copy of each shared block;
\* when the pool is out of blocks the shared block is kept.
GetBlocksForGeneration(r) ==
  /\ tables[r] # << >>
  /\ Begin("cow", r, r, 1, Len(tables[r]))
  /\ UNCHANGED <<pool, tables, lost>>

CowStep ==
  LET r == op.req
      b == tables[r][op.pos]
  IN  /\ op.kind = "cow" /\ op.pos <= op.last
      /\ IF b \in pool.alloc /\ pool.ref[b] > 1 /\ pool.free # << >>
         THEN /\ pool' = CowCopy(pool, b)
              /\ tables' = [tables EXCEPT ![r][op.pos] = NextFree(pool)]
         ELSE UNCHANGED <<pool, tables>>
      /\ op' = [op EXCEPT !.pos = @ + 1]
      /\ UNCHANGED lost

\* delete_block_table: the table is dropped and its blocks freed in order.
DeleteBlockTable(r) ==
  /\ tables[r] # << >>
  /\ Begin("delete", r, r, 1, Len(tables[r]))
  /\ UNCHANGED <<pool, tables, lost>>

DeleteStep ==
  LET r == op.req
  IN  /\ op.kind = "delete" /\ op.pos <= op.last
      /\ pool' = FreeBlock(pool, Head(tables[r]))
      /\ tables' = [tables EXCEPT ![r] = Tail(@)]
      /\ op' = [op EXCEPT !.pos = @ + 1]
      /\ UNCHANGED lost

\* detach_request: the table is dropped, its references are not.
DetachRequest(r) ==
  /\ Idle /\ tables[r] # << >>
  /\ \A b \in Held(r) : lost[b] < MaxLost
  /\ tables' = [tables EXCEPT ![r] = << >>]
  /\ lost' = [b \in Blocks |-> IF b \in Held(r) THEN lost[b] + 1 ELSE lost[b]]
  /\ UNCHANGED <<pool, op>>

\* handle_memory_pressure(k) and the evict_lru_blocks it calls.
HandleMemoryPressure(k) ==
  LET missing == k - Len(pool.free)
  IN  /\ missing > 0
      /\ Begin("evict", None, None, 1,
               IF missing < Len(pool.free) THEN missing ELSE Len(pool.free))
      /\ UNCHANGED <<pool, tables, lost>>

EvictStep ==
  /\ op.kind = "evict" /\ op.pos <= op.last
  /\ pool' = EvictFront(pool)
  /\ op' = [op EXCEPT !.pos = @ + 1]
  /\ UNCHANGED <<tables, lost>>

\* The loop is over: the method returns and releases the lock.
Return ==
  /\ \/ /\ op.kind \in {"grow", "cache", "fork", "cow", "delete", "evict"}
        /\ op.pos > op.last
     \/ op.kind = "touch" /\ op.hits = << >>
  /\ op' = IdleOp
  /\ UNCHANGED <<pool, tables, lost>>

\* reset_prefix_cache: refused while any block is in use.
ResetPrefixCache ==
  /\ Idle /\ Len(pool.free) = NumBlocks
  /\ pool' = ForgetAll(pool)
  /\ UNCHANGED <<tables, lost, op>>

\* clear: blocks, queue, indexes and tables are made anew.
Clear ==
  /\ Idle
  /\ pool' = EmptyPool
  /\ tables' = [r \in Requests |-> << >>]
  /\ lost' = [b \in Blocks |-> 0]
  /\ UNCHANGED op

Loop ==
  \/ GrowStep \/ CacheStep \/ LookupStep \/ TouchStep \/ ForkStep
  \/ CowStep \/ DeleteStep \/ EvictStep \/ Return

Next ==
  \/ \E r \in Requests :
       \/ \E n \in 1 .. NumBlocks : GetNewBlocks(r, n)
       \/ \E n \in 1 .. NumBlocks : \E k \in 0 .. n - 1 :
            CacheFullBlocks(r, k, n)
       \/ Lookup(r)
       \/ \E s \in Requests : ForkBlockTable(r, s)
       \/ GetBlocksForGeneration(r)
       \/ DeleteBlockTable(r)
       \/ DetachRequest(r)
  \/ \E k \in 1 .. NumBlocks : HandleMemoryPressure(k)
  \/ ResetPrefixCache
  \/ Clear
  \/ Loop

Spec == Init /\ [][Next]_vars

-----------------------------------------------------------------------------
(***************************************************************************)
(* Properties.                                                             *)
(***************************************************************************)

\* The types of the variables.
TypeOK ==
  /\ pool \in Pools
  /\ tables \in [Requests -> Seq(Blocks)]
  /\ lost \in [Blocks -> Nat]
  /\ op \in Ops

\* No block is handed out twice and none gets lost: the free queue and the
\* reference counts agree after every step of every loop.
FreeListExact == FreeExact(pool)

\* The requests whose table holds block b.
Users(b) == {r \in Requests : b \in Held(r)}

\* A block's reference count is the number of tables that hold it plus the
\* references that detach_request abandoned: freeing is never early, so no
\* block is reused under a live table, and never late.
RefCountExact ==
  \A b \in Blocks : pool.ref[b] = Cardinality(Users(b)) + lost[b]

\* How many blocks of r's table a running delete_block_table has dropped.
Dropped(r) == IF op.kind = "delete" /\ op.req = r THEN op.pos - 1 ELSE 0

\* The i-th block of a table holds the KV of the request's own first i
\* blocks, whatever was shared, copied, evicted or reused in between.
TablesHoldOwnPrefix ==
  \A r \in Requests : \A i \in 1 .. Len(tables[r]) :
    pool.data[tables[r][i]] = Chain(r, Dropped(r) + i)

\* Both indexes lead to the blocks that hold what they are indexed by and to
\* no others, although eviction is lazy and blocks are reused.
IndexSound ==
  /\ IndexExact(pool)
  /\ \A b \in Blocks : pool.hash[b] # None => pool.data[b] = pool.hash[b]
  /\ \A v \in Legacy : pool.lmap[v] # None =>
       LET h == pool.hash[pool.lmap[v]] IN h[Len(h)] = v

\* The tensors of a block never change while some reference is held on it.
DataStable ==
  [][\A b \in Blocks :
       pool.ref[b] > 0 /\ pool'.ref[b] > 0 => pool'.data[b] = pool.data[b]]_vars
=============================================================================
