------------------------------ MODULE PromptCache ------------------------------
(***************************************************************************)
(* The caches of whole prompts and their use by the scheduler: in memory   *)
(* (L1) MemoryAwarePrefixCache (memory_cache.py) or the trie of            *)
(* PrefixCacheManager (prefix_cache.py), on disk (L2) DiskCacheManager     *)
(* (disk_cache.py) with its background writer.                             *)
(*                                                                         *)
(* The KV of a sequence of tokens is that sequence: the generator appends  *)
(* what it is fed and what it makes, the scheduler cuts off all but the    *)
(* first N - 1 tokens of a prompt of N before it stores them, and feeds    *)
(* the tokens a fetch leaves over, or the last one.  Layers are            *)
(* positional (BlockData has the others); all files have one size.         *)
(***************************************************************************)
EXTENDS Naturals, FiniteSets, Lists

CONSTANTS
  Prompts,     \* the prompts, sequences of tokens
  Worlds,      \* the L1 cache, "memory" or "trie", with the faults to consider,
               \* of "crash", "save", "db", "overlap"
  Limit,       \* _base_memory_limit, in tokens
  Reduced,     \* the budget under memory pressure
  MaxEntries,  \* max_entries of the L1
  MaxQueue,    \* maxsize of the writer's queue (1000)
  MaxRows,     \* max_size_bytes of the L2, in files
  MaxRequests, \* bound: requests
  MaxClears,   \* bound: clears of the L2
  MaxStarts,   \* bound: how often the process or the scheduler starts
  None

ASSUME PromptCacheAssumption ==
  /\ \A p \in Prompts : p # << >> /\ p \in Seq(Nat)
  /\ Worlds \subseteq {"memory", "trie"} \X SUBSET {"crash", "save", "db", "overlap"}
  /\ Limit \in Nat /\ Reduced \in 0 .. Limit /\ MaxEntries \in Nat \ {0}
  /\ MaxQueue \in Nat \ {0} /\ MaxRows \in Nat \ {0}
  /\ MaxRequests \in Nat /\ MaxClears \in Nat /\ MaxStarts \in Nat
  /\ None \notin [kv : Seq(Nat), by : {"thread", "main"}, whole : BOOLEAN]

VARIABLES
  kind,        \* the L1 of this behaviour
  faults,      \* the faults of this behaviour
  mem,         \* MemoryAwarePrefixCache
  trie,        \* PrefixCacheManager
  reqs,        \* the requests that wait or run
  came,        \* how many have come
  main,        \* what the main thread is doing
  rows, final, tmp,  \* the index, the files, the temporary files by prompt
  queue,       \* the writer's queue
  wr,          \* who writes: the background thread, the main thread in shutdown
  stop,        \* _stop_event
  clears, starts,
  stray        \* history: the rows that stood when fetch removed their file

l1vars == <<kind, faults, mem, trie>>
disk == <<rows, final, tmp>>
vars == <<l1vars, reqs, came, main, disk, queue, wr, stop, clears, starts, stray>>

Idle == [pc |-> "idle"]
Actors == {"thread", "main"}

\* Entries in the order of the OrderedDict, least recently used first.
EmptyMem == [entries |-> << >>, total |-> 0, limit |-> Limit]

\* Nodes are the paths of the trie; cached maps those with a cache to it.
EmptyTrie == [nodes |-> {}, cached |-> << >>, lru |-> << >>]

\* item is what a writer writes, gone the rows its eviction removes.
Free == [pc |-> "get", item |-> None, gone |-> {}]

Init ==
  /\ \E w \in Worlds : kind = w[1] /\ faults = w[2]
  /\ mem = EmptyMem /\ trie = EmptyTrie
  /\ reqs = {} /\ came = 0 /\ main = Idle
  /\ rows = {} /\ final = [p \in Prompts |-> None] /\ tmp = [p \in Prompts |-> None]
  /\ queue = << >> /\ wr = [a \in Actors |-> Free] /\ stop = FALSE
  /\ clears = 0 /\ starts = 0 /\ stray = {}

-------------------------------------------------------------------------------
(* MemoryAwarePrefixCache.                                                 *)

Cost(kv) == Len(kv)
CostOf(entries) ==
  LET sum[n \in 0 .. Len(entries)] == IF n = 0 THEN 0 ELSE sum[n - 1] + entries[n].cost
  IN  sum[Len(entries)]

\* The entries with keys in K go.
Dropped(m, K) ==
  LET gone == {e \in ToSet(m.entries) : e.key \in K}
  IN  [m EXCEPT !.entries = Without(@, gone), !.total = @ - CostOf(Only(m.entries, gone))]
Keys(m) == {m.entries[i].key : i \in DOMAIN m.entries}
Oldest(m, n) == {m.entries[i].key : i \in 1 .. n}
Used(m, i) == [m EXCEPT !.entries = Append(RemoveAt(@, i), @[i])]

\* _truncate_cache.
Cut(kv, n) == SubSeq(kv, 1, IF n < Len(kv) THEN n ELSE Len(kv))

Miss(c, tokens) == [cache |-> c, kv |-> None, rest |-> tokens, how |-> "miss"]

\* fetch: the exact key, else the longest shorter one, else the first longer.
MemFetch(m, tokens) ==
  LET key(i) == m.entries[i].key
      kv(i) == m.entries[i].kv
      shorter == {i \in DOMAIN m.entries : IsStrictPrefix(key(i), tokens)}
      longer == {i \in DOMAIN m.entries : IsStrictPrefix(tokens, key(i))}
      hit(i, k, rest, how) == [cache |-> Used(m, i), kv |-> k, rest |-> rest, how |-> how]
  IN IF tokens \in Keys(m) THEN
       LET i == CHOOSE j \in DOMAIN m.entries : key(j) = tokens
       IN hit(i, kv(i), << >>, "exact")
     ELSE IF shorter # {} THEN
       LET i == CHOOSE j \in shorter : \A k \in shorter : Len(key(k)) <= Len(key(j))
       IN hit(i, kv(i), SubSeq(tokens, Len(key(i)) + 1, Len(tokens)), "shorter")
     ELSE IF longer # {} THEN
       LET i == CHOOSE j \in longer : \A k \in longer : j <= k
       IN hit(i, Cut(kv(i), Len(tokens)), << >>, "longer")
     ELSE Miss(m, tokens)

\* The loop of _evict_lru in store takes the least number of oldest entries.
MakeRoom(m, cost) ==
  LET fits(n) == LET w == Dropped(m, Oldest(m, n))
                 IN \/ w.entries = << >>
                    \/ w.total + cost <= m.limit /\ Len(w.entries) < MaxEntries
  IN Dropped(m, Oldest(m, CHOOSE n \in 0 .. Len(m.entries) :
                            fits(n) /\ \A k \in 0 .. n - 1 : ~fits(k)))

\* store, with the limit the pressure check leaves and the keys X expired: a
\* key that is there moves to the end, an entry above 95 % of the limit is
\* refused.
MemStore(m0, tokens, kv, limit, X) ==
  LET m == [m0 EXCEPT !.limit = limit]
      live == Dropped(m, X)
      room == MakeRoom(live, Cost(kv))
  IN IF tokens \in Keys(m)
       THEN Used(m, CHOOSE i \in DOMAIN m.entries : m.entries[i].key = tokens)
     ELSE IF Cost(kv) > (95 * limit) \div 100 THEN live
     ELSE [room EXCEPT !.entries = Append(@, [key |-> tokens, kv |-> kv, cost |-> Cost(kv)]),
                       !.total = @ + Cost(kv)]

-------------------------------------------------------------------------------
(* PrefixCacheManager.                                                     *)

PathsOf(tokens) == {SubSeq(tokens, 1, n) : n \in 1 .. Len(tokens)}
Touched(lru, key) == Append(Without(lru, {key}), key)

\* _search and fetch_cache.  Of the longer keys the shortest is found first;
\* its place in the LRU order stays.
TrieFetch(t, tokens) ==
  LET walked == {p \in PathsOf(tokens) : p \in t.nodes}
      depth == Cardinality(walked)
      at == SubSeq(tokens, 1, depth)
      below == {k \in DOMAIN t.cached : IsPrefix(tokens, k)}
      hit(lru, kv, rest, how) ==
        [cache |-> [t EXCEPT !.lru = lru], kv |-> kv, rest |-> rest, how |-> how]
  IN IF depth = Len(tokens) /\ tokens \in DOMAIN t.cached
       THEN {hit(Touched(t.lru, tokens), t.cached[tokens], << >>, "exact")}
     ELSE IF depth < Len(tokens) /\ at \in DOMAIN t.cached
       THEN {hit(Touched(t.lru, at), t.cached[at],
                 SubSeq(tokens, depth + 1, Len(tokens)), "shorter")}
     ELSE IF depth = Len(tokens) /\ below # {}
       THEN {hit(t.lru,
                 SubSeq(t.cached[k], 1, Len(t.cached[k]) - (Len(k) - Len(tokens))),
                 << >>, "longer") : k \in {k \in below : \A l \in below : Len(k) <= Len(l)}}
     ELSE {Miss(t, tokens)}

\* _delete_cache, which prunes the branches left empty.
TrieDelete(t, key) ==
  LET cached == [k \in DOMAIN t.cached \ {key} |-> t.cached[k]]
      empty == {p \in PathsOf(key) :
                  \A q \in t.nodes : IsPrefix(p, q) =>
                    q \in PathsOf(key) /\ q \notin DOMAIN cached}
  IN [t EXCEPT !.cached = cached, !.nodes = @ \ empty]

\* store_cache: a cache that is there stays; one entry too many evicts one.
TrieStore(t, tokens, kv) ==
  LET put == [nodes |-> t.nodes \cup PathsOf(tokens),
              cached |-> [k \in DOMAIN t.cached \cup {tokens} |->
                            IF k \in DOMAIN t.cached THEN t.cached[k] ELSE kv],
              lru |-> Touched(t.lru, tokens)]
  IN IF Len(put.lru) <= MaxEntries THEN put
     ELSE TrieDelete([put EXCEPT !.lru = Tail(@)], Head(put.lru))

-------------------------------------------------------------------------------
(* The main thread: requests.                                              *)

\* Keys that have expired when an L1 is asked, and the limit it then has.
Expired(m) == SUBSET Keys(m)
Limits(m) == {m.limit, Reduced, Limit}

\* Either L1 stores the KV of a prompt.
L1Store(m, t, tokens, kv) ==
  IF kind = "trie" THEN trie' = TrieStore(t, tokens, kv) /\ mem' = m
  ELSE /\ \E limit \in Limits(m), X \in Expired(m) :
            mem' = MemStore(m, tokens, kv, limit, X)
       /\ trie' = t

Request(p, kv, rest) == [prompt |-> p, kv |-> kv, rest |-> rest]
Enqueued(p, kv, rest) == reqs' = reqs \cup {Request(p, kv, rest)}

\* add_request asks the L1; a miss goes on to the L2.
Asked(p, hit) ==
  IF hit.how = "miss"
    THEN main' = [pc |-> "lookup", prompt |-> p] /\ UNCHANGED reqs
    ELSE Enqueued(p, hit.kv, hit.rest) /\ UNCHANGED main

Arrive(p) ==
  /\ main.pc = "idle" /\ ~stop
  /\ came < MaxRequests /\ came' = came + 1
  /\ \/ /\ kind = "trie"
        /\ \E hit \in TrieFetch(trie, p) : trie' = hit.cache /\ Asked(p, hit)
        /\ UNCHANGED mem
     \/ /\ kind = "memory"
        /\ \E X \in Expired(mem) :
             LET hit == MemFetch(Dropped(mem, X), p)
             IN mem' = hit.cache /\ Asked(p, hit)
        /\ UNCHANGED trie
  /\ UNCHANGED <<kind, faults, disk, queue, wr, stop, clears, starts, stray>>

others == <<came, kind, faults, queue, wr, stop, clears, starts>>
mainstep == <<others, stray>>

\* DiskCacheManager.fetch finds nothing: the request starts with its prompt.
DiskMiss ==
  /\ Enqueued(main.prompt, << >>, main.prompt)
  /\ main' = Idle

\* The row is looked up ...
DiskLookup ==
  /\ main.pc = "lookup"
  /\ IF main.prompt \in rows
       THEN main' = [main EXCEPT !.pc = "exists"] /\ UNCHANGED reqs
       ELSE DiskMiss
  /\ UNCHANGED <<mem, trie, disk, mainstep>>

\* ... then the file: the row of a file that is missing goes.
DiskExists ==
  /\ main.pc = "exists"
  /\ main' = [main EXCEPT !.pc = IF final[main.prompt] = None THEN "unrow" ELSE "load"]
  /\ UNCHANGED <<reqs, mem, trie, disk, mainstep>>

DiskUnrow ==
  /\ main.pc = "unrow"
  /\ rows' = rows \ {main.prompt}
  /\ DiskMiss
  /\ UNCHANGED <<mem, trie, final, tmp, mainstep>>

\* A file that loads is handed out with the last token left over, and goes to
\* the L1 as well.
DiskHit ==
  /\ main.pc = "load"
  /\ LET p == main.prompt  f == final[p]
     IN /\ f # None /\ f.whole
        /\ Enqueued(p, f.kv, <<Last(p)>>)
        /\ L1Store(mem, trie, p, f.kv)
  /\ main' = Idle
  /\ UNCHANGED <<disk, mainstep>>

\* One that does not, or whose row cannot be updated, loses row and file.
DiskDrop ==
  /\ main.pc = "load"
  /\ final[main.prompt] # None /\ final[main.prompt].whole => "db" \in faults
  /\ rows' = rows \ {main.prompt}
  /\ main' = [main EXCEPT !.pc = "unlink"]
  /\ UNCHANGED <<reqs, mem, trie, final, tmp, mainstep>>

DiskUnlink ==
  /\ main.pc = "unlink"
  /\ final' = [final EXCEPT ![main.prompt] = None]
  /\ stray' = stray \cup (rows \cap {main.prompt})
  /\ DiskMiss
  /\ UNCHANGED <<mem, trie, rows, tmp, others>>

\* What _schedule_waiting feeds; a cache that is refused there (invalid, too
\* large for the memory at hand, or insert fails) is not used.
Fed(r) == IF r.rest = << >> THEN <<Last(r.prompt)>> ELSE r.rest
WithoutCache(r) == [r EXCEPT !.kv = << >>, !.rest = r.prompt]

Refuse(r) ==
  /\ main.pc = "idle" /\ r.kv # << >>
  /\ reqs' = (reqs \ {r}) \cup {WithoutCache(r)}
  /\ UNCHANGED <<main, mem, trie, disk, mainstep>>

\* The generator's cache when r has finished, after its first token.
RawCache(r) == r.kv \o Fed(r) \o <<0>>

\* Bug: the prompt's last token stays.
BugTruncated(kv, n) == IF n - 1 <= 0 THEN None ELSE Cut(kv, n)

\* _truncate_cache_to_prompt_length.
Truncated(kv, n) == IF n - 1 <= 0 THEN None ELSE Cut(kv, n - 1)

\* put_nowait: a full queue takes nothing.
Offered(q, item) == IF Len(q) < MaxQueue THEN Append(q, item) ELSE q

\* _cleanup_finished stores in both; an L2 that has the row takes nothing.
Finish(r) ==
  /\ main.pc = "idle"
  /\ reqs' = reqs \ {r}
  /\ LET kv == Truncated(RawCache(r), Len(r.prompt))
     IN IF kv = None THEN UNCHANGED <<mem, trie, queue>>
        ELSE /\ L1Store(mem, trie, r.prompt, kv)
             /\ queue' = IF r.prompt \in rows THEN queue
                         ELSE Offered(queue, [prompt |-> r.prompt, kv |-> kv])
  /\ UNCHANGED <<came, kind, faults, main, disk, wr, stop, clears, starts, stray>>

\* An output of three tokens or less without a history is not stored; an
\* aborted request is not either.
FinishUnstored(r) ==
  /\ main.pc = "idle"
  /\ reqs' = reqs \ {r}
  /\ UNCHANGED <<main, mem, trie, disk, mainstep>>

\* The L1 is cleared (deep_reset, the cache endpoint).
ClearL1 ==
  /\ main.pc = "idle"
  /\ mem' = [EmptyMem EXCEPT !.limit = mem.limit] /\ trie' = EmptyTrie
  /\ UNCHANGED <<reqs, main, disk, mainstep>>

-------------------------------------------------------------------------------
(* The writer of the L2: the background thread, or the main thread in      *)
(* shutdown.  A temporary file belongs to the writer that opened it last.  *)

writes == <<l1vars, reqs, came, main, stop, clears, starts, stray>>

\* Bug: an item with a row is written again.
BugTake(a) ==
  /\ wr[a].pc = "get" /\ queue # << >>
  /\ a = "thread" => ~stop
  /\ a = "main" => main.pc = "flush"
  /\ LET item == Head(queue)
     IN /\ wr' = [wr EXCEPT ![a] = [Free EXCEPT !.pc = "save", !.item = item]]
        /\ tmp' = [tmp EXCEPT ![item.prompt] = [kv |-> item.kv, by |-> a, whole |-> FALSE]]
  /\ queue' = Tail(queue)
  /\ UNCHANGED <<rows, final, writes>>

\* _write_cache takes an item; one with a row is done.  A new temporary file
\* takes the place of one another writer still writes.
Take(a) ==
  /\ wr[a].pc = "get" /\ queue # << >>
  /\ a = "thread" => ~stop
  /\ a = "main" => main.pc = "flush"
  /\ LET item == Head(queue)
     IN IF item.prompt \in rows THEN UNCHANGED <<wr, tmp>>
        ELSE /\ wr' = [wr EXCEPT ![a] = [Free EXCEPT !.pc = "save", !.item = item]]
             /\ tmp' = [tmp EXCEPT ![item.prompt] = [kv |-> item.kv, by |-> a, whole |-> FALSE]]
  /\ queue' = Tail(queue)
  /\ UNCHANGED <<rows, final, writes>>

Done(a) == wr' = [wr EXCEPT ![a] = Free]
Failed(a) == wr' = [wr EXCEPT ![a].pc = "cleanup"]
Item(a) == wr[a].item.prompt
Whole(file, a) == IF file # None /\ file.by = a THEN [file EXCEPT !.whole = TRUE] ELSE file

\* The data is written, under whichever name the file has by now, or is not.
Save(a) ==
  /\ wr[a].pc = "save"
  /\ \/ /\ tmp' = [tmp EXCEPT ![Item(a)] = Whole(@, a)]
        /\ final' = [final EXCEPT ![Item(a)] = Whole(@, a)]
        /\ wr' = [wr EXCEPT ![a].pc = "rename"]
     \/ /\ "save" \in faults /\ Failed(a) /\ UNCHANGED <<tmp, final>>
  /\ UNCHANGED <<rows, queue, writes>>

Rename(a) ==
  /\ wr[a].pc = "rename"
  /\ IF tmp[Item(a)] = None THEN Failed(a) /\ UNCHANGED <<tmp, final>>
     ELSE /\ final' = [final EXCEPT ![Item(a)] = tmp[Item(a)]]
          /\ tmp' = [tmp EXCEPT ![Item(a)] = None]
          /\ wr' = [wr EXCEPT ![a].pc = "insert"]
  /\ UNCHANGED <<rows, queue, writes>>

\* The row goes in when the file can still be measured.
Insert(a) ==
  /\ wr[a].pc = "insert"
  /\ \/ /\ final[Item(a)] # None
        /\ rows' = rows \cup {Item(a)}
        /\ wr' = [wr EXCEPT ![a].pc = "evict"]
     \/ /\ final[Item(a)] = None \/ "db" \in faults
        /\ Failed(a) /\ UNCHANGED rows
  /\ UNCHANGED <<final, tmp, queue, writes>>

\* How many files _evict_if_needed removes, those used least recently.
Excess == IF Cardinality(rows) > MaxRows THEN Cardinality(rows) - MaxRows ELSE 0

\* The files go, then the rows in one transaction.
Evict(a) ==
  /\ wr[a].pc = "evict"
  /\ IF Excess = 0 THEN Done(a) /\ UNCHANGED final
     ELSE \E V \in SUBSET rows :
            /\ Cardinality(V) = Excess
            /\ final' = [p \in Prompts |-> IF p \in V THEN None ELSE final[p]]
            /\ wr' = [wr EXCEPT ![a].pc = "commit", ![a].gone = V]
  /\ UNCHANGED <<rows, tmp, queue, writes>>

Commit(a) ==
  /\ wr[a].pc = "commit"
  /\ \/ rows' = rows \ wr[a].gone /\ Done(a)
     \/ "db" \in faults /\ Failed(a) /\ UNCHANGED rows
  /\ UNCHANGED <<final, tmp, queue, writes>>

\* What raised removes the temporary and the final file of the item.
Cleanup(a) ==
  /\ wr[a].pc = "cleanup"
  /\ tmp' = [tmp EXCEPT ![Item(a)] = None]
  /\ final' = [final EXCEPT ![Item(a)] = None]
  /\ Done(a)
  /\ UNCHANGED <<rows, queue, writes>>

\* The thread ends when it is told to and has no item.
ThreadEnds ==
  /\ stop /\ wr["thread"].pc = "get"
  /\ wr' = [wr EXCEPT !["thread"].pc = "ended"]
  /\ UNCHANGED <<disk, queue, writes>>

Writer(a) ==
  \/ Take(a) \/ Save(a) \/ Rename(a) \/ Insert(a) \/ Evict(a) \/ Commit(a)
  \/ Cleanup(a)

-------------------------------------------------------------------------------
(* The main thread: clear, shutdown, start.                                *)

aside == <<reqs, came, mem, trie, tmp, kind, faults, queue, starts, stray>>

\* clear removes the files that have rows, then all rows.
ClearFiles ==
  /\ main.pc = "idle" /\ ~stop /\ clears < MaxClears
  /\ clears' = clears + 1
  /\ final' = [p \in Prompts |-> IF p \in rows THEN None ELSE final[p]]
  /\ main' = [pc |-> "clear"]
  /\ UNCHANGED <<aside, rows, wr, stop>>

ClearRows ==
  /\ main.pc = "clear"
  /\ \A a \in Actors : wr[a].pc # "commit"
  /\ rows' = {} /\ main' = Idle
  /\ UNCHANGED <<aside, final, wr, stop, clears>>

\* shutdown stops the thread, waits ten seconds for it, and writes what is in
\* the queue itself.
Shutdown ==
  /\ main.pc = "idle" /\ ~stop
  /\ stop' = TRUE /\ main' = [pc |-> "join"]
  /\ UNCHANGED <<aside, rows, final, wr, clears>>

\* Bug: nothing is flushed.
BugJoined ==
  /\ main.pc = "join"
  /\ wr["thread"].pc = "ended" \/ "overlap" \in faults
  /\ main' = [pc |-> "closed"]
  /\ UNCHANGED <<aside, rows, final, wr, stop, clears>>

Joined ==
  /\ main.pc = "join"
  /\ wr["thread"].pc = "ended" \/ "overlap" \in faults
  /\ main' = [pc |-> "flush"]
  /\ UNCHANGED <<aside, rows, final, wr, stop, clears>>

Flushed ==
  /\ main.pc = "flush" /\ queue = << >> /\ wr["main"].pc = "get"
  /\ main' = [pc |-> "closed"]
  /\ UNCHANGED <<aside, rows, final, wr, stop, clears>>

\* A scheduler starts over: empty L1, no requests, the files on disk.
Started ==
  /\ starts < MaxStarts /\ starts' = starts + 1
  /\ mem' = EmptyMem /\ trie' = EmptyTrie
  /\ reqs' = {} /\ main' = Idle /\ queue' = << >> /\ stop' = FALSE
  /\ tmp' = [p \in Prompts |-> None]
  /\ wr' = [a \in Actors |-> Free]
  /\ UNCHANGED <<kind, faults, rows, final, clears, came, stray>>

Restart == main.pc = "closed" /\ wr["thread"].pc = "ended" /\ Started
Crash == "crash" \in faults /\ Started

MainThread ==
  \/ \E p \in Prompts : Arrive(p)
  \/ DiskLookup \/ DiskExists \/ DiskUnrow \/ DiskHit \/ DiskDrop \/ DiskUnlink
  \/ \E r \in reqs : Refuse(r) \/ Finish(r) \/ FinishUnstored(r)
  \/ ClearL1 \/ ClearFiles \/ ClearRows
  \/ Shutdown \/ Joined \/ Flushed \/ Restart

Next == MainThread \/ Crash \/ ThreadEnds \/ \E a \in Actors : Writer(a)

\* Threads that can run do; the main thread ends what it has begun.
Fairness ==
  /\ WF_vars(ThreadEnds) /\ \A a \in Actors : WF_vars(Writer(a))
  /\ WF_vars(main.pc # "idle" /\ MainThread)

Spec == Init /\ [][Next]_vars
FairSpec == Spec /\ Fairness

-------------------------------------------------------------------------------

KVs == Seq(Nat)
Files == {None} \cup [kv : KVs, by : Actors, whole : BOOLEAN]

\* Whatever is cached is the KV of some tokens, under a prompt.
TypeOK ==
  /\ mem.limit \in {Limit, Reduced} /\ mem.total \in Nat
  /\ \A e \in ToSet(mem.entries) : e.key \in Prompts /\ e.kv \in KVs /\ e.cost = Len(e.kv)
  /\ ToSet(trie.lru) \subseteq Prompts /\ DOMAIN trie.cached \subseteq Prompts
  /\ \A r \in reqs : r.prompt \in Prompts /\ r.kv \in KVs /\ r.rest \in KVs
  /\ rows \subseteq Prompts
  /\ \A p \in Prompts : final[p] \in Files /\ tmp[p] \in Files
  /\ Len(queue) <= MaxQueue /\ \A q \in ToSet(queue) : q.prompt \in Prompts /\ q.kv \in KVs

\* A request continues the KV of its own prompt: what it was handed and what it
\* is fed make up the prompt (fetch, fetch_cache, _truncate_cache_to_prompt_length,
\* _schedule_waiting), whichever cache it came from and whatever was evicted,
\* expired, cleared or written meanwhile.
OwnPrompt == \A r \in reqs : r.kv \o Fed(r) = r.prompt

\* The bytes of the memory-aware cache are those of its entries, each key once,
\* within the limit the cache was made with, in every order of stores, hits,
\* expiries and pressure (store, _evict_lru, _evict_expired).
MemoryExact ==
  /\ mem.total = CostOf(mem.entries) /\ mem.total <= Limit
  /\ Len(mem.entries) <= MaxEntries
  /\ Cardinality(Keys(mem)) = Len(mem.entries)

\* The LRU order of the trie names each cache once, and every branch of the
\* trie leads to a cache: eviction finds every cache and leaves nothing behind
\* (_touch_lru, _evict_lru, _delete_cache).
TrieExact ==
  /\ ToSet(trie.lru) = DOMAIN trie.cached /\ Len(trie.lru) = Cardinality(DOMAIN trie.cached)
  /\ Len(trie.lru) <= MaxEntries
  /\ trie.nodes = UNION {PathsOf(k) : k \in DOMAIN trie.cached}

\* On disk a row has its file, unless both are just being removed (clear,
\* _evict_if_needed, _write_cache) or fetch removed the file of a row that was
\* inserted again since it removed the row of a file that did not load; and
\* between two items the index is within the budget.  Nothing is said of rows
\* without files when the index fails or two writers work at once.
RowsExact ==
  /\ faults \cap {"db", "overlap"} = {} /\ starts = 0 =>
       \A p \in rows : final[p] = None =>
         \/ main.pc = "clear" \/ p \in stray
         \/ wr["thread"].pc = "commit" /\ p \in wr["thread"].gone
         \/ wr["main"].pc = "commit" /\ p \in wr["main"].gone
  /\ "db" \notin faults /\ starts = 0 /\ (\A a \in Actors : wr[a].pc \in {"get", "ended"})
       => Cardinality(rows) <= MaxRows

\* No cache has lost count of what it holds, in memory or on disk.
Budget == TypeOK /\ MemoryExact /\ TrieExact /\ RowsExact

\* Every queued prompt cache is written or dropped in the end, by the thread or
\* by shutdown, even when shutdown does not wait for the thread.
Drained == queue # << >> ~> queue = << >>
===============================================================================
