------------------------------- MODULE BlockData -------------------------------
(***************************************************************************)
(* The tensors of the paged prefix cache on their way from a finished      *)
(* request to a later one: truncated to the prompt (vmlx_engine/           *)
(* scheduler.py for text models, mllm_scheduler.py for vision models),     *)
(* quantized, cut into blocks, shared between prompts, put together again  *)
(* (prefix_cache.py), completed for hybrid models and compressed           *)
(* (mllm_batch_generator.py), and saved to files (block_disk_store.py).    *)
(*                                                                         *)
(* A tensor is the sequence of the positions whose keys and values it      *)
(* holds, and the number of its heads; the state of an SSM layer, which    *)
(* cannot be cut, is the number of tokens it has seen.  Element types and  *)
(* quantization error are left out.                                        *)
(***************************************************************************)
EXTENDS Naturals, FiniteSets, FiniteSetsExt, Lists

CONSTANTS
  Models,      \* the layer kinds of each text model
  VisionModels, \* the same of each vision model
  SubKinds,    \* the kinds of the layers inside a "list" layer
  HeadDims,    \* the head dimensions of the models
  GroupSizes,  \* the group sizes asked for
  Heads,       \* the attention heads a layer's tensor may come with
  BlockSize,
  Window,      \* max_size of rotating layers
  MaxPrompt,   \* bound: the length of a prompt
  MaxOutput,   \* bound: the length of an output
  PrefixFree,  \* no prompt is a proper prefix of another
  Absent

P == {1, 2}
Kinds == {"kv", "tq", "rot", "ssm", "list", "quant", "skip"}
Layers == [kind : Kinds, pos : Seq(Nat), heads : Nat,
           subs : Seq([kind : Kinds, pos : Seq(Nat), heads : Nat, subs : {<< >>}])]

ASSUME DataAssumption ==
  /\ \A m \in Models \cup VisionModels : m \in Seq({"kv", "tq", "rot", "ssm", "list"})
  /\ HeadDims \cup GroupSizes \cup Heads \subseteq Nat \ {0} /\ 1 \in Heads
  /\ SubKinds \in Seq({"kv", "ssm"}) \ {<< >>}
  /\ BlockSize \in Nat \ {0} /\ Window \in Nat
  /\ MaxPrompt \in Nat /\ MaxOutput \in Nat /\ PrefixFree \in BOOLEAN
  /\ Absent \notin Layers \cup Seq(Layers)
  /\ Absent \notin [kind : {"list"}, pos : {<< >>}, heads : {1}, subs : Seq(Layers \cup {Absent})]
  /\ Absent \notin [prompt : P, tokens : Nat, cache : Seq(Layers)]

VARIABLES
  vision,    \* the requests go through the multimodal scheduler
  model,     \* the layers of the model
  bits,      \* prefix cache quantization is on
  len,       \* the lengths of two prompts
  common,    \* how many tokens they have in common
  pool,      \* the blocks stored, by what their chain hash stands for
  stored,    \* the prompts whose cache has been stored
  companion, \* the SSM states kept beside the blocks, by prompt
  got        \* what the last fetch assembled: [prompt, tokens, cache]

datavars == <<vision, model, bits, len, common, pool, stored, companion, got>>

Positional == {"kv", "rot", "quant"}
KVLike == {"kv", "tq"}

\* The layers the engine takes for attention layers: the multimodal one does
\* not count rotating layers and lists.
KVPositions == {i \in DOMAIN model : model[i] \in KVLike \cup IF vision THEN {} ELSE {"rot"}}
Hybrid == IF vision THEN KVPositions # DOMAIN model
                    ELSE \E i \in DOMAIN model : model[i] = "ssm"

\* A layer, or a block's slice of one: its kind, its positions (or the one
\* number of an SSM state), its heads, and the layers inside a list.
LayerOf(kind, pos, heads) == [kind |-> kind, pos |-> pos, heads |-> heads, subs |-> << >>]
Layer(kind, pos) == LayerOf(kind, pos, 1)
List(subs) == [Layer("list", << >>) EXCEPT !.subs = subs]
Skip == Layer("skip", << >>)

\* Op on a layer, or on every layer inside it.
Leaves(Op(_), layer) ==
  IF layer.kind = "list" THEN List([j \in DOMAIN layer.subs |-> Op(layer.subs[j])])
                         ELSE Op(layer)

\* What generation leaves behind after t tokens: compressed layers leave the
\* batch as plain ones, and a batch has as many heads as any of its requests.
RawLayer(kind, t, heads) ==
  CASE kind = "ssm" -> Layer("ssm", <<t>>)
    [] kind = "rot" -> LayerOf("rot", [i \in 1 .. Min({t, Window}) |-> t - Min({t, Window}) + i],
                               heads)
    [] OTHER -> LayerOf("kv", [i \in 1 .. t |-> i], heads)
RawCache(t, heads) ==
  [i \in DOMAIN model |->
     IF model[i] = "list" THEN List([j \in DOMAIN SubKinds |-> RawLayer(SubKinds[j], t, heads)])
                          ELSE RawLayer(model[i], t, heads)]

\* _wrap_make_cache_quantized: the group size used, none when none divides.
GroupSize(dim, wanted) ==
  LET fits == {g \in {8, 16, 32} : dim % g = 0}
  IN IF dim % wanted = 0 THEN wanted ELSE IF fits = {} THEN Absent ELSE Max(fits)

DataInit ==
  /\ vision \in BOOLEAN /\ model \in IF vision THEN VisionModels ELSE Models
  /\ bits \in BOOLEAN /\ (bits => \E d \in HeadDims, g \in GroupSizes : GroupSize(d, g) # Absent)
  /\ len \in [P -> 1 .. MaxPrompt] /\ len[1] <= len[2]
  /\ common \in 0 .. Min({len[1], len[2]})
  /\ PrefixFree => common < Min({len[1], len[2]})
  /\ pool = << >> /\ stored = {} /\ companion = [p \in P |-> Absent] /\ got = Absent

-------------------------------------------------------------------------------
(* Storing.                                                                *)

\* Bug: the last prompt token is kept.
BugPromptTarget(n) == n
\* One token less than the prompt: a hit feeds the last one again.
PromptTarget(n) == n - 1

Shortened(l, n) == IF l.kind = "ssm" THEN l
                   ELSE [l EXCEPT !.pos = SubSeq(@, 1, Min({PromptTarget(n), Len(@)}))]

\* _truncate_cache_to_prompt_length: nothing for a rotating layer that has
\* wrapped; an SSM state stays as it is.
Truncated(cache, n, t) ==
  IF PromptTarget(n) <= 0 \/ \E i \in DOMAIN cache : cache[i].kind = "rot" /\ t > Window
    THEN Absent
    ELSE [i \in DOMAIN cache |-> Leaves(LAMBDA l : Shortened(l, n), cache[i])]

\* _truncate_hybrid_cache, for vision models: a rotating layer becomes a plain
\* one, wrapped or not.
VisionTruncated(cache, n) ==
  LET Plain(l) == [Shortened(l, n) EXCEPT !.kind = IF @ = "rot" THEN "kv" ELSE @]
  IN IF PromptTarget(n) <= 0 THEN Absent
     ELSE [i \in DOMAIN cache |-> Leaves(Plain, cache[i])]

\* _quantize_cache_for_storage, for plain KV layers.
Quantized(cache) ==
  LET Q(l) == IF bits /\ l.kind = "kv" THEN [l EXCEPT !.kind = "quant"] ELSE l
  IN [i \in DOMAIN cache |-> Leaves(Q, cache[i])]

\* _extract_cache_states: the layers' tensors, with the model's own heads.
Extracted(cache) ==
  [i \in DOMAIN cache |-> Leaves(LAMBDA l : [l EXCEPT !.heads = 1], cache[i])]

\* _extract_block_tensor_slice: positions from + 1 to upto, as far as they go;
\* an SSM state only in the last block.
SliceOf(cache, from, upto, last) ==
  LET Cut(l) ==
        IF l.kind = "ssm" THEN IF last THEN l ELSE Skip
        ELSE IF from >= Min({upto, Len(l.pos)}) THEN Skip
        ELSE [l EXCEPT !.pos = SubSeq(@, from + 1, Min({upto, Len(@)}))]
  IN [i \in DOMAIN cache |-> Leaves(Cut, cache[i])]

\* _block_needs_cumulative_update.
Inside(entry) == IF entry.kind = "list" THEN ToSet(entry.subs) ELSE {entry}
NeedsCumulative(data) ==
  LET tags == {e.kind : e \in UNION {Inside(data[i]) : i \in DOMAIN data}}
  IN "skip" \in tags /\ "ssm" \notin tags

\* How many tokens a prompt is stored under: the multimodal scheduler leaves
\* the last one out.
Stored(p) == IF vision /\ len[p] > 1 THEN len[p] - 1 ELSE len[p]
Blocks(p) == (Stored(p) + BlockSize - 1) \div BlockSize
EndOf(p, i) == Min({i * BlockSize, Stored(p)})
\* The first n tokens of a prompt, which a chain hash stands for.
Prefix(p, n) == <<n, IF n <= common THEN 0 ELSE p>>
Key(p, i) == Prefix(p, EndOf(p, i))

At(key) == IF key \in DOMAIN pool THEN pool[key] ELSE {}

\* store_cache: a block whose hash is known is shared, unless it is the last
\* one and lacks the SSM state.
Reuses(p, i) ==
  \E data \in At(Key(p, i)) : ~(i = Blocks(p) /\ NeedsCumulative(data))

States(cache) == Only(cache, {l \in ToSet(cache) : l.kind \notin Positional \cup {"list"}})

\* Vision: the other layers' states are kept when the prompt has been prefilled
\* without a hit, under the tokens it will be stored under.
Prefill(p) ==
  /\ vision /\ Hybrid
  /\ LET raw == RawCache(len[p], 1)
     IN companion' = [companion EXCEPT ![p] =
          [k \in 1 .. Cardinality(DOMAIN model \ KVPositions) |->
             raw[CHOOSE i \in DOMAIN model \ KVPositions :
                   Cardinality({j \in DOMAIN model \ KVPositions : j <= i}) = k]]]
  /\ UNCHANGED <<vision, model, bits, len, common, pool, stored, got>>

\* A request for prompt p has finished with m output tokens.
Store(p, m, heads) ==
  /\ LET t == len[p] + m
         raw == RawCache(t, heads)
         cut == IF vision THEN VisionTruncated(raw, len[p]) ELSE Truncated(raw, len[p], t)
         cache == Extracted(Quantized(cut))
         fresh == {i \in 1 .. Blocks(p) : ~Reuses(p, i)}
         made(key) == {SliceOf(cache, (i - 1) * BlockSize, EndOf(p, i), i = Blocks(p)) :
                         i \in {k \in fresh : Key(p, k) = key}}
     IN /\ pool' = IF cut = Absent THEN pool
                   ELSE [key \in DOMAIN pool \cup {Key(p, i) : i \in fresh} |->
                           At(key) \cup made(key)]
        /\ companion' = [companion EXCEPT ![p] =
             IF Hybrid /\ ~vision /\ cut # Absent THEN States(cache) ELSE @]
  /\ stored' = stored \cup {p}
  /\ UNCHANGED <<vision, model, bits, len, common, got>>

\* A block leaves the pool.
Evict(key) ==
  /\ key \in DOMAIN pool
  /\ pool' = [k \in DOMAIN pool \ {key} |-> pool[k]]
  /\ UNCHANGED <<vision, model, bits, len, common, stored, companion, got>>

-------------------------------------------------------------------------------
(* Fetching.                                                               *)

Concat(entries, kind) ==
  FlattenSeq([b \in DOMAIN entries |-> IF entries[b].kind = kind THEN entries[b].pos ELSE << >>])

\* One layer from its entries in all blocks, by the first of these kinds that
\* occurs; of SSM states the last.  Absent when only "skip" is there.
Joined(entries) ==
  LET kinds == {e.kind : e \in ToSet(entries)}
      K(k) == LayerOf(k, Concat(entries, k),
                      Max({e.heads : e \in {d \in ToSet(entries) : d.kind = k}}))
  IN CASE "quant" \in kinds -> K("quant")
       [] "quant" \notin kinds /\ "kv" \in kinds -> K("kv")
       [] kinds \cap {"quant", "kv"} = {} /\ "rot" \in kinds -> K("rot")
       [] kinds \cap Positional = {} /\ "ssm" \in kinds ->
            Last(Only(entries, {e \in ToSet(entries) : e.kind = "ssm"}))
       [] OTHER -> Absent

\* A list layer: Absent for an inner layer makes the whole reconstruction fail.
JoinedList(entries) ==
  List([j \in DOMAIN SubKinds |->
          Joined([b \in DOMAIN entries |-> entries[b].subs[j]])])

\* reconstruct_cache: layers with nothing but "skip" are left out; one with
\* other heads than the model's makes the whole reconstruction fail.
Reconstructed(blocks) ==
  LET entries(i) == [b \in DOMAIN blocks |-> blocks[b][i]]
      layer(i) == IF blocks[1][i].kind = "list" THEN JoinedList(entries(i))
                                                 ELSE Joined(entries(i))
      layers == [i \in DOMAIN blocks[1] |-> layer(i)]
      found == Without(layers, {Absent})
  IN IF \/ found = << >>
        \/ \E i \in DOMAIN found : \/ Absent \in ToSet(found[i].subs)
                                  \/ \E l \in Inside(found[i]) : l.heads # 1
       THEN Absent ELSE found

\* _dequantize_cache_for_use.
Dequantized(cache) ==
  LET D(l) == IF l.kind = "quant" THEN [l EXCEPT !.kind = "kv"] ELSE l
  IN [i \in DOMAIN cache |-> Leaves(D, cache[i])]

Template == [i \in DOMAIN model |-> Layer(model[i], << >>)]

\* _fix_hybrid_cache: a cache without its SSM layers gets fresh ones; one of
\* an unexpected length becomes a fresh cache.
FixHybrid(cache) ==
  IF Len(cache) = Len(model)
    THEN [i \in DOMAIN model |->
            IF model[i] \notin KVLike /\ cache[i].kind \in KVLike THEN Template[i] ELSE cache[i]]
  ELSE IF Len(cache) # Cardinality(KVPositions) THEN Template
  ELSE [i \in DOMAIN model |->
          IF i \in KVPositions THEN cache[Cardinality({k \in KVPositions : k <= i})]
                               ELSE Template[i]]

\* Bug: the n-th state goes to layer n.
BugWithCompanion(cache, states) ==
  [i \in DOMAIN cache |->
     IF i \notin KVPositions /\ i <= Len(states) THEN states[i] ELSE cache[i]]

\* The companion's states take the other layers, in their order.
WithCompanion(cache, states) ==
  LET rank(i) == Cardinality({k \in DOMAIN cache : k <= i /\ k \notin KVPositions})
  IN [i \in DOMAIN cache |->
        IF i \notin KVPositions /\ rank(i) <= Len(states) THEN states[rank(i)] ELSE cache[i]]

\* _recompress_to_tq: plain layers go back to the compressed kind of the model's
\* own layer at the same place.
Recompressed(cache) ==
  [i \in DOMAIN cache |->
     IF cache[i].kind = "kv" /\ cache[i].pos # << >> /\ i \in DOMAIN model /\ model[i] = "tq"
       THEN [cache[i] EXCEPT !.kind = "tq"] ELSE cache[i]]

\* The companion is looked up under the tokens the blocks hold.
CompanionOf(n, p) ==
  {companion[q] : q \in {r \in P : /\ companion[r] # Absent /\ Stored(r) = n
                                   /\ r = p \/ n <= common}}

\* The cache a hit on whole hands over, completed by states if the model is
\* hybrid.
Assembled(whole, states) ==
  LET cache == Dequantized(whole)
  IN Recompressed(IF Hybrid THEN WithCompanion(FixHybrid(cache), states) ELSE cache)

\* A request for prompt p finds j blocks: whole ones by their hashes, or all of
\* a stored prompt by the prefix index (add_request; _process_prompts).
Fetch(p, j) ==
  LET found == IF j * BlockSize <= len[p] THEN {j * BlockSize} ELSE {}
      listed == IF p \in stored /\ j = Blocks(p) THEN {Stored(p)} ELSE {}
  IN \E n \in found \cup listed :
       LET key(i) == Prefix(p, Min({i * BlockSize, n}))
       IN \E blocks \in [1 .. j -> UNION {At(key(i)) : i \in 1 .. j}] :
            /\ \A i \in 1 .. j : blocks[i] \in At(key(i))
            /\ LET whole == Reconstructed(blocks)
                   states == IF Hybrid THEN CompanionOf(n, p) ELSE {<< >>}
               IN IF whole = Absent \/ states = {} THEN got' = Absent
                  ELSE \E s \in states :
                         got' = [prompt |-> p, tokens |-> n, cache |-> Assembled(whole, s)]
            /\ UNCHANGED <<vision, model, bits, len, common, pool, stored, companion>>

DataNext ==
  \/ \E p \in P, m \in 0 .. MaxOutput, h \in Heads : Store(p, m, h)
  \/ \E p \in P : Prefill(p)
  \/ \E key \in DOMAIN pool : Evict(key)
  \/ \E p \in P, j \in 1 .. MaxPrompt : Fetch(p, j)

DataSpec == DataInit /\ [][DataNext]_datavars

-------------------------------------------------------------------------------
(* The block file: _serialize_block and _deserialize_block.                *)

\* Inner layers that are quantized are not written.
FileEntry(entry) ==
  CASE entry.kind = "skip" -> Absent
    [] entry.kind = "list" ->
         LET subs == [j \in DOMAIN entry.subs |->
                        IF entry.subs[j].kind \in {"kv", "ssm"} THEN entry.subs[j] ELSE Skip]
         IN IF ToSet(subs) \subseteq {Skip} THEN Absent ELSE List(subs)
    [] OTHER -> entry

\* Bug: the layers after a gap move up.
BugOnDisk(data) == SelectSeq([i \in DOMAIN data |-> FileEntry(data[i])], LAMBDA e : e # Absent)

\* The layers up to the last one with a tensor in the file.
OnDisk(data) ==
  LET has == {i \in DOMAIN data : FileEntry(data[i]) # Absent}
  IN IF has = {} THEN << >>
     ELSE [i \in 1 .. Max(has) |-> IF i \in has THEN FileEntry(data[i]) ELSE Skip]

-------------------------------------------------------------------------------

\* The shapes the properties are about.  A text model with SSM layers has no list
\* layers: the companion of a finished prompt leaves these out, and the hit would
\* put an SSM state in their place (scheduler.py:2487, 1633).  A vision model has
\* neither rotating nor list layers: both count as SSM layers there
\* (_is_kv_like), and a prefill keeps their state one token too late.
HybridsFlat == \A m \in Models : "ssm" \in ToSet(m) => "list" \notin ToSet(m)
PlainVision == \A m \in VisionModels : ToSet(m) \subseteq {"kv", "tq", "ssm"}

\* What a hit hands to the scheduler has every layer of the model, compressed
\* where the model's is, and each attention layer holds exactly the positions
\* before the token that is fed next: all of the blocks', without the last token
\* of the prompt (_truncate_cache_to_prompt_length, reconstruct_cache,
\* _fix_hybrid_cache, _recompress_to_tq).
Fed == IF got.tokens = len[got.prompt] THEN got.tokens - 1 ELSE got.tokens

Aligned ==
  got # Absent =>
    /\ Len(got.cache) = Len(model)
    /\ \A i \in DOMAIN model : \A l \in Inside(got.cache[i]) :
         l.kind \in {"kv", "tq", "rot"} => l.pos = [k \in 1 .. Fed |-> k]
    /\ \A i \in DOMAIN model :
         /\ (model[i] = "tq") <=> (got.cache[i].kind = "tq")
         /\ (model[i] = "ssm") <=> (got.cache[i].kind = "ssm")

\* The SSM layers of a hit come from the same moment of one request (its end in
\* _cleanup_finished, or its prefill in _process_prompts, stores the companion; a
\* hit injects it): none is left fresh, and all
\* have seen the same tokens.
SSMTogether ==
  got # Absent =>
    LET states == {got.cache[i].pos : i \in {k \in DOMAIN model : model[k] = "ssm"}}
    IN Cardinality(states) <= 1 /\ << >> \notin states

\* A block read back from its file has each layer where it was; what is missing
\* at its end, or is "skip" in it, was "skip" or held inner quantized layers
\* only (_serialize_block, _deserialize_block).  And every tensor has the model's
\* own heads, however large the batch was: reconstruct_cache would drop the whole
\* hit (_extract_cache_states).
DiskKeepsLayers ==
  \A key \in DOMAIN pool : \A data \in pool[key] :
    \A i \in DOMAIN data :
      /\ \A e \in Inside(data[i]) : e.heads = 1
      /\ \/ i \in DOMAIN OnDisk(data) /\ OnDisk(data)[i] = data[i]
         \/ \E e \in Inside(data[i]) : e.kind = "skip" \/ (data[i].kind = "list" /\ e.kind = "quant")
================================================================================
