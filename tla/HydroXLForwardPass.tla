------------------------- MODULE HydroXLForwardPass -------------------------
(***************************************************************************)
(* src/hydroxl/HydroXLKVCache.cpp, HydroXLForwardPass.cpp and the operators *)
(* of HydroXLOps.cpp.  The arithmetic is left out; what is kept is which    *)
(* vector of the cache belongs to which token, head and position.  A cache  *)
(* is [layers, kv, max, data]; data[l] has kv * max cells of head_dim       *)
(* floats each, and a cell holds [tok, pos, head] or Zero.  The value cache *)
(* has the same layout as the key cache and is not kept apart.              *)
(***************************************************************************)
EXTENDS HydroXLModel

CONSTANT MaxCells       \* the limit of 4 GB, in cells

Zero == [tok |-> -1, pos |-> -1, head |-> -1]
NoCache == [layers |-> 0, kv |-> 0, max |-> 0, data |-> << >>]

CanAllocate(hp, max_seq) ==
    /\ hp.layers > 0 /\ hp.kv > 0 /\ max_seq > 0 /\ HeadDim(hp) > 0
    /\ hp.layers * 2 * hp.kv * max_seq <= MaxCells

Cells(heads, max_seq) == 0..(heads * max_seq - 1)

allocate(hp, max_seq) ==
    [layers |-> hp.layers, kv |-> hp.kv, max |-> max_seq,
     data |-> [l \in 1..hp.layers |-> [c \in Cells(hp.kv, max_seq) |-> Zero]]]

reset(cache) ==
    [cache EXCEPT !.data = [l \in DOMAIN @ |-> [c \in DOMAIN @[l] |-> Zero]]]

\* Mutant: a position is written at the place of the one before.
writeKVBehind(cache, l, pos, tok) ==
    [cache EXCEPT !.data[l] =
        [c \in DOMAIN @ |-> IF c \div cache.kv + 1 = pos \/ (pos = 0 /\ c < cache.kv)
                            THEN [tok |-> tok, pos |-> pos, head |-> c % cache.kv] ELSE @[c]]]

\* The vectors of all heads of a position are stored one after another.
writeKV(cache, l, pos, tok) ==
    [cache EXCEPT !.data[l] =
        [c \in DOMAIN @ |-> IF c \div cache.kv = pos
                            THEN [tok |-> tok, pos |-> pos, head |-> c % cache.kv] ELSE @[c]]]

\* The cell that causal_attention reads for query head h at position t: all positions
\* of a head one after another.
AttentionCell(cache, hp, h, t) ==
    (h \div (hp.heads \div hp.kv)) * cache.max + t

\* The position pos is written before the attention of the layer looks at pos + 1
\* positions.
CanAttend(cache, hp, pos) ==
    hp.heads % hp.kv = 0 /\ pos + 1 <= cache.max

\* Whether forward succeeds; the results of matvec and rope_apply are not looked at.
CanForward(model, cache, tok, pos) ==
    /\ tok < model.hp.vocab
    /\ pos < cache.max
    /\ CanAttend(cache, model.hp, pos)

\* The cache after forward, or after the layer at which it fails.
forward(model, cache, tok, pos) ==
    IF CanForward(model, cache, tok, pos)
    THEN [cache EXCEPT !.data = [l \in DOMAIN @ |-> writeKV(cache, l, pos, tok).data[l]]]
    ELSE IF tok < model.hp.vocab /\ pos < cache.max THEN writeKV(cache, 1, pos, tok)
    ELSE cache

\* The floats that forward reads of every vector; 0 for a vector it can do without.
FloatsRead(model, name) ==
    LET hp == model.hp
        d == HeadDim(hp)
        tensor == name[2]
    IN  CASE tensor = "token_embd" -> hp.vocab * hp.embd
          [] tensor = "output" -> IF model.tied THEN 0 ELSE hp.vocab * hp.embd
          [] tensor \in {"output_norm", "attn_norm", "ffn_norm"} -> hp.embd
          [] tensor = "attn_q" -> (hp.heads * d) * hp.embd
          [] tensor \in {"attn_k", "attn_v"} -> (hp.kv * d) * hp.embd
          [] tensor = "attn_output" -> hp.embd * (hp.heads * d)
          [] tensor = "attn_q.bias" -> IF model.floats[name] = 0 THEN 0 ELSE hp.heads * d
          [] tensor \in {"attn_k.bias", "attn_v.bias"} ->
                IF model.floats[name] = 0 THEN 0 ELSE hp.kv * d
          [] tensor \in {"ffn_gate", "ffn_up"} -> hp.ff * hp.embd
          [] tensor = "ffn_down" -> hp.embd * hp.ff
=============================================================================
