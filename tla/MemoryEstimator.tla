--------------------------- MODULE MemoryEstimator --------------------------
(***************************************************************************)
(* src/orchestration/MemoryEstimator.cpp: the bytes that a model will take *)
(* when its weights are expanded to 4-byte floats.  hp is a record         *)
(* [layers, embd, heads, kv, ff, vocab, ctx] of hyperparameters.           *)
(***************************************************************************)
EXTENDS HardwareDetector

CONSTANT AssumedRam     \* available_ram_bytes(): 16 GiB, whatever the machine has,
                        \* on every platform but Windows

FloatBytes == 4

\* n_embd / n_heads, and 64 when that is 0.
HeadDim(hp) == IF hp.embd \div hp.heads = 0 THEN 64 ELSE hp.embd \div hp.heads

Degenerate(hp) == 0 \in {hp.layers, hp.embd, hp.heads, hp.kv, hp.vocab}

LayerWeights(hp) ==
    LET q == hp.heads * HeadDim(hp)
        kv == hp.kv * HeadDim(hp)
    IN  2 * hp.embd + 2 * hp.embd * q + 2 * hp.embd * kv
            + 3 * hp.embd * hp.ff + q + 2 * kv

WeightsBytes(hp) ==
    FloatBytes * (hp.layers * LayerWeights(hp) + 2 * hp.vocab * hp.embd + hp.embd)

KvCacheBytes(hp, seq) == FloatBytes * 2 * hp.layers * hp.kv * HeadDim(hp) * seq

ActivationsBytes(hp, seq) == FloatBytes * (10 * hp.embd + 3 * hp.ff + seq)

\* total_estimated: an estimate of zero dimensions stays zero; otherwise the
\* safety factor 1.1 adds a tenth.
estimate(hp, max_seq) ==
    LET seq == IF max_seq = 0 THEN 512 ELSE max_seq
        base == WeightsBytes(hp) + KvCacheBytes(hp, seq) + ActivationsBytes(hp, seq)
    IN  IF Degenerate(hp) THEN 0 ELSE base + base \div 10
=============================================================================
