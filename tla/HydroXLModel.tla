---------------------------- MODULE HydroXLModel ----------------------------
(***************************************************************************)
(* src/hydroxl/HydroXLModel.cpp: the weights of a Qwen2 model, read and    *)
(* expanded from a GGUF file.  A model is [hp, floats, tied]: its          *)
(* hyperparameters, the number of floats of every vector, and whether the  *)
(* embedding serves as LM head.  The values of the weights are left out.   *)
(***************************************************************************)
EXTENDS GGUFLoader

CONSTANT DefaultHP      \* the hyperparameters of a file that does not state them

HyperParameters ==
    [vocab : Nat, embd : Nat, heads : Nat, kv : Nat, layers : Nat, ff : Nat, ctx : Nat]

Keys == DOMAIN DefaultHP    \* vocab, embd, heads, kv, layers, ff, ctx

HParams(f) == [k \in Keys |-> kvUInt32(f, k, DefaultHP[k])]

\* vocab is asked of two keys, 0 standing for none.
loadHParams(f) ==
    LET hp == HParams(f)
    IN  IF hp.vocab = 0 THEN [hp EXCEPT !.vocab = DefaultHP.vocab] ELSE hp

\* An empty architecture is accepted, and any that contains "qwen".
ArchOK(f) == kvString(f, "arch", "") \in {"", "qwen2", "qwen2_vl", "qwen"}

isValid(hp) == \A k \in Keys \ {"ctx"} : hp[k] > 0

HeadDim(hp) == hp.embd \div hp.heads

\* The number of elements that load asks of a tensor.
Expected(hp, name) ==
    LET d == HeadDim(hp)
        tensor == name[2]
    IN  CASE tensor \in {"token_embd", "output"} -> hp.vocab * hp.embd
          [] tensor \in {"output_norm", "attn_norm", "ffn_norm"} -> hp.embd
          [] tensor \in {"attn_q", "attn_output"} -> hp.heads * d * hp.embd
          [] tensor \in {"attn_k", "attn_v"} -> hp.kv * d * hp.embd
          [] tensor = "attn_q.bias" -> hp.heads * d
          [] tensor \in {"attn_k.bias", "attn_v.bias"} -> hp.kv * d
          [] tensor \in {"ffn_gate", "ffn_up", "ffn_down"} -> hp.ff * hp.embd

Supported == {"F32", "F16", "Q3_K", "Q4_K", "Q5_0", "Q5_1", "Q6_K", "Q8_0"}

\* Mutant: the number of elements is not compared.
ShapeUnchecked(t, expected) == Elements(t.shape) > 0

ShapeOK(t, expected) == expected > 0 => Elements(t.shape) = expected

\* The floats that loadTensor leaves in its vector: none when the tensor is
\* missing or of a wrong size; the vector is already sized when the read or the
\* decoding fails.
Floats(f, hp, name) ==
    IF Tensors(f, name) = {} \/ ~ ShapeOK(findTensor(f, name), Expected(hp, name)) THEN 0
    ELSE Elements(findTensor(f, name).shape)

loadTensor(f, hp, name) ==
    /\ Floats(f, hp, name) > 0
    /\ LET t == findTensor(f, name)
       IN  /\ readTensorData(f, t)
           /\ t.type \in Supported
           /\ Elements(t.shape) % Blocks[t.type][1] = 0

LayerTensors == {"attn_norm", "ffn_norm", "attn_q", "attn_k", "attn_v", "attn_output",
                 "ffn_gate", "ffn_up", "ffn_down"}
Biases == {"attn_q.bias", "attn_k.bias", "attn_v.bias"}

Required(hp) ==
    {<<0, "token_embd">>, <<0, "output_norm">>} \cup ((1..hp.layers) \X LayerTensors)

\* Whether load succeeds on a file; a missing output.weight or bias is no failure.
Loads(f) ==
    LET hp == loadHParams(f)
    IN  /\ open(f) /\ ArchOK(f) /\ isValid(hp)
        /\ \A name \in Required(hp) : loadTensor(f, hp, name)

\* The model of a file that loads.  Any failure to read output.weight ties the head
\* to the embedding.
load(f) ==
    LET hp == loadHParams(f)
        names == Required(hp) \cup ((1..hp.layers) \X Biases)
        tied == ~ loadTensor(f, hp, <<0, "output">>)
    IN  [hp     |-> hp,
         tied   |-> tied,
         floats |-> [n \in names \cup {<<0, "output">>} |->
                        IF n = <<0, "output">> /\ tied THEN 0 ELSE Floats(f, hp, n)]]
=============================================================================
