-------------------------- MODULE MCHydroXLEngine --------------------------
(* Files, prompts and contexts for HydroXLEngine.                           *)
EXTENDS HydroXLEngine
LOCAL INSTANCE SequencesExt

MCDefaultHP == [vocab |-> 20, embd |-> 8, heads |-> 2, kv |-> 1, layers |-> 1, ff |-> 4, ctx |-> 4]

KV(key, type, value) ==
    [key |-> key, keylen |-> 4, type |-> type, value |-> value, elem |-> "", count |-> 5,
     each |-> 1]
Arr(key, elem, value) == [KV(key, "ARRAY", value) EXCEPT !.elem = elem, !.count = Len(value),
                                                         !.each = 9]

B(b) == byte_to_unicode[b]
Merges == <<<<B(114), B(101)>>, <<B(32), B(114)>>>>
Bytes == <<0, 10, 32, 33, 39, 49, 101, 114, 160, 173, 196>>
Tokens == [i \in DOMAIN Bytes |-> B(Bytes[i])]
          \o <<B(114) \o B(101), B(32) \o B(114), <<60>>>>
OpenTokens == [Tokens EXCEPT ![12] = <<61>>]

Vocabulary(tokens, eos) ==
    <<KV("tokenizer", "STRING", "gpt2"), Arr("tokens", "STRING", tokens),
      Arr("merges", "STRING", Merges),
      Arr("token_type", "INT32", [i \in 1..14 |-> IF i \in {14, eos + 1} THEN 3 ELSE 1]),
      KV("eos", "UINT32", eos)>>

Tensor(name, type, n) ==
    [name |-> name, namelen |-> 5, shape |-> <<n>>, type |-> type, offset |-> 0]

\* A file with these metadata, tensors and blocks, all of its data present.
Make(kvs, tensors, embd) ==
    LET f == [size |-> 0, magic |-> "GGUF", version |-> 3, n_kv |-> Len(kvs),
              n_tensors |-> Len(tensors), kvs |-> kvs, tensors |-> tensors, embd |-> embd]
        Before(i) == FoldLeft(LAMBDA s, t : s + TensorBytes(t), 0, SubSeq(tensors, 1, i - 1))
    IN  [f EXCEPT !.size = data_offset(f) + Before(Len(tensors) + 1),
                  !.tensors = [i \in DOMAIN tensors |-> [tensors[i] EXCEPT !.offset = Before(i)]]]

LayerNames == <<"attn_norm", "ffn_norm", "attn_q", "attn_k", "attn_v", "attn_output",
                "ffn_gate", "ffn_up", "ffn_down", "attn_q.bias">>
Whole(hp, type) ==
    <<Tensor(<<0, "token_embd">>, type, hp.vocab * hp.embd), Tensor(<<0, "output_norm">>, "F32", hp.embd)>>
    \o [i \in DOMAIN LayerNames |-> Tensor(<<1, LayerNames[i]>>, "F32", Expected(hp, <<1, LayerNames[i]>>))]

States(hp) == <<KV("arch", "STRING", "qwen2"), KV("vocab", "UINT32", hp.vocab),
                KV("embd", "UINT32", hp.embd), KV("heads", "UINT32", hp.heads),
                KV("kv", "UINT32", hp.kv), KV("ctx", "UINT32", hp.ctx)>>

HP == MCDefaultHP
Basic(hp, tokens, eos) == Make(States(hp) \o Vocabulary(tokens, eos), Whole(hp, "F32"), << >>)
Main == Basic(HP, Tokens, 13)
Begun == Make(States([HP EXCEPT !.vocab = 12, !.embd = 6, !.ctx = 3]) \o Vocabulary(Tokens, 7)
              \o <<KV("bos", "UINT32", 7), KV("add_bos", "BOOL", TRUE)>>,
              Whole([HP EXCEPT !.vocab = 12, !.embd = 6, !.ctx = 3], "F32"), << >>)
TwoKV == [HP EXCEPT !.kv = 2]

\* Elements as they were before they were packed; groups of n share scale and minimum.
Elem(n, i, q, s, m) == [q |-> q + ((7 * i + i \div 3) % (-2 * q + (IF q = 0 THEN 16 ELSE 0))),
                        scale |-> s + ((11 * (i \div n)) % 60), min |-> m * ((13 * (i \div n)) % 64)]
Five(x) == [b \in 1..5 |-> x]
BigHP == [HP EXCEPT !.embd = 64]
Packed(type) ==
    CASE type = "Q4_K" -> Five([i \in 0..(8 * L - 1) |-> Elem(L, i, 0, 0, 1)])
      [] type = "Q3_K" -> Five([i \in 0..(8 * L - 1) |-> Elem(L \div 2, i, -4, -32, 0)])
      [] type = "Q6_K" -> Five([i \in 0..(8 * L - 1) |-> Elem(L \div 2, i, -32, -20, 0)])
      [] type = "Q8_0" -> Five([i \in 0..(L - 1) |-> Elem(2 * L, i, -128, 1, 0)])
      [] type = "Q5_0" -> Five([i \in 0..(L - 1) |-> Elem(2 * L, i, -16, 1, 0)])
      [] type = "Q5_1" -> Five([i \in 0..(L - 1) |-> Elem(2 * L, i, 0, 1, 0)])
      [] type = "F16"  -> [b \in 1..3 |-> [i \in 1..3 |->
             [sign |-> i % 2, exponent |-> (b - 1) * 7, mantissa |-> (i - 1) * 300 + b]]]

\* Files whose embedding is quantized; what else they lack ends the load afterwards.
Quantized(type) ==
    LET hp == IF Blocks[type][1] = 256 THEN BigHP ELSE HP
    IN  IF type = "Q4_K" THEN Make(States(hp), Whole(hp, type), Packed(type))
        ELSE IF type = "Q8_0"
             THEN Make(States(hp) \o Vocabulary(Tokens, 13), SubSeq(Whole(hp, type), 1, 10), Packed(type))
        ELSE Make(States([hp EXCEPT !.ctx = 0]) \o Vocabulary(Tokens, 13), Whole(hp, type), Packed(type))

\* A file that states a longer feed-forward layer than its tensors have.
Disagreeing == Make(Append(States(HP) \o Vocabulary(Tokens, 13), KV("ff", "UINT32", 4)),
                    Whole([HP EXCEPT !.ff = 2], "F32"), << >>)

MCFiles ==
    {Quantized(t) : t \in {"Q4_K", "Q3_K", "Q6_K", "Q8_0", "Q5_0", "Q5_1", "F16"}}
    \cup {Main, Begun,
          Basic([HP EXCEPT !.heads = 3, !.kv = 2, !.embd = 6], OpenTokens, 1),
          Disagreeing, [Main EXCEPT !.size = @ - 1], [Main EXCEPT !.n_kv = @ + 1],
          [Main EXCEPT !.tensors[1].shape = <<1001, 1000>>], [Main EXCEPT !.magic = "GGML"]}

\* One key/value head for each of two query heads.
TwoFiles == {Basic(TwoKV, Tokens, 13)}

Chars == {<<32>>, <<10>>, <<39>>, <<114>>, <<49>>, <<33>>, <<196, 160>>}
AllTexts ==
    {<< >>} \cup Chars \cup {a \o b : a, b \in Chars} \cup {a \o b \o c : a, b, c \in Chars}
    \cup {<<196>>, <<196, 32>>, <<173, 33, 0>>, <<49, 49, 49, 49>>, <<32, 39, 114, 101>>,
          <<32, 32, 10, 32>>, <<101, 39, 114, 101>>}
MCPrompts == <<AllTexts, {<<114, 33>>}>>
FewPrompts == <<{<<114, 33>>, <<49>>}, {<<49>>}>>

MCContexts == {[n_ctx |-> 0, max |-> 0, stream |-> TRUE, greedy |-> FALSE],
               [n_ctx |-> 3, max |-> 1, stream |-> FALSE, greedy |-> TRUE]}

\* A clear favourite, a tie, and a mild slope.
MCLogits ==
    {[t \in 0..19 |-> IF t = 13 THEN 4 ELSE 0], [t \in 0..19 |-> IF t \in {3, 11} THEN 2 ELSE -2],
     [t \in 0..11 |-> t]}
=============================================================================
