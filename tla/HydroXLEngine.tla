--------------------------- MODULE HydroXLEngine ---------------------------
(***************************************************************************)
(* src/hydroxl/HydroXLEngine.cpp: the native engine, composed of the file  *)
(* parser, the model, the tokenizer, the KV cache, the forward pass and    *)
(* the sampler.  Every public method holds mutex_ from its first line to   *)
(* its return, so that one method runs at a time (pc is where it is); what *)
(* runs beside it are the threads that decode a tensor and the client that *)
(* sets the cancel flag of the context.  Times and texts of the result are *)
(* left out.                                                               *)
(***************************************************************************)
EXTENDS HydroXLForwardPass, HydroXLTokenizer, HydroXLSampler, HydroXLDequant
LOCAL INSTANCE SequencesExt

CONSTANTS
    Files,          \* the files considered, see GGUFLoader, with embd: the blocks of
                    \* token_embd before they were packed (none for F32)
    Prompts,        \* Prompts[n]: the texts considered for the n-th call to a model; their
                    \* length bounds the calls
    Contexts,       \* [n_ctx, max, stream, greedy] of the calls considered
    Logits,         \* what the forward pass may compute
    MaxContext,     \* 2048
    DefaultMax,     \* 256
    None

VARIABLES
    initialized, loaded, error,     \* initialized_, model_loaded_, last_error_
    model, tok, cache,              \* model_, tokenizer_, kv_cache_
    file, workers, weights,         \* the load in progress: its file, the blocks that
                                    \* each thread has left, the blocks decoded
    pc, call,                       \* the method that holds mutex_
    cancel,                         \* *ctx.cancel_flag
    result,                         \* of the last execute: [kind, tok]
    calls                           \* executes since the last load, for the bound

engineVars == <<initialized, loaded, error, model, tok, cache, file, workers, weights, pc,
                call, cancel, result, calls>>

engine == <<initialized, loaded, error, model, tok, cache>>
loading == <<file, workers, weights>>
execution == <<call, cancel, result, calls>>

\* A hyperparameter is a uint32_t, and so are the limits of a context; the blocks of a
\* tensor are a sequence.
ASSUME EngineAssumption ==
    /\ MaxContext \in Nat /\ MaxThreads \in Nat \ {0} /\ MinParallel \in Nat
    /\ \A ctx \in Contexts : ctx.n_ctx \in Nat
    /\ Len(Prompts) \in Nat /\ DOMAIN Prompts = 1..Len(Prompts)
    /\ DefaultHP \in HyperParameters
    /\ \A f \in Files :
           /\ loadHParams(f) \in HyperParameters
           /\ Len(f.embd) \in Nat /\ DOMAIN f.embd = 1..Len(f.embd)
           /\ load(f) # None

\* encode appends identifiers to a vector of integers.
ASSUME EncodeAssumption ==
    \A f \in Files, n \in DOMAIN Prompts :
        Tokenizes(f) => \A text \in Prompts[n] : encode(loadFromGGUF(f), text) \in Seq(Int)

\* A half and the float it was expanded to have the same value.
SameHalf(h, f) == f.sign = h.sign /\ FloatValue(f) = HalfValue(h)

\* The floats x hold the numbers that were packed into block b of a file's embedding.
AsPacked(f, b, x) ==
    /\ x # None
    /\ IF findTensor(f, <<0, "token_embd">>).type = "F16"
       THEN \A i \in DOMAIN f.embd[b] : SameHalf(f.embd[b][i], x[i])
       ELSE x = f.embd[b]

\* What one block decodes to, whichever thread does it.
DecodedBlock(f, b) == Decoded(findTensor(f, <<0, "token_embd">>).type, f.embd[b])

\* The numbers of a block fit the fields of its type: the encoder that packed them has
\* rounded them.
ASSUME BlockAssumption ==
    \A f \in Files : \A b \in DOMAIN f.embd : AsPacked(f, b, DecodedBlock(f, b))

NoResult == [kind |-> "none", tok |-> TOKEN_INVALID]

EngineInit ==
    /\ initialized = FALSE /\ loaded = FALSE /\ error = "none"
    /\ model = None /\ tok = None /\ cache = NoCache
    /\ file = None /\ workers = << >> /\ weights = << >>
    /\ pc = "idle" /\ call = None /\ cancel = FALSE /\ result = NoResult /\ calls = 0

\* The fresh objects that shutdown, unloadModel and loadModel make.  The context and
\* the result of the last execute are the client's; they are forgotten here.
Fresh ==
    /\ model' = None /\ tok' = None /\ cache' = NoCache /\ loaded' = FALSE
    /\ cancel' = FALSE /\ result' = NoResult /\ calls' = 0
    /\ UNCHANGED call

-----------------------------------------------------------------------------
(* Lifecycle *)

initialize ==
    /\ pc = "idle" /\ ~ initialized
    /\ initialized' = TRUE /\ error' = "none"
    /\ UNCHANGED <<loaded, model, tok, cache, loading, pc, execution>>

shutdown ==
    /\ pc = "idle" /\ initialized
    /\ Fresh /\ initialized' = FALSE
    /\ UNCHANGED <<error, loading, pc>>

unloadModel ==
    /\ pc = "idle"
    /\ Fresh
    /\ UNCHANGED <<initialized, error, loading, pc>>

\* Not initialized, or a descriptor without id or path.
LoadRejected ==
    /\ pc = "idle"
    /\ error' = IF initialized THEN "INVALID_REQUEST" ELSE "ENGINE_UNAVAILABLE"
    /\ UNCHANGED <<initialized, loaded, model, tok, cache, loading, pc, execution>>

\* The old model goes before the file is opened.  Everything up to the decoding of
\* token_embd.
loadModel(f) ==
    LET hp == loadHParams(f)
        starts == open(f) /\ ArchOK(f) /\ isValid(hp) /\ loadTensor(f, hp, <<0, "token_embd">>)
        blocks == Len(f.embd)
    IN  /\ pc = "idle" /\ initialized
        /\ Fresh
        /\ IF starts
           THEN /\ file' = f
                /\ workers' = [t \in 1..DecodeThreads(blocks) |-> Chunk(blocks, t - 1)]
                /\ weights' = [b \in DOMAIN f.embd |-> None]
                /\ pc' = "load"
                /\ UNCHANGED error
           ELSE /\ error' = "MODEL_LOAD_FAILED"
                /\ UNCHANGED <<loading, pc>>
        /\ UNCHANGED initialized

\* A thread of parallel_dequant decodes its next block.
DecodeBlock(t) ==
    LET b == workers[t].next + 1
    IN  /\ pc = "load" /\ workers[t].next < workers[t].end
        /\ weights' = [weights EXCEPT ![b] = DecodedBlock(file, b)]
        /\ workers' = [workers EXCEPT ![t].next = b]
        /\ UNCHANGED <<engine, file, pc, execution>>

Joined == \A t \in DOMAIN workers : workers[t].next >= workers[t].end

LoadOver == file' = None /\ workers' = << >> /\ weights' = << >> /\ pc' = "idle"

\* Another tensor is missing or broken.
LoadFailed ==
    /\ pc = "load" /\ Joined /\ ~ Loads(file)
    /\ error' = "MODEL_LOAD_FAILED" /\ LoadOver
    /\ UNCHANGED <<initialized, loaded, model, tok, cache, execution>>

\* The file is opened again for the tokenizer; a tokenizer that the reopened file
\* does not hold is an error, a file that does not open again is none.
TokenizerFailed ==
    /\ pc = "load" /\ Joined /\ Loads(file) /\ ~ Tokenizes(file)
    /\ model' = load(file)
    /\ error' = "MODEL_LOAD_FAILED" /\ LoadOver
    /\ UNCHANGED <<initialized, loaded, tok, cache, execution>>

\* The context of the cache.
max_seq(hp) == IF hp.ctx < MaxContext THEN hp.ctx ELSE MaxContext

LoadDone(reopened) ==
    LET hp == loadHParams(file)
        allocated == CanAllocate(hp, max_seq(hp))
    IN  /\ pc = "load" /\ Joined /\ Loads(file)
        /\ reopened => Tokenizes(file)
        /\ model' = load(file)
        /\ tok' = IF reopened THEN loadFromGGUF(file) ELSE None
        /\ cache' = IF allocated THEN allocate(hp, max_seq(hp)) ELSE NoCache
        /\ loaded' = allocated
        /\ error' = IF allocated THEN "none" ELSE "RESOURCE_UNAVAILABLE"
        /\ LoadOver
        /\ UNCHANGED <<initialized, execution>>

-----------------------------------------------------------------------------
(* doGenerate *)

Return(kind, t) ==
    /\ pc' = "idle" /\ call' = None
    /\ result' = [kind |-> kind, tok |-> t]

\* effective_limit.
Limit(ctx) == IF ctx.n_ctx > 0 /\ ctx.n_ctx < cache.max THEN ctx.n_ctx ELSE cache.max

\* execute and executeStreaming up to the first forward pass.
execute(text, ctx) ==
    LET tokens == IF tok = None THEN << >> ELSE encode(tok, text)
        fits == Len(tokens) <= Limit(ctx)
    IN  /\ pc = "idle"
        /\ cancel' = FALSE /\ calls' = calls + 1
        /\ IF loaded /\ fits
           THEN /\ pc' = "prefill"
                /\ call' = [text |-> text, tokens |-> tokens, ctx |-> ctx, limit |-> Limit(ctx),
                            pos |-> 0, generated |-> << >>, next |-> TOKEN_INVALID]
                /\ cache' = reset(cache)
                /\ result' = NoResult /\ UNCHANGED error
           ELSE /\ Return(IF loaded THEN "too long" ELSE "no model", TOKEN_INVALID)
                /\ error' = IF loaded THEN "INVALID_REQUEST" ELSE error
                /\ UNCHANGED cache
        /\ UNCHANGED <<initialized, loaded, model, tok, loading>>

\* The client sets the flag at any time.
Cancel ==
    /\ pc \in {"prefill", "generate", "callback", "forward"} /\ ~ cancel
    /\ cancel' = TRUE
    /\ UNCHANGED <<engine, loading, pc, call, result, calls>>

MaxNew == IF call.ctx.max > 0 THEN call.ctx.max ELSE DefaultMax

Cancelled ==
    /\ cancel
    /\ \/ pc = "prefill" /\ call.pos < Len(call.tokens)
       \/ pc = "generate" /\ Len(call.generated) < MaxNew
    /\ Return("cancelled", TOKEN_INVALID) /\ error' = "CANCELLED"
    /\ UNCHANGED <<initialized, loaded, model, tok, cache, loading, cancel, calls>>

\* Run forward on token t at the position of the call, or return.
Forward(t, then) ==
    /\ cache' = forward(model, cache, t, call.pos)
    /\ IF CanForward(model, cache, t, call.pos)
       THEN /\ call' = [call EXCEPT !.pos = @ + 1]
            /\ pc' = then /\ UNCHANGED result
       ELSE Return("forward failed", t)
    /\ UNCHANGED <<initialized, loaded, error, model, tok, loading, cancel, calls>>

\* The prompt never exceeds the limit here: execute has compared them.
Prefill ==
    /\ pc = "prefill" /\ call.pos < Len(call.tokens) /\ ~ cancel
    /\ Forward(call.tokens[call.pos + 1], "prefill")

PrefillDone ==
    /\ pc = "prefill" /\ call.pos = Len(call.tokens)
    /\ IF call.tokens = << >> THEN Return("empty prompt", TOKEN_INVALID)
       ELSE pc' = "generate" /\ UNCHANGED <<call, result>>
    /\ UNCHANGED <<engine, loading, cancel, calls>>

\* Mutant: the loop ends at max_tokens only.
FullBlind == Len(call.generated) >= MaxNew

\* Nothing more is generated.
Full == Len(call.generated) >= MaxNew \/ call.pos >= call.limit

Generate ==
    /\ pc = "generate" /\ ~ cancel /\ ~ Full
    /\ \E logits \in Logits : \E t \in sample(logits, call.generated, call.ctx.greedy) :
           IF t = tok.eos THEN Return("ok", t)
           ELSE /\ call' = [call EXCEPT !.generated = Append(@, t), !.next = t]
                /\ pc' = IF call.ctx.stream THEN "callback" ELSE "forward"
                /\ UNCHANGED result
    /\ UNCHANGED <<engine, loading, cancel, calls>>

\* The client's callback; what it does with the flag is Cancel.
Callback ==
    /\ pc = "callback"
    /\ pc' = "forward"
    /\ UNCHANGED <<engine, loading, execution>>

ForwardNext ==
    /\ pc = "forward"
    /\ Forward(call.next, "generate")

\* The loop counts before it looks at the flag, and at the flag before the limit.
Finish ==
    /\ pc = "generate" /\ Full /\ (cancel => Len(call.generated) >= MaxNew)
    /\ Return("ok", TOKEN_INVALID)
    /\ UNCHANGED <<engine, loading, cancel, calls>>

EngineNext ==
    \/ initialize \/ shutdown \/ unloadModel \/ LoadRejected
    \/ \E f \in Files : loadModel(f)
    \/ \E t \in DOMAIN workers : DecodeBlock(t)
    \/ LoadFailed \/ TokenizerFailed \/ \E r \in BOOLEAN : LoadDone(r)
    \/ /\ calls < Len(Prompts)
       /\ \E text \in Prompts[calls + 1], ctx \in Contexts : execute(text, ctx)
    \/ Cancel \/ Cancelled \/ Prefill \/ PrefillDone
    \/ Generate \/ Callback \/ ForwardNext \/ Finish

EngineSpec == EngineInit /\ [][EngineNext]_engineVars

-----------------------------------------------------------------------------
(* Properties *)

\* What attention reads is the history of the call: for every query head and every
\* position so far, the cell of the KV cache that causal_attention addresses holds
\* what writeKV stored for the token of that position and the head's key/value head.
AttentionReadsHistory ==
    call # None =>
        LET history == call.tokens \o call.generated
            hp == model.hp
        IN  hp.heads % hp.kv = 0 =>
            \A l \in DOMAIN cache.data, h \in 0..(hp.heads - 1), t \in 0..(call.pos - 1) :
                cache.data[l][AttentionCell(cache, hp, h, t)] =
                    [tok |-> history[t + 1], pos |-> t, head |-> h \div (hp.heads \div hp.kv)]

\* A model that the engine calls loaded can be run: it is whole, the cache has room,
\* and each of its vectors has the floats that the forward pass reads without
\* comparing sizes, whatever the file said and whichever load failed before.
LoadedMeansUsable ==
    loaded =>
        /\ initialized /\ model # None /\ cache.max > 0 /\ cache.layers = model.hp.layers
        /\ \A name \in DOMAIN model.floats : FloatsRead(model, name) <= model.floats[name]

\* When the threads of parallel_dequant have joined, every block has been decoded,
\* to the numbers that were packed into it.
DecodedAsPacked ==
    pc = "load" /\ Joined =>
        \A b \in DOMAIN file.embd : AsPacked(file, b, weights[b])

\* A vocabulary that holds every byte of a text and the result of every merge, in tokens
\* that decode keeps, and no token for the begin of a text that it would keep too.
Closed(t, text) ==
    LET Known(sym) == Shown(t, tokenToId(t, sym))
    IN  /\ \A i \in DOMAIN text : Known(byte_to_unicode[text[i]])
        /\ \A r \in DOMAIN t.merges : Known(t.merges[r][1] \o t.merges[r][2])
        /\ t.add_bos => ~ Shown(t, t.bos)

\* The tokens of a prompt stand for the prompt: decoded they give its bytes, even
\* where they are no UTF-8, and an ASCII text is cut into pieces as the pattern of
\* Qwen2 cuts it.
TokensStandForText ==
    pc = "prefill" /\ call.pos = 0 /\ tok # None =>
        /\ Closed(tok, call.text) => decode(tok, call.tokens) = call.text
        /\ (\A i \in DOMAIN call.text : call.text[i] \in 1..127) =>
               LET pieces == preTokenize(call.text)
                   From(p) == Len(FlattenSeq(SubSeq(pieces, 1, p - 1))) + 1
               IN  \A p \in DOMAIN pieces :
                       PatternEnd(call.text, From(p)) = From(p) + Len(pieces[p])

\* A forward pass fails for a token outside the model's vocabulary or heads that do not
\* divide, never because a call ran out of cache: it ends before.
NoCallOverrunsCache ==
    result.kind = "forward failed" /\ model # None =>
        ~ (result.tok < model.hp.vocab) \/ model.hp.heads % model.hp.kv # 0

=============================================================================
