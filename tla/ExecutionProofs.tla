-------------------------- MODULE ExecutionProofs --------------------------
(***************************************************************************)
(* Proofs about the two components that run work: HydroXLEngine, which     *)
(* runs a model itself, and AdaptiveScheduler, which gives work to its     *)
(* workers.                                                                *)
(*                                                                         *)
(* HydroXLEngine, for all files, prompts, contexts and logits and any      *)
(* number of decoding threads.  What a call finds in the cache depends on  *)
(* the cache's dimensions, which are those of the model as long as it is   *)
(* loaded (Serves), and on the position of the call among its tokens       *)
(* (CallInv): between the token generated and its forward pass the         *)
(* position is one behind.  CacheHoldsHistory says what is stored, cell by *)
(* cell; DecodingInv which blocks a thread has decoded.                    *)
(*                                                                         *)
(* AdaptiveScheduler, for every set of workers, clients and workloads and  *)
(* every order of destruction.                                             *)
(* The invariant of a worker ties its three views of a job together: the   *)
(* queue, the status and what the thread holds (WorkerOK).  A handle means *)
(* something only together with its worker, so records and waiting clients *)
(* are tied to the job they stand for (RecordsOK, ClientOK), also for a    *)
(* job that finishes before its record is written.  That a job is not      *)
(* submitted to a worker that has gone rests on StopOK.                    *)
(***************************************************************************)
EXTENDS HydroXLEngine, AdaptiveScheduler, SequenceTheorems, FiniteSetTheorems, TLAPS

(***************************************************************************)
(* HydroXLEngine.                                                          *)
(***************************************************************************)

\* The places of a method that runs a model.
InCall == {"prefill", "generate", "callback", "forward"}

\* A sequence, of whatever elements.
IsSeq(s) == s \in Seq({s[i] : i \in 1..Len(s)})

\* The cells of a cache with the dimensions that it states.
CacheShape(c, hp) ==
    /\ c = [layers |-> hp.layers, kv |-> hp.kv, max |-> max_seq(hp), data |-> c.data]
    /\ c.data = [l \in 1..hp.layers |-> c.data[l]]
    /\ \A l \in 1..hp.layers :
           c.data[l] = [k \in Cells(hp.kv, max_seq(hp)) |-> c.data[l][k]]

\* What was loaded was loaded from a file that loads, into a cache allocated for it.
Serves(f) ==
    LET hp == loadHParams(f)
    IN  /\ Loads(f) /\ model = load(f)
        /\ CanAllocate(hp, max_seq(hp)) /\ CacheShape(cache, hp)
        /\ tok = None \/ (Tokenizes(f) /\ tok = loadFromGGUF(f))

LoadedInv == loaded => initialized /\ \E f \in Files : Serves(f)

\* While a file is being loaded nothing else has happened since the old model went.
LoadingInv ==
    pc = "load" => initialized /\ ~ loaded /\ file \in Files /\ result = NoResult

\* What the threads have decoded: each the blocks of its chunk before its next one.
DecodingInv ==
    pc = "load" =>
        LET n == Len(file.embd)
        IN  /\ workers = [t \in 1..DecodeThreads(n) |-> workers[t]]
            /\ weights = [b \in 1..n |-> weights[b]]
            /\ \A t \in 1..DecodeThreads(n) :
                  /\ workers[t] = [next |-> workers[t].next, end |-> Chunk(n, t - 1).end]
                  /\ workers[t].next \in Nat
                  /\ \A b \in 1..n : Chunk(n, t - 1).next < b /\ b <= workers[t].next =>
                         weights[b] = DecodedBlock(file, b)

\* Where a call is.
CallInv ==
    /\ calls \in Nat
    /\ pc \in {"idle", "load"} \cup InCall
    /\ pc \in {"idle", "load"} => call = None
    /\ pc \in InCall =>
          /\ loaded
          /\ call = [text |-> call.text, tokens |-> call.tokens, ctx |-> call.ctx, limit |-> call.limit,
                     pos |-> call.pos, generated |-> call.generated, next |-> call.next]
          /\ call.tokens \in Seq(Int) /\ IsSeq(call.generated)
          /\ call.pos \in Nat /\ call.limit \in Nat
          /\ call.pos <= call.limit /\ call.limit <= cache.max
          /\ pc = "prefill" => /\ call.generated = << >>
                               /\ call.pos <= Len(call.tokens) /\ Len(call.tokens) <= call.limit
          /\ pc = "generate" => call.pos = Len(call.tokens) + Len(call.generated)
          /\ pc \in {"callback", "forward"} =>
                /\ Len(call.generated) > 0 /\ call.next = call.generated[Len(call.generated)]
                /\ call.pos = Len(call.tokens) + Len(call.generated) - 1
                /\ call.pos < call.limit

\* The tokens that a call has run or is about to run.
History == call.tokens \o call.generated

\* For every position so far the cells of that position hold what was stored for its
\* token, one cell for every key/value head.
CacheHoldsHistory ==
    pc \in InCall =>
        \A l \in 1..model.hp.layers, k \in Cells(model.hp.kv, cache.max) :
            k \div model.hp.kv < call.pos =>
                cache.data[l][k] = [tok |-> History[(k \div model.hp.kv) + 1], pos |-> k \div model.hp.kv,
                                    head |-> k % model.hp.kv]

EngineInv ==
    /\ LoadedInv /\ LoadingInv /\ DecodingInv /\ CallInv
    /\ CacheHoldsHistory /\ NoCallOverrunsCache

-----------------------------------------------------------------------------
(* The KV cache *)

\* The dimensions of a cache.
LEMMA Dimensions ==
    ASSUME NEW hp \in HyperParameters, CanAllocate(hp, max_seq(hp))
    PROVE  /\ max_seq(hp) \in Nat \ {0} /\ hp.layers \in Nat \ {0} /\ hp.kv \in Nat \ {0}
           /\ hp.heads \in Nat /\ hp.vocab \in Nat
           /\ 1 \in 1..hp.layers
<1>1. MaxContext \in Nat
    BY EngineAssumption
<1>2. hp.layers \in Nat /\ hp.kv \in Nat /\ hp.heads \in Nat /\ hp.vocab \in Nat /\ hp.ctx \in Nat
    BY DEF HyperParameters
<1>3. max_seq(hp) \in Nat
    BY <1>1, <1>2 DEF max_seq
<1> QED BY <1>2, <1>3 DEF CanAllocate

\* allocate makes a cache of the dimensions asked for.
LEMMA AllocateShape ==
    ASSUME NEW hp \in HyperParameters
    PROVE  CacheShape(allocate(hp, max_seq(hp)), hp)
BY DEF CacheShape, allocate

\* The fields of a cache.
LEMMA ShapeFields ==
    ASSUME NEW c, NEW hp, CacheShape(c, hp)
    PROVE  /\ c.layers = hp.layers /\ c.kv = hp.kv /\ c.max = max_seq(hp)
           /\ DOMAIN c.data = 1..hp.layers
           /\ \A l \in 1..hp.layers : DOMAIN c.data[l] = Cells(hp.kv, max_seq(hp))
<1>1. \A d : [layers |-> hp.layers, kv |-> hp.kv, max |-> max_seq(hp), data |-> d].kv = hp.kv
    OBVIOUS
<1>2. c.layers = hp.layers /\ c.kv = hp.kv /\ c.max = max_seq(hp)
    BY DEF CacheShape
<1>3. DOMAIN c.data = 1..hp.layers
    BY DEF CacheShape
<1>4. \A l \in 1..hp.layers : DOMAIN c.data[l] = Cells(hp.kv, max_seq(hp))
    BY DEF CacheShape
<1> QED BY <1>2, <1>3, <1>4

\* The data of a cache have its dimensions.
DataShape(d, hp) ==
    /\ d = [l \in 1..hp.layers |-> d[l]]
    /\ \A l \in 1..hp.layers : d[l] = [k \in Cells(hp.kv, max_seq(hp)) |-> d[l][k]]

\* A cache given other data of its dimensions keeps them.
LEMMA ShapeOf ==
    ASSUME NEW c, NEW hp, CacheShape(c, hp), NEW d, DataShape(d, hp)
    PROVE  CacheShape([c EXCEPT !.data = d], hp) /\ [c EXCEPT !.data = d].data = d
<1> DEFINE e == [c EXCEPT !.data = d]
<1>1. c = [layers |-> hp.layers, kv |-> hp.kv, max |-> max_seq(hp), data |-> c.data]
    BY DEF CacheShape
<1>2. e = [layers |-> hp.layers, kv |-> hp.kv, max |-> max_seq(hp), data |-> d]
    BY <1>1
<1>3. e.data = d
    BY <1>2
<1> HIDE DEF e
<1>4. CacheShape(e, hp)
    BY <1>2, <1>3 DEF CacheShape, DataShape
<1> QED BY <1>3, <1>4 DEF e

\* reset keeps the dimensions.
LEMMA ResetShape ==
    ASSUME NEW c, NEW hp, CacheShape(c, hp)
    PROVE  CacheShape(reset(c), hp)
<1> DEFINE zeros == [k \in Cells(hp.kv, max_seq(hp)) |-> Zero]
           d == [l \in 1..hp.layers |-> zeros]
<1>1. DataShape(d, hp)
    BY DEF DataShape
<1>2. reset(c) = [c EXCEPT !.data = d]
    <2>1. \A l \in 1..hp.layers : [k \in DOMAIN c.data[l] |-> Zero] = zeros
        BY ShapeFields
    <2>2. DOMAIN c.data = 1..hp.layers
        BY ShapeFields
    <2> HIDE DEF zeros
    <2>3. [l \in DOMAIN c.data |-> [k \in DOMAIN c.data[l] |-> Zero]] = d
        BY <2>1, <2>2
    <2> QED BY <2>3 DEF reset
<1> HIDE DEF d
<1> QED BY <1>1, <1>2, ShapeOf

\* What writeKV leaves in the cells of a layer.
Written(c, l, pos, t) ==
    [k \in DOMAIN c.data[l] |-> IF k \div c.kv = pos
                                THEN [tok |-> t, pos |-> pos, head |-> k % c.kv] ELSE c.data[l][k]]

\* writeKV changes one layer.
LEMMA WriteShape ==
    ASSUME NEW c, NEW hp, CacheShape(c, hp), NEW l \in 1..hp.layers, NEW pos, NEW t
    PROVE  /\ CacheShape(writeKV(c, l, pos, t), hp)
           /\ writeKV(c, l, pos, t).data[l] = Written(c, l, pos, t)
<1> DEFINE d == [c.data EXCEPT ![l] = Written(c, l, pos, t)]
<1>1. writeKV(c, l, pos, t) = [c EXCEPT !.data = d]
    BY DEF writeKV, Written
<1>2. Written(c, l, pos, t) = [k \in Cells(hp.kv, max_seq(hp)) |-> Written(c, l, pos, t)[k]]
    BY ShapeFields DEF Written
<1>3. DOMAIN c.data = 1..hp.layers
    BY ShapeFields
<1>4. c.data = [m \in 1..hp.layers |-> c.data[m]]
      /\ \A m \in 1..hp.layers : c.data[m] = [k \in Cells(hp.kv, max_seq(hp)) |-> c.data[m][k]]
    BY DEF CacheShape
<1>5. d = [m \in 1..hp.layers |-> d[m]] /\ d[l] = Written(c, l, pos, t)
    BY <1>3, <1>4
<1>6. \A m \in 1..hp.layers : m # l => d[m] = c.data[m]
    BY <1>3, <1>4
<1> HIDE DEF d
<1>7. DataShape(d, hp)
    <2>1. ASSUME NEW m \in 1..hp.layers
          PROVE  d[m] = [k \in Cells(hp.kv, max_seq(hp)) |-> d[m][k]]
        <3>1. CASE m = l BY <3>1, <1>5, <1>2
        <3>2. CASE m # l BY <3>2, <1>6, <1>4
        <3> QED BY <3>1, <3>2
    <2> QED BY <2>1, <1>5 DEF DataShape
<1>8. CacheShape([c EXCEPT !.data = d], hp) /\ [c EXCEPT !.data = d].data = d
    BY <1>7, ShapeOf
<1> HIDE DEF CacheShape
<1> QED BY <1>1, <1>5, <1>8

\* forward keeps the dimensions; where it succeeds, every layer has been written.
LEMMA ForwardShape ==
    ASSUME NEW m, NEW c, NEW hp, CacheShape(c, hp), 1 \in 1..hp.layers, NEW t, NEW pos
    PROVE  /\ CacheShape(forward(m, c, t, pos), hp)
           /\ CanForward(m, c, t, pos) =>
                 \A l \in 1..hp.layers : forward(m, c, t, pos).data[l] = Written(c, l, pos, t)
<1>1. CASE CanForward(m, c, t, pos)
    <2> DEFINE d == [l \in 1..hp.layers |-> writeKV(c, l, pos, t).data[l]]
    <2>1. forward(m, c, t, pos) = [c EXCEPT !.data = d]
        <3>1. DOMAIN c.data = 1..hp.layers
            BY ShapeFields
        <3> QED BY <1>1, <3>1 DEF forward
    <2>2. \A l \in 1..hp.layers : d[l] = Written(c, l, pos, t)
        BY WriteShape
    <2>3. d = [l \in 1..hp.layers |-> d[l]]
        OBVIOUS
    <2> HIDE DEF d
    <2>4. \A l \in 1..hp.layers : Written(c, l, pos, t) =
                [k \in Cells(hp.kv, max_seq(hp)) |-> Written(c, l, pos, t)[k]]
        BY ShapeFields DEF Written
    <2>5. DataShape(d, hp)
        BY <2>2, <2>3, <2>4 DEF DataShape
    <2> QED BY <2>1, <2>2, <2>5, ShapeOf
<1>2. CASE ~ CanForward(m, c, t, pos)
    BY <1>2, WriteShape DEF forward
<1> QED BY <1>1, <1>2

-----------------------------------------------------------------------------
(* What a load leaves *)

\* Hyperparameters that a cache can be allocated for.
LEMMA Parameters ==
    ASSUME NEW f \in Files, Loads(f), CanAllocate(loadHParams(f), max_seq(loadHParams(f)))
    PROVE  LET hp == loadHParams(f)
           IN  /\ load(f).hp = hp /\ hp \in HyperParameters
               /\ hp.vocab \in Nat \ {0} /\ hp.embd \in Nat \ {0} /\ hp.heads \in Nat \ {0}
               /\ hp.kv \in Nat \ {0} /\ hp.ff \in Nat \ {0} /\ hp.layers \in Nat \ {0}
               /\ HeadDim(hp) \in Nat \ {0}
<1> DEFINE hp == loadHParams(f)
<1>1. load(f).hp = hp
    BY DEF load
<1>2. hp \in HyperParameters /\ DefaultHP \in HyperParameters
    BY EngineAssumption
<1>3. Keys = {"vocab", "embd", "heads", "kv", "layers", "ff", "ctx"}
    BY <1>2 DEF Keys, HyperParameters
<1>4. isValid(hp) /\ CanAllocate(hp, max_seq(hp))
    BY DEF Loads
<1> HIDE DEF hp
<1>5. /\ hp.vocab \in Nat \ {0} /\ hp.embd \in Nat \ {0} /\ hp.heads \in Nat \ {0}
      /\ hp.kv \in Nat \ {0} /\ hp.ff \in Nat \ {0} /\ hp.layers \in Nat \ {0}
    BY <1>2, <1>3, <1>4 DEF isValid, HyperParameters
<1>6. HeadDim(hp) \in Nat \ {0}
    BY <1>4, <1>5 DEF HeadDim, CanAllocate
<1> QED BY <1>1, <1>2, <1>5, <1>6 DEF hp

\* The product of positive numbers is positive.
LEMMA Product ==
    ASSUME NEW a \in Nat \ {0}, NEW b \in Nat \ {0}
    PROVE  a * b \in Nat \ {0}
OBVIOUS

\* The vectors of a model.
Vectors == {"token_embd", "output", "output_norm"} \cup LayerTensors \cup Biases

\* forward reads of a vector that has floats as many as load has asked for, and none of
\* one that it can do without.
LEMMA ReadsWhatWasAsked ==
    ASSUME NEW m, NEW name, name[2] \in Vectors,
           m.hp.vocab \in Nat \ {0}, m.hp.embd \in Nat \ {0}, m.hp.heads \in Nat \ {0},
           m.hp.kv \in Nat \ {0}, m.hp.ff \in Nat \ {0}, HeadDim(m.hp) \in Nat \ {0}
    PROVE  /\ Expected(m.hp, name) \in Nat \ {0}
           /\ \/ FloatsRead(m, name) = Expected(m.hp, name)
              \/ /\ FloatsRead(m, name) = 0
                 /\ name[2] \in Biases /\ m.floats[name] = 0
              \/ FloatsRead(m, name) = 0 /\ name[2] = "output" /\ m.tied
<1> DEFINE hp == m.hp
           d == HeadDim(hp)
<1>1. /\ hp.vocab * hp.embd \in Nat \ {0} /\ hp.heads * d \in Nat \ {0} /\ hp.kv * d \in Nat \ {0}
      /\ hp.ff * hp.embd \in Nat \ {0}
    BY Product
<1>2. /\ hp.heads * d * hp.embd \in Nat \ {0} /\ hp.kv * d * hp.embd \in Nat \ {0}
    BY <1>1, Product
<1>3. hp.embd * (hp.heads * d) = hp.heads * d * hp.embd /\ hp.embd * hp.ff = hp.ff * hp.embd
    OBVIOUS
<1>4. CASE name[2] \in {"token_embd", "output", "output_norm"}
    BY <1>1, <1>4 DEF Expected, FloatsRead
<1>5. CASE name[2] \in {"attn_norm", "ffn_norm", "attn_q", "attn_k", "attn_v"}
    BY <1>1, <1>2, <1>5 DEF Expected, FloatsRead
<1>6. CASE name[2] \in {"attn_output", "ffn_gate", "ffn_up", "ffn_down"}
    BY <1>1, <1>2, <1>3, <1>6 DEF Expected, FloatsRead
<1>7. CASE name[2] \in Biases
    BY <1>1, <1>7 DEF Expected, FloatsRead, Biases
<1> QED BY <1>4, <1>5, <1>6, <1>7 DEF Vectors, LayerTensors, Biases

\* loadTensor leaves the floats asked for, or none.
LEMMA FloatsAsked ==
    ASSUME NEW f, NEW hp, NEW name, Expected(hp, name) \in Nat \ {0}
    PROVE  /\ Floats(f, hp, name) \in {0, Expected(hp, name)}
           /\ loadTensor(f, hp, name) => Floats(f, hp, name) = Expected(hp, name)
BY DEF Floats, ShapeOK, loadTensor

\* Every vector of a loaded model has the floats that forward reads.
LEMMA LoadedFloats ==
    ASSUME NEW f \in Files, Loads(f), CanAllocate(loadHParams(f), max_seq(loadHParams(f))),
           NEW name \in DOMAIN load(f).floats
    PROVE  FloatsRead(load(f), name) <= load(f).floats[name]
<1> DEFINE m == load(f)
           hp == loadHParams(f)
           names == Required(hp) \cup ((1..hp.layers) \X Biases) \cup {<<0, "output">>}
           tied == ~ loadTensor(f, hp, <<0, "output">>)
<1>1. /\ m.hp = hp /\ m.tied = tied /\ DOMAIN m.floats = names
      /\ m.floats[name] = IF name = <<0, "output">> /\ tied THEN 0 ELSE Floats(f, hp, name)
    BY DEF load
<1>2. /\ hp.vocab \in Nat \ {0} /\ hp.embd \in Nat \ {0} /\ hp.heads \in Nat \ {0}
      /\ hp.kv \in Nat \ {0} /\ hp.ff \in Nat \ {0} /\ HeadDim(hp) \in Nat \ {0}
    BY Parameters
<1>3. \A n \in Required(hp) : loadTensor(f, hp, n)
    BY DEF Loads
<1> HIDE DEF m, hp, tied
<1>4. /\ name[2] \in Vectors
      /\ name \in Required(hp) \/ name[2] \in Biases \/ name = <<0, "output">>
      /\ name \in Required(hp) => name[2] \notin Biases /\ name # <<0, "output">>
      /\ name[2] = "output" => name = <<0, "output">>
    BY <1>1 DEF m, Required, Vectors, LayerTensors, Biases
<1>5. /\ Expected(hp, name) \in Nat \ {0}
      /\ \/ FloatsRead(m, name) = Expected(hp, name)
         \/ FloatsRead(m, name) = 0 /\ name[2] \in Biases /\ m.floats[name] = 0
         \/ FloatsRead(m, name) = 0 /\ name[2] = "output" /\ m.tied
    BY <1>1, <1>2, <1>4, ReadsWhatWasAsked
<1>6. /\ Floats(f, hp, name) \in {0, Expected(hp, name)}
      /\ loadTensor(f, hp, name) => Floats(f, hp, name) = Expected(hp, name)
    BY <1>5, FloatsAsked
<1> DEFINE asked == Expected(hp, name)
           read == FloatsRead(m, name)
           has == m.floats[name]
<1>7. CASE name \in Required(hp)
    <2>1. has = asked
        BY <1>1, <1>3, <1>4, <1>6, <1>7
    <2>2. read = asked
        BY <1>4, <1>5, <1>7
    <2> QED BY <1>5, <2>1, <2>2 DEF m
<1>8. CASE name = <<0, "output">>
    <2>1. name[2] \notin Biases
        BY <1>8 DEF Biases
    <2>2. CASE m.tied
        <3>1. has = 0
            BY <1>1, <1>8, <2>2
        <3>2. read = 0
            BY <2>2, <1>8 DEF FloatsRead
        <3> QED BY <3>1, <3>2 DEF m
    <2>3. CASE ~ m.tied
        <3>1. has = asked
            <4>1. ~ tied
                BY <1>1, <2>3
            <4>2. loadTensor(f, hp, name)
                BY <4>1, <1>8 DEF tied
            <4> QED BY <1>1, <1>6, <4>1, <4>2
        <3>2. read = asked
            BY <1>5, <2>1, <2>3
        <3> QED BY <1>5, <3>1, <3>2 DEF m
    <2> QED BY <2>2, <2>3
<1>9. CASE name[2] \in Biases /\ name # <<0, "output">>
    <2>1. has \in {0, asked}
        BY <1>1, <1>6, <1>9
    <2>2. name[2] # "output"
        BY <1>9 DEF Biases
    <2>3. (read = asked /\ has = asked) \/ (read = 0 /\ has = 0) \/ (read = asked /\ has = 0)
        BY <1>5, <2>1, <2>2
    <2>4. has = 0 => read = 0
        BY <1>9 DEF FloatsRead, Biases
    <2>5. (read = asked /\ has = asked) \/ (read = 0 /\ has = 0)
        BY <2>3, <2>4
    <2> QED BY <1>5, <2>5 DEF m
<1> QED BY <1>4, <1>7, <1>8, <1>9 DEF m

-----------------------------------------------------------------------------
(* The engine's invariant *)

\* The constructor establishes the invariant.
LEMMA InitEstablishes == EngineInit => EngineInv
BY DEF EngineInit, EngineInv, LoadedInv, LoadingInv, DecodingInv, CallInv, CacheHoldsHistory,
       NoCallOverrunsCache, InCall, NoResult

\* What is loaded serves as long as the model, the tokenizer and the cache's dimensions stay.
LEMMA ServesKept ==
    ASSUME NEW f \in Files, Serves(f), model' = model, tok' = tok,
           CacheShape(cache', loadHParams(f))
    PROVE  Serves(f)'
BY DEF Serves

\* What is loaded serves after every step: a model or a tokenizer is replaced only
\* after loaded was cleared.
LEMMA LoadedStep ==
    ASSUME LoadedInv, LoadingInv, CallInv, EngineNext \/ UNCHANGED engineVars
    PROVE  LoadedInv'
<1> SUFFICES ASSUME loaded'
             PROVE  initialized' /\ \E f \in Files : Serves(f)'
    BY DEF LoadedInv
<1>1. CASE loaded /\ model' = model /\ tok' = tok /\ cache' = cache /\ initialized \in {initialized', FALSE}
    <2>1. PICK f \in Files : Serves(f) /\ initialized
        BY <1>1 DEF LoadedInv
    <2>2. Serves(f)'
        BY <1>1, <2>1, ServesKept DEF Serves
    <2> QED BY <1>1, <2>1, <2>2
<1>2. CASE Fresh
    BY <1>2 DEF Fresh
<1>3. CASE initialize \/ LoadRejected \/ LoadFailed \/ TokenizerFailed
    BY <1>1, <1>3 DEF initialize, LoadRejected, LoadFailed, TokenizerFailed, LoadingInv, LoadedInv
<1>4. CASE UNCHANGED engine
    BY <1>1, <1>4 DEF engine
<1>5. CASE \E r \in BOOLEAN : LoadDone(r)
    <2>1. PICK r \in BOOLEAN : LoadDone(r)
        BY <1>5
    <2>2. PICK f \in Files : f = file /\ initialized
        BY <2>1 DEF LoadingInv, LoadDone
    <2> DEFINE hp == loadHParams(f)
    <2>3. /\ Loads(f) /\ model' = load(f) /\ initialized' = initialized
          /\ tok' = (IF r THEN loadFromGGUF(f) ELSE None) /\ (r => Tokenizes(f))
          /\ CanAllocate(hp, max_seq(hp)) /\ cache' = allocate(hp, max_seq(hp))
        BY <2>1, <2>2 DEF LoadDone
    <2>4. CacheShape(cache', hp)
        BY <2>2, <2>3, AllocateShape, EngineAssumption
    <2>5. Serves(f)'
        BY <2>3, <2>4 DEF Serves
    <2> QED BY <2>2, <2>3, <2>5
<1>6. ASSUME NEW text, NEW ctx, execute(text, ctx) PROVE initialized' /\ \E f \in Files : Serves(f)'
    <2>1. model' = model /\ tok' = tok /\ loaded /\ initialized' = initialized
          /\ cache' \in {cache, reset(cache)}
        BY <1>6 DEF execute
    <2>2. PICK f \in Files : Serves(f) /\ initialized
        BY <2>1 DEF LoadedInv
    <2>3. CacheShape(cache', loadHParams(f))
        BY <2>1, <2>2, ResetShape DEF Serves
    <2> QED BY <2>1, <2>2, <2>3, ServesKept
<1>7. ASSUME NEW t, NEW then, Forward(t, then) PROVE initialized' /\ \E f \in Files : Serves(f)'
    <2>1. model' = model /\ tok' = tok /\ loaded /\ initialized' = initialized
          /\ cache' = forward(model, cache, t, call.pos)
        BY <1>7 DEF Forward
    <2>2. PICK f \in Files : Serves(f) /\ initialized
        BY <2>1 DEF LoadedInv
    <2>3. 1 \in 1..loadHParams(f).layers
        BY <2>2, Dimensions, EngineAssumption DEF Serves
    <2>4. CacheShape(cache', loadHParams(f))
        BY <2>1, <2>2, <2>3, ForwardShape DEF Serves
    <2> QED BY <2>1, <2>2, <2>4, ServesKept
<1>8. CASE Cancelled
    BY <1>1, <1>8 DEF Cancelled
<1> QED
    BY <1>2, <1>3, <1>4, <1>5, <1>6, <1>7, <1>8
       DEF EngineNext, engineVars, engine, shutdown, unloadModel, loadModel, DecodeBlock, Cancel,
           Prefill, PrefillDone, Generate, Callback, ForwardNext, Finish

\* Only loadModel begins to load, and only what it has emptied.
LEMMA LoadingStep ==
    ASSUME LoadingInv, CallInv, EngineNext \/ UNCHANGED engineVars
    PROVE  LoadingInv'
<1>1. ASSUME NEW f \in Files, loadModel(f) PROVE LoadingInv'
    BY <1>1 DEF loadModel, Fresh, LoadingInv
<1>2. ASSUME NEW t, DecodeBlock(t) PROVE LoadingInv'
    BY <1>2 DEF DecodeBlock, LoadingInv, engine, execution
<1>3. CASE initialize \/ shutdown \/ unloadModel \/ LoadRejected
    BY <1>3 DEF initialize, shutdown, unloadModel, LoadRejected, LoadingInv
<1>4. CASE LoadFailed \/ TokenizerFailed \/ \E r \in BOOLEAN : LoadDone(r)
    BY <1>4 DEF LoadFailed, TokenizerFailed, LoadDone, LoadOver, LoadingInv
<1>5. ASSUME NEW text, NEW ctx, execute(text, ctx) PROVE LoadingInv'
    BY <1>5 DEF execute, Return, LoadingInv
<1>6. CASE Cancelled \/ Prefill \/ PrefillDone \/ Generate \/ Callback \/ ForwardNext \/ Finish
    BY <1>6 DEF Cancelled, Prefill, PrefillDone, Generate, Callback, ForwardNext, Finish, Forward,
                Return, LoadingInv
<1>7. CASE Cancel \/ UNCHANGED engineVars
    BY <1>7 DEF Cancel, engineVars, LoadingInv
<1> QED BY <1>1, <1>2, <1>3, <1>4, <1>5, <1>6, <1>7 DEF EngineNext

-----------------------------------------------------------------------------
(* The threads that decode a tensor *)

\* Division with remainder.
LEMMA Division ==
    ASSUME NEW a \in Nat, NEW b \in Nat \ {0}
    PROVE  /\ a \div b \in Nat /\ a % b \in Nat /\ a % b < b
           /\ a = b * (a \div b) + (a % b)
OBVIOUS

\* The shares of all threads are at least the blocks.
LEMMA SharesSuffice ==
    ASSUME NEW n \in Nat
    PROVE  /\ DecodeThreads(n) \in Nat \ {0} /\ Share(n) \in Nat
           /\ n <= DecodeThreads(n) * Share(n)
<1> DEFINE T == DecodeThreads(n)
<1>1. T \in Nat \ {0}
    BY EngineAssumption DEF DecodeThreads
<1> HIDE DEF T
<1>2. n + T - 1 \in Nat
    BY <1>1
<1> DEFINE q == (n + T - 1) \div T
           r == (n + T - 1) % T
<1>3. q \in Nat /\ r \in Nat /\ r < T /\ n + T - 1 = T * q + r
    BY <1>1, <1>2, Division
<1>4. Share(n) = q
    BY DEF Share, T
<1> HIDE DEF q, r
<1>5. T * q \in Nat
    BY <1>1, <1>3
<1>6. n <= T * q
    BY <1>1, <1>3, <1>5
<1> QED BY <1>1, <1>3, <1>4, <1>6 DEF T

\* Every block belongs to the chunk of a thread.
LEMMA ChunksCover ==
    ASSUME NEW n \in Nat, NEW b \in 1..n
    PROVE  \E t \in 1..DecodeThreads(n) : Chunk(n, t - 1).next < b /\ b <= Chunk(n, t - 1).end
<1> DEFINE T == DecodeThreads(n)
           S == Share(n)
<1>1. T \in Nat \ {0} /\ S \in Nat /\ n <= T * S
    BY SharesSuffice
<1> HIDE DEF T, S
<1>2. S # 0
    BY <1>1
<1> DEFINE q == (b - 1) \div S
           r == (b - 1) % S
<1>3. q \in Nat /\ r \in Nat /\ r < S /\ b - 1 = S * q + r
    BY <1>1, <1>2, Division
<1> HIDE DEF q, r
<1>4. q < T
    <2> SUFFICES ASSUME q >= T PROVE FALSE
        BY <1>1, <1>3
    <2> DEFINE k == q - T
    <2>1. k \in Nat /\ q = T + k
        BY <1>1, <1>3
    <2> HIDE DEF k
    <2>2. S * q = T * S + S * k
        BY <1>1, <2>1
    <2>3. S * k \in Nat /\ T * S \in Nat
        BY <1>1, <2>1
    <2> QED BY <1>1, <1>3, <2>2, <2>3
<1>5. q * S = S * q /\ (q + 1) * S = S * q + S /\ S * q \in Nat
    BY <1>1, <1>3
<1>6. Chunk(n, q) = [next |-> q * S, end |-> IF (q + 1) * S < n THEN (q + 1) * S ELSE n]
    BY DEF Chunk, S
<1>7. Chunk(n, q).next < b /\ b <= Chunk(n, q).end
    BY <1>1, <1>3, <1>5, <1>6
<1>8. q + 1 \in 1..T /\ (q + 1) - 1 = q
    BY <1>1, <1>3, <1>4
<1> QED BY <1>7, <1>8 DEF T

\* A thread that decodes a block leaves those of the others alone.
LEMMA DecodingStep ==
    ASSUME LoadingInv, DecodingInv, CallInv, EngineNext \/ UNCHANGED engineVars
    PROVE  DecodingInv'
<1>1. ASSUME NEW f \in Files, loadModel(f), pc' = "load" PROVE DecodingInv'
    <2> DEFINE n == Len(f.embd)
    <2>1. /\ file' = f
          /\ workers' = [t \in 1..DecodeThreads(n) |-> Chunk(n, t - 1)]
          /\ weights' = [b \in DOMAIN f.embd |-> None]
        BY <1>1 DEF loadModel
    <2>2. n \in Nat /\ DOMAIN f.embd = 1..n
        BY EngineAssumption
    <2> HIDE DEF n
    <2>3. ASSUME NEW t \in 1..DecodeThreads(n)
          PROVE  /\ workers'[t] = [next |-> workers'[t].next, end |-> Chunk(n, t - 1).end]
                 /\ workers'[t].next = Chunk(n, t - 1).next /\ Chunk(n, t - 1).next \in Nat
        <3>1. workers'[t] = Chunk(n, t - 1)
            BY <2>1 DEF n
        <3>2. (t - 1) * Share(n) \in Nat
            <4>1. t - 1 \in Nat /\ Share(n) \in Nat
                BY <2>2, SharesSuffice
            <4> HIDE DEF Share
            <4> QED BY <4>1
        <3>3. Chunk(n, t - 1) = [next |-> Chunk(n, t - 1).next, end |-> Chunk(n, t - 1).end]
              /\ Chunk(n, t - 1).next = (t - 1) * Share(n)
            BY DEF Chunk
        <3> QED BY <3>1, <3>2, <3>3
    <2>4. \A t \in 1..DecodeThreads(n), b \in 1..n :
              ~ (Chunk(n, t - 1).next < b /\ b <= workers'[t].next)
        <3> SUFFICES ASSUME NEW t \in 1..DecodeThreads(n), NEW b \in 1..n
                     PROVE  ~ (Chunk(n, t - 1).next < b /\ b <= workers'[t].next)
            OBVIOUS
        <3>1. workers'[t].next = Chunk(n, t - 1).next /\ Chunk(n, t - 1).next \in Nat
            BY <2>3, Zenon
        <3>2. b \in Nat
            BY <2>2
        <3> QED BY <3>1, <3>2
    <2> QED BY <2>1, <2>2, <2>3, <2>4 DEF DecodingInv, n
<1>2. ASSUME NEW t \in DOMAIN workers, DecodeBlock(t) PROVE DecodingInv'
    <2> DEFINE n == Len(file.embd)
               b == workers[t].next + 1
    <2>1. /\ pc = "load" /\ file' = file /\ pc' = pc
          /\ workers[t].next < workers[t].end
          /\ weights' = [weights EXCEPT ![b] = DecodedBlock(file, b)]
          /\ workers' = [workers EXCEPT ![t].next = b]
        BY <1>2 DEF DecodeBlock
    <2>2. n \in Nat /\ file \in Files
        BY <2>1, EngineAssumption DEF LoadingInv
    <2>3. /\ workers = [u \in 1..DecodeThreads(n) |-> workers[u]]
          /\ weights = [c \in 1..n |-> weights[c]]
          /\ \A u \in 1..DecodeThreads(n) :
                /\ workers[u] = [next |-> workers[u].next, end |-> Chunk(n, u - 1).end]
                /\ workers[u].next \in Nat
                /\ \A c \in 1..n : Chunk(n, u - 1).next < c /\ c <= workers[u].next =>
                       weights[c] = DecodedBlock(file, c)
        BY <2>1 DEF DecodingInv
    <2>4. t \in 1..DecodeThreads(n)
        BY <1>2, <2>3
    <2> HIDE DEF n, b
    <2>5. b \in Nat /\ workers[t].next = b - 1
        BY <2>3, <2>4 DEF b
    <2>6. /\ workers' = [u \in 1..DecodeThreads(n) |-> workers'[u]]
          /\ weights' = [c \in 1..n |-> weights'[c]]
        BY <2>1, <2>3
    <2>7. \A c \in 1..n : weights'[c] = IF c = b THEN DecodedBlock(file, b) ELSE weights[c]
        BY <2>1, <2>3
    <2>8. ASSUME NEW u \in 1..DecodeThreads(n)
          PROVE  workers'[u] = IF u = t THEN [next |-> b, end |-> Chunk(n, u - 1).end] ELSE workers[u]
        BY <2>1, <2>3, <2>4
    <2>9. ASSUME NEW u \in 1..DecodeThreads(n)
          PROVE  /\ workers'[u] = [next |-> workers'[u].next, end |-> Chunk(n, u - 1).end]
                 /\ workers'[u].next \in Nat
                 /\ \A c \in 1..n : Chunk(n, u - 1).next < c /\ c <= workers'[u].next =>
                        weights'[c] = DecodedBlock(file, c)
        <3>1. CASE u = t
            <4>1. workers'[u] = [next |-> b, end |-> Chunk(n, u - 1).end] /\ workers'[u].next = b
                BY <2>8, <3>1
            <4>2. \A c \in 1..n : c <= b => c = b \/ c <= workers[u].next
                BY <2>5, <3>1
            <4> QED BY <2>3, <2>5, <2>7, <4>1, <4>2
        <3>2. CASE u # t
            BY <2>3, <2>7, <2>8, <3>2
        <3> QED BY <3>1, <3>2
    <2>10. Len(file'.embd) = n
        BY <2>1 DEF n
    <2> QED BY <2>1, <2>6, <2>9, <2>10 DEF DecodingInv
<1>3. CASE UNCHANGED engineVars
    BY <1>3 DEF engineVars, DecodingInv
<1>4. CASE pc' # "load"
    BY <1>4 DEF DecodingInv
<1>5. CASE EngineNext /\ pc' = "load"
    <2>1. \/ \E f \in Files : loadModel(f)
          \/ \E t \in DOMAIN workers : DecodeBlock(t)
        BY <1>5 DEF EngineNext, initialize, shutdown, unloadModel, LoadRejected, LoadFailed,
             TokenizerFailed, LoadDone, LoadOver, execute, Return, Cancel, Cancelled, Prefill, PrefillDone,
             Generate, Callback, ForwardNext, Finish, Forward
    <2> QED BY <2>1, <1>1, <1>2, <1>5
<1> QED BY <1>3, <1>4, <1>5

-----------------------------------------------------------------------------
(* Sequences *)

\* Append to a sequence of whatever elements.
LEMMA AppendSeq ==
    ASSUME NEW s, IsSeq(s), NEW t
    PROVE  /\ IsSeq(Append(s, t)) /\ Len(s) \in Nat /\ Len(Append(s, t)) = Len(s) + 1
           /\ Append(s, t)[Len(s) + 1] = t
           /\ \A i \in 1..Len(s) : Append(s, t)[i] = s[i]
<1> DEFINE S == {s[i] : i \in 1..Len(s)}
<1>1. s \in Seq(S)
    BY DEF IsSeq
<1> HIDE DEF S
<1>2. /\ Len(s) \in Nat /\ Len(Append(s, t)) = Len(s) + 1
      /\ Append(s, t)[Len(s) + 1] = t
      /\ \A i \in 1..Len(s) : Append(s, t)[i] = s[i]
    BY <1>1
<1> DEFINE a == Append(s, t)
           A == {a[i] : i \in 1..Len(a)}
<1>3. S \subseteq A
    BY <1>2 DEF S
<1>4. t \in A
    BY <1>2
<1>5. s \in Seq(A)
    <2> HIDE DEF A
    <2> QED BY <1>1, <1>3
<1>6. a \in Seq(A)
    <2> HIDE DEF A
    <2> QED BY <1>4, <1>5
<1> QED BY <1>2, <1>6 DEF IsSeq

\* The empty sequence.
LEMMA EmptyIsSeq ==
    ASSUME NEW s, s = << >>
    PROVE  IsSeq(s) /\ Len(s) = 0
<1>1. \A S : s \in Seq(S)
    OBVIOUS
<1>2. Len(s) = 0
    OBVIOUS
<1>3. s \in Seq({s[i] : i \in 1..Len(s)})
    BY <1>1, Zenon
<1> QED BY <1>2, <1>3 DEF IsSeq

\* The history of a call.
LEMMA Concatenation ==
    ASSUME NEW a \in Seq(Int), NEW g, IsSeq(g)
    PROVE  /\ Len(a) \in Nat /\ Len(g) \in Nat
           /\ \A i \in 1..Len(a) : (a \o g)[i] = a[i]
           /\ \A i \in 1..Len(g) : (a \o g)[Len(a) + i] = g[i]
<1> DEFINE S == {g[i] : i \in 1..Len(g)}
           U == Int \cup S
<1>1. g \in Seq(S)
    BY DEF IsSeq
<1> HIDE DEF S
<1>2. a \in Seq(U) /\ g \in Seq(U)
    BY <1>1
<1> HIDE DEF U
<1> QED BY <1>2

\* The part of the history that was generated.
LEMMA LaterPart ==
    ASSUME NEW a \in Seq(Int), NEW g, IsSeq(g), NEW i \in 1..Len(g)
    PROVE  (a \o g)[Len(a) + i] = g[i]
BY Concatenation

-----------------------------------------------------------------------------
(* Calls *)

\* A model that is loaded, and its cache.
LEMMA Usable ==
    ASSUME LoadedInv, loaded
    PROVE  /\ initialized /\ model # None
           /\ model.hp.kv \in Nat \ {0} /\ model.hp.heads \in Nat \ {0} /\ model.hp.layers \in Nat \ {0}
           /\ model.hp.vocab \in Nat
           /\ CacheShape(cache, model.hp) /\ cache.max \in Nat \ {0} /\ cache.max = max_seq(model.hp)
           /\ cache.kv = model.hp.kv /\ cache.layers = model.hp.layers
           /\ DOMAIN cache.data = 1..model.hp.layers
           /\ \A name \in DOMAIN model.floats : FloatsRead(model, name) <= model.floats[name]
           /\ tok = None \/ \E f \in Files : Tokenizes(f) /\ tok = loadFromGGUF(f)
<1>1. PICK f \in Files : Serves(f) /\ initialized
    BY DEF LoadedInv
<1> DEFINE hp == loadHParams(f)
<1>2. model = load(f) /\ Loads(f) /\ CanAllocate(hp, max_seq(hp)) /\ CacheShape(cache, hp)
      /\ (tok = None \/ (Tokenizes(f) /\ tok = loadFromGGUF(f)))
    BY <1>1 DEF Serves
<1>3. /\ model.hp = hp /\ hp \in HyperParameters
      /\ hp.vocab \in Nat \ {0} /\ hp.heads \in Nat \ {0}
      /\ hp.kv \in Nat \ {0} /\ hp.layers \in Nat \ {0}
    BY <1>2, Parameters
<1>4. max_seq(hp) \in Nat \ {0}
    BY <1>2, <1>3, Dimensions
<1>5. model # None
    BY <1>2, EngineAssumption
<1>6. \A name \in DOMAIN model.floats : FloatsRead(model, name) <= model.floats[name]
    BY <1>2, LoadedFloats
<1> HIDE DEF hp
<1>7. cache.kv = hp.kv /\ cache.layers = hp.layers /\ cache.max = max_seq(hp)
      /\ DOMAIN cache.data = 1..hp.layers
    BY <1>2, ShapeFields
<1> QED BY <1>1, <1>2, <1>3, <1>4, <1>5, <1>6, <1>7

\* A call as execute makes it.
LEMMA ExecuteKeeps ==
    ASSUME LoadedInv, CallInv, calls < Len(Prompts),
           NEW text \in Prompts[calls + 1], NEW ctx \in Contexts, execute(text, ctx)
    PROVE  CallInv'
<1> DEFINE tokens == IF tok = None THEN << >> ELSE encode(tok, text)
<1>1. calls \in Nat /\ calls' \in Nat
    <2>1. calls \in Nat
        BY DEF CallInv
    <2>2. calls' = calls + 1
        BY DEF execute
    <2> QED BY <2>1, <2>2
<1>2. CASE pc' = "idle" /\ call' = None
    BY <1>1, <1>2 DEF CallInv, InCall
<1>3. CASE ~ (pc' = "idle" /\ call' = None)
    <2>1. /\ loaded /\ Len(tokens) <= Limit(ctx) /\ pc' = "prefill"
          /\ call' = [text |-> text, tokens |-> tokens, ctx |-> ctx, limit |-> Limit(ctx),
                      pos |-> 0, generated |-> << >>, next |-> TOKEN_INVALID]
          /\ cache' = reset(cache) /\ loaded' = loaded
        BY <1>3 DEF execute, Return
    <2>2. tokens \in Seq(Int)
        <3>1. CASE tok = None BY <3>1
        <3>2. CASE tok # None
            <4>1. PICK f \in Files : Tokenizes(f) /\ tok = loadFromGGUF(f)
                BY <2>1, <3>2, Usable
            <4>2. calls + 1 \in DOMAIN Prompts
                BY <1>1, EngineAssumption
            <4> QED BY <3>2, <4>1, <4>2, EncodeAssumption
        <3> QED BY <3>1, <3>2
    <2>3. cache.max \in Nat /\ cache'.max = cache.max
        <3>1. CacheShape(reset(cache), model.hp)
            BY <2>1, Usable, ResetShape
        <3> QED BY <2>1, <3>1, Usable, ShapeFields
    <2>4. Limit(ctx) \in Nat /\ Limit(ctx) <= cache.max
        <3>1. ctx.n_ctx \in Nat
            BY EngineAssumption
        <3> QED BY <2>3, <3>1 DEF Limit
    <2> HIDE DEF tokens
    <2> DEFINE lim == Limit(ctx)
    <2> HIDE DEF lim
    <2>5. /\ call'.tokens = tokens /\ call'.pos = 0 /\ call'.generated = << >> /\ call'.limit = lim
          /\ call' = [text |-> call'.text, tokens |-> call'.tokens, ctx |-> call'.ctx, limit |-> call'.limit,
                      pos |-> call'.pos, generated |-> call'.generated, next |-> call'.next]
        BY <2>1 DEF lim
    <2>6. Len(tokens) \in Nat /\ lim \in Nat /\ lim <= cache'.max /\ Len(tokens) <= lim
        BY <2>1, <2>2, <2>3, <2>4 DEF lim
    <2>7. call'.tokens \in Seq(Int) /\ IsSeq(call'.generated)
          /\ call'.pos \in Nat /\ call'.limit \in Nat
          /\ call'.pos <= call'.limit /\ call'.limit <= cache'.max
          /\ call'.pos <= Len(call'.tokens) /\ Len(call'.tokens) <= call'.limit
        <3>1. IsSeq(call'.generated)
            BY <2>5, EmptyIsSeq
        <3>2. call'.tokens \in Seq(Int)
            BY <2>2, <2>5
        <3> QED BY <2>5, <2>6, <3>1, <3>2
    <2> QED BY <1>1, <2>1, <2>5, <2>7 DEF CallInv, InCall
<1> QED BY <1>2, <1>3

\* The record of a call.
CallShape(c) ==
    c = [text |-> c.text, tokens |-> c.tokens, ctx |-> c.ctx, limit |-> c.limit,
         pos |-> c.pos, generated |-> c.generated, next |-> c.next]

\* forward leaves the length of the cache alone.
LEMMA ForwardMax ==
    ASSUME LoadedInv, loaded, NEW t, NEW pos
    PROVE  forward(model, cache, t, pos).max = cache.max
<1> DEFINE hp == model.hp
<1>1. CacheShape(cache, hp) /\ cache.max = max_seq(hp) /\ 1 \in 1..hp.layers
    BY Usable
<1>2. CacheShape(forward(model, cache, t, pos), hp)
    BY <1>1, ForwardShape
<1> QED BY <1>1, <1>2, ShapeFields

\* A forward pass that ends within the call moves its position by one.
LEMMA ForwardMoves ==
    ASSUME LoadedInv, CallInv, pc \in InCall, NEW t, NEW then, Forward(t, then)
    PROVE  /\ loaded' = loaded /\ cache'.max = cache.max /\ calls' = calls
           /\ \/ pc' = "idle" /\ call' = None
              \/ /\ CanForward(model, cache, t, call.pos)
                 /\ pc' = then /\ CallShape(call')
                 /\ call'.tokens = call.tokens /\ call'.limit = call.limit
                 /\ call'.pos = call.pos + 1 /\ call'.generated = call.generated
<1>1. loaded' = loaded /\ calls' = calls /\ cache' = forward(model, cache, t, call.pos)
    BY DEF Forward
<1>2. loaded /\ CallShape(call)
    BY DEF CallInv, CallShape
<1>3. cache'.max = cache.max
    BY <1>1, <1>2, ForwardMax
<1>4. CASE CanForward(model, cache, t, call.pos)
    <2>1. pc' = then /\ call' = [call EXCEPT !.pos = @ + 1]
        BY <1>4 DEF Forward
    <2>2. call' = [text |-> call.text, tokens |-> call.tokens, ctx |-> call.ctx, limit |-> call.limit,
                   pos |-> call.pos + 1, generated |-> call.generated, next |-> call.next]
        BY <1>2, <2>1 DEF CallShape
    <2> QED BY <1>1, <1>3, <1>4, <2>1, <2>2 DEF CallShape
<1>5. CASE ~ CanForward(model, cache, t, call.pos)
    BY <1>1, <1>3, <1>5 DEF Forward, Return
<1> QED BY <1>4, <1>5

\* A call stays within its limit, and its position follows its tokens.
LEMMA CallInvStep ==
    ASSUME LoadedInv, LoadingInv, CallInv, EngineNext \/ UNCHANGED engineVars
    PROVE  CallInv'
<1> USE DEF InCall
<1>1. CASE /\ calls' \in Nat
           /\ \/ pc' \in {"idle", "load"} /\ call' = None
    BY <1>1 DEF CallInv
<1>2. CASE /\ loaded' = loaded /\ cache'.max = cache.max /\ call' = call /\ calls' = calls
           /\ pc' = pc
    BY <1>2 DEF CallInv
<1>3. calls \in Nat /\ (pc \in {"idle", "load"} => call = None)
    BY DEF CallInv
<1>4. CASE initialize \/ shutdown \/ unloadModel \/ LoadRejected
    BY <1>1, <1>3, <1>4 DEF initialize, shutdown, unloadModel, LoadRejected, Fresh, execution
<1>5. ASSUME NEW f \in Files, loadModel(f) PROVE CallInv'
    BY <1>1, <1>3, <1>5 DEF loadModel, Fresh
<1>6. ASSUME NEW t \in DOMAIN workers, DecodeBlock(t) PROVE CallInv'
    BY <1>1, <1>3, <1>6 DEF DecodeBlock, execution
<1>7. CASE LoadFailed \/ TokenizerFailed \/ \E r \in BOOLEAN : LoadDone(r)
    BY <1>1, <1>3, <1>7 DEF LoadFailed, TokenizerFailed, LoadDone, LoadOver, execution
<1>8. CASE /\ calls < Len(Prompts)
           /\ \E text \in Prompts[calls + 1], ctx \in Contexts : execute(text, ctx)
    BY <1>8, ExecuteKeeps
<1>9. CASE Cancel \/ UNCHANGED engineVars
    BY <1>2, <1>9 DEF Cancel, engineVars, engine
<1>10. CASE Cancelled \/ Finish
    BY <1>1, <1>3, <1>10 DEF Cancelled, Finish, Return
<1>11. CASE Prefill
    <2>1. pc = "prefill" /\ call.pos < Len(call.tokens) /\ Forward(call.tokens[call.pos + 1], "prefill")
        BY <1>11 DEF Prefill
    <2>2. /\ loaded /\ call.tokens \in Seq(Int) /\ IsSeq(call.generated) /\ call.pos \in Nat
          /\ call.limit \in Nat /\ call.limit <= cache.max /\ call.generated = << >>
          /\ Len(call.tokens) <= call.limit
        BY <2>1 DEF CallInv
    <2>3. CASE pc' = "idle" /\ call' = None
        BY <1>1, <1>3, <2>1, <2>3, ForwardMoves
    <2>4. CASE ~ (pc' = "idle" /\ call' = None)
        <3>1. /\ loaded' = loaded /\ cache'.max = cache.max /\ calls' = calls /\ pc' = "prefill"
              /\ CallShape(call') /\ call'.tokens = call.tokens /\ call'.limit = call.limit
              /\ call'.pos = call.pos + 1 /\ call'.generated = call.generated
            BY <2>1, <2>4, ForwardMoves
        <3>2. call'.pos \in Nat /\ call'.pos <= Len(call'.tokens) /\ call'.pos <= call'.limit
            <4>1. Len(call.tokens) \in Nat
                BY <2>2
            <4> QED BY <2>1, <2>2, <3>1, <4>1
        <3> QED BY <1>3, <2>2, <3>1, <3>2 DEF CallInv, CallShape
    <2> QED BY <2>3, <2>4
<1>12. CASE PrefillDone
    <2>1. /\ pc = "prefill" /\ call.pos = Len(call.tokens) /\ loaded' = loaded /\ cache' = cache
          /\ calls' = calls
          /\ \/ pc' = "idle" /\ call' = None
             \/ pc' = "generate" /\ call' = call
        BY <1>12 DEF PrefillDone, Return, engine
    <2>2. call.generated = << >> /\ call.pos \in Nat
        BY <2>1 DEF CallInv
    <2>3. CASE pc' = "idle" /\ call' = None
        BY <1>1, <1>3, <2>1, <2>3
    <2>4. CASE pc' = "generate" /\ call' = call
        <3>1. Len(call.generated) = 0
            BY <2>2, EmptyIsSeq
        <3>2. call.pos = Len(call.tokens) + Len(call.generated)
            BY <2>1, <2>2, <3>1
        <3> QED BY <2>1, <2>4, <3>2 DEF CallInv
    <2> QED BY <2>1, <2>3, <2>4
<1>13. CASE Generate
    <2>1. /\ pc = "generate" /\ ~ Full /\ loaded' = loaded /\ cache' = cache /\ calls' = calls
          /\ \/ pc' = "idle" /\ call' = None
             \/ \E t : /\ call' = [call EXCEPT !.generated = Append(@, t), !.next = t]
                       /\ pc' \in {"callback", "forward"}
        BY <1>13 DEF Generate, Return, engine
    <2>2. CASE pc' = "idle" /\ call' = None
        BY <1>1, <1>3, <2>1, <2>2
    <2>3. ASSUME NEW t, call' = [call EXCEPT !.generated = Append(@, t), !.next = t],
                 pc' \in {"callback", "forward"}
          PROVE  CallInv'
        <3>1. /\ loaded /\ CallShape(call) /\ call.tokens \in Seq(Int) /\ IsSeq(call.generated)
              /\ call.pos \in Nat /\ call.limit \in Nat
              /\ call.pos <= call.limit /\ call.limit <= cache.max
              /\ call.pos = Len(call.tokens) + Len(call.generated)
            BY <2>1 DEF CallInv, CallShape
        <3> DEFINE g == Append(call.generated, t)
        <3>2. IsSeq(g) /\ Len(call.generated) \in Nat /\ Len(g) = Len(call.generated) + 1
              /\ g[Len(g)] = t
            BY <3>1, AppendSeq
        <3> HIDE DEF g
        <3>3. call' = [text |-> call.text, tokens |-> call.tokens, ctx |-> call.ctx, limit |-> call.limit,
                       pos |-> call.pos, generated |-> g, next |-> t]
            BY <2>3, <3>1 DEF CallShape, g
        <3>4. call.pos < call.limit
            <4>1. ~ (call.pos >= call.limit)
                BY <2>1, Zenon DEF Full
            <4>2. call.pos \in Nat /\ call.limit \in Nat
                BY <3>1
            <4> QED BY <4>1, <4>2
        <3>5. /\ CallShape(call') /\ call'.tokens = call.tokens /\ call'.limit = call.limit
              /\ call'.pos = call.pos /\ call'.generated = g /\ call'.next = t
            BY <3>3 DEF CallShape
        <3>6. Len(call.tokens) \in Nat
            BY <3>1
        <3>7. /\ Len(call'.generated) > 0 /\ call'.next = call'.generated[Len(call'.generated)]
              /\ call'.pos = Len(call'.tokens) + Len(call'.generated) - 1
              /\ call'.pos < call'.limit
            <4> DEFINE k == Len(call.generated)
                       n == Len(call.tokens)
            <4>1. /\ Len(call'.generated) = k + 1 /\ Len(call'.tokens) = n
                  /\ call'.next = call'.generated[Len(call'.generated)]
                BY <3>2, <3>5
            <4>2. call'.pos = n + k /\ call'.pos < call'.limit
                BY <3>1, <3>4, <3>5
            <4>3. k \in Nat /\ n \in Nat
                BY <3>2, <3>6
            <4> HIDE DEF k, n
            <4> QED BY <4>1, <4>2, <4>3
        <3> QED BY <1>3, <2>1, <2>3, <3>1, <3>2, <3>5, <3>7 DEF CallInv, CallShape
    <2> QED BY <2>1, <2>2, <2>3
<1>14. CASE Callback
    BY <1>14 DEF Callback, CallInv, engine, execution
<1>15. CASE ForwardNext
    <2>1. pc = "forward" /\ Forward(call.next, "generate")
        BY <1>15 DEF ForwardNext
    <2>2. /\ loaded /\ call.tokens \in Seq(Int) /\ IsSeq(call.generated) /\ call.pos \in Nat
          /\ call.limit \in Nat /\ call.pos < call.limit /\ call.limit <= cache.max
          /\ call.pos = Len(call.tokens) + Len(call.generated) - 1
        BY <2>1 DEF CallInv
    <2>3. CASE pc' = "idle" /\ call' = None
        BY <1>1, <1>3, <2>1, <2>3, ForwardMoves
    <2>4. CASE ~ (pc' = "idle" /\ call' = None)
        <3>1. /\ loaded' = loaded /\ cache'.max = cache.max /\ calls' = calls /\ pc' = "generate"
              /\ CallShape(call') /\ call'.tokens = call.tokens /\ call'.limit = call.limit
              /\ call'.pos = call.pos + 1 /\ call'.generated = call.generated
            BY <2>1, <2>4, ForwardMoves
        <3>2. Len(call.tokens) \in Nat /\ Len(call.generated) \in Nat
            BY <2>2, Concatenation
        <3>3. call'.pos \in Nat /\ call'.pos = Len(call'.tokens) + Len(call'.generated)
            <4> DEFINE k == Len(call.generated)
                       n == Len(call.tokens)
            <4>1. call.pos = n + k - 1 /\ k \in Nat /\ n \in Nat /\ call.pos \in Nat
                BY <2>2, <3>2
            <4>2. Len(call'.tokens) = n /\ Len(call'.generated) = k /\ call'.pos = call.pos + 1
                BY <3>1
            <4> HIDE DEF k, n
            <4> QED BY <4>1, <4>2
        <3>4. call'.pos <= call'.limit
            <4>1. call.pos \in Nat /\ call.limit \in Nat /\ call.pos < call.limit
                BY <2>2
            <4>2. call'.pos = call.pos + 1 /\ call'.limit = call.limit
                BY <3>1
            <4> QED BY ONLY <4>1, <4>2
        <3> QED BY <1>3, <2>2, <3>1, <3>3, <3>4 DEF CallInv, CallShape
    <2> QED BY <2>3, <2>4
<1> QED
    BY <1>4, <1>5, <1>6, <1>7, <1>8, <1>9, <1>10, <1>11, <1>12, <1>13, <1>14, <1>15 DEF EngineNext

-----------------------------------------------------------------------------
(* The cache *)

\* The cells of a cache and the positions they belong to.
LEMMA CellPositions ==
    ASSUME LoadedInv, loaded, NEW k \in Cells(model.hp.kv, cache.max)
    PROVE  k \in Nat /\ k \div model.hp.kv \in Nat /\ k % model.hp.kv \in Nat
<1>1. model.hp.kv \in Nat \ {0} /\ cache.max \in Nat
    BY Usable
<1>2. k \in Nat
    BY <1>1 DEF Cells
<1> QED BY <1>1, <1>2, Division

\* What the cache holds after a forward pass of the next token of the history.
LEMMA ForwardStores ==
    ASSUME LoadedInv, CallInv, CacheHoldsHistory, pc \in InCall, NEW t, NEW then, Forward(t, then),
           then \in InCall, t = History[call.pos + 1], pc' \in InCall
    PROVE  CacheHoldsHistory'
<1>1. /\ CanForward(model, cache, t, call.pos) /\ call'.tokens = call.tokens
      /\ call'.generated = call.generated /\ call'.pos = call.pos + 1 /\ cache'.max = cache.max
    BY ForwardMoves DEF InCall
<1>2. model' = model /\ cache' = forward(model, cache, t, call.pos)
    BY DEF Forward
<1>3. loaded /\ call.pos \in Nat
    BY DEF CallInv
<1>4. History' = History
    BY <1>1 DEF History
<1> DEFINE hp == model.hp
           Pos(k) == k \div hp.kv
<1>5. CacheShape(cache, hp) /\ 1 \in 1..hp.layers /\ cache.max = max_seq(hp) /\ cache.kv = hp.kv
    BY <1>3, Usable
<1>6. SUFFICES ASSUME NEW l \in 1..hp.layers, NEW k \in Cells(hp.kv, cache.max),
                      Pos(k) < call.pos + 1
               PROVE  cache'.data[l][k] = [tok |-> History[Pos(k) + 1], pos |-> Pos(k), head |-> k % hp.kv]
    BY <1>1, <1>2, <1>4 DEF CacheHoldsHistory
<1>7. cache'.data[l] = Written(cache, l, call.pos, t)
    BY <1>1, <1>2, <1>5, ForwardShape
<1>8. DOMAIN cache.data[l] = Cells(hp.kv, cache.max)
    BY <1>5, ShapeFields
<1>9. cache'.data[l][k] = IF Pos(k) = call.pos THEN [tok |-> t, pos |-> call.pos, head |-> k % hp.kv]
                          ELSE cache.data[l][k]
    BY <1>5, <1>7, <1>8 DEF Written
<1>10. CASE Pos(k) = call.pos
    BY <1>9, <1>10
<1>11. CASE Pos(k) # call.pos
    <2>1. Pos(k) < call.pos
        BY <1>3, <1>6, <1>11, CellPositions
    <2> QED BY <1>9, <1>11, <2>1 DEF CacheHoldsHistory
<1> QED BY <1>10, <1>11

\* The cache holds the history after every step of a call, and of a new call, which has
\* none, whatever an earlier one has left.
LEMMA CacheStep ==
    ASSUME LoadedInv, LoadingInv, CallInv, CacheHoldsHistory, EngineNext \/ UNCHANGED engineVars
    PROVE  CacheHoldsHistory'
<1>1. CASE pc' \notin InCall
    BY <1>1 DEF CacheHoldsHistory
<1>2. CASE pc \in InCall /\ call' = call /\ cache' = cache /\ model' = model
    BY <1>2 DEF CacheHoldsHistory, History
<1>3. ASSUME NEW text, NEW ctx, execute(text, ctx), pc' \in InCall PROVE CacheHoldsHistory'
    <2>1. loaded /\ call'.pos = 0 /\ cache' = reset(cache) /\ model' = model
        <3>1. \/ pc' = "idle"
              \/ /\ loaded /\ cache' = reset(cache)
                 /\ call' = [text |-> text, tokens |-> IF tok = None THEN << >> ELSE encode(tok, text),
                             ctx |-> ctx, limit |-> Limit(ctx),
                             pos |-> 0, generated |-> << >>, next |-> TOKEN_INVALID]
            BY <1>3 DEF execute, Return
        <3>2. model' = model
            BY <1>3 DEF execute
        <3> QED BY <1>3, <3>1, <3>2 DEF InCall
    <2>2. CacheShape(cache', model.hp) /\ CacheShape(cache, model.hp)
        BY <2>1, Usable, ResetShape
    <2>3. cache'.max = cache.max
        BY <2>2, ShapeFields
    <2>4. \A k \in Cells(model.hp.kv, cache.max) : k \div model.hp.kv \in Nat
        BY <2>1, CellPositions
    <2>5. \A k \in Cells(model.hp.kv, cache.max) : ~ (k \div model.hp.kv < call'.pos)
        BY <2>1, <2>4
    <2> QED BY <2>1, <2>3, <2>5 DEF CacheHoldsHistory
<1>4. CASE Prefill /\ pc' \in InCall
    <2>1. pc = "prefill" /\ call.pos < Len(call.tokens) /\ Forward(call.tokens[call.pos + 1], "prefill")
        BY <1>4 DEF Prefill
    <2>2. call.tokens \in Seq(Int) /\ IsSeq(call.generated) /\ call.pos \in Nat
        BY <2>1 DEF CallInv, InCall
    <2>3. call.pos + 1 \in 1..Len(call.tokens)
        BY <2>1, <2>2
    <2>4. call.tokens[call.pos + 1] = History[call.pos + 1]
        BY <2>2, <2>3, Concatenation DEF History
    <2> QED BY <1>4, <2>1, <2>4, ForwardStores DEF InCall
<1>5. CASE ForwardNext /\ pc' \in InCall
    <2>1. pc = "forward" /\ Forward(call.next, "generate")
        BY <1>5 DEF ForwardNext
    <2>2. /\ call.tokens \in Seq(Int) /\ IsSeq(call.generated)
          /\ Len(call.generated) > 0 /\ call.next = call.generated[Len(call.generated)]
          /\ call.pos = Len(call.tokens) + Len(call.generated) - 1
        BY <2>1 DEF CallInv, InCall
    <2>3. Len(call.tokens) \in Nat /\ Len(call.generated) \in Nat
        BY <2>2, Concatenation
    <2>4. call.pos + 1 = Len(call.tokens) + Len(call.generated)
        BY <2>2, <2>3
    <2>5. Len(call.generated) \in 1..Len(call.generated)
        BY <2>2, <2>3
    <2>6. call.next = History[call.pos + 1]
        <3>1. (call.tokens \o call.generated)[Len(call.tokens) + Len(call.generated)] =
                  call.generated[Len(call.generated)]
            <4>1. call.tokens \in Seq(Int) /\ IsSeq(call.generated)
                BY <2>2
            <4> QED BY ONLY <2>5, <4>1, LaterPart
        <3>2. History[Len(call.tokens) + Len(call.generated)] = call.next
            BY <2>2, <3>1 DEF History
        <3> QED BY <2>4, <3>2
    <2> QED BY <1>5, <2>1, <2>6, ForwardStores DEF InCall
<1>6. CASE Generate /\ pc' \in InCall
    <2>1. /\ pc = "generate" /\ cache' = cache /\ model' = model
          /\ \E t : call' = [call EXCEPT !.generated = Append(@, t), !.next = t]
        BY <1>6 DEF Generate, Return, engine, InCall
    <2>2. PICK t : call' = [call EXCEPT !.generated = Append(@, t), !.next = t]
        BY <2>1
    <2>3. /\ loaded /\ CallShape(call) /\ call.tokens \in Seq(Int) /\ IsSeq(call.generated)
          /\ call.pos = Len(call.tokens) + Len(call.generated)
        BY <2>1 DEF CallInv, CallShape, InCall
    <2> DEFINE g == Append(call.generated, t)
    <2>4. IsSeq(g) /\ Len(g) = Len(call.generated) + 1 /\ Len(call.generated) \in Nat
          /\ \A i \in 1..Len(call.generated) : g[i] = call.generated[i]
        BY <2>3, AppendSeq
    <2> HIDE DEF g
    <2>5. call'.tokens = call.tokens /\ call'.pos = call.pos /\ call'.generated = g
        <3>1. call' = [text |-> call.text, tokens |-> call.tokens, ctx |-> call.ctx, limit |-> call.limit,
                       pos |-> call.pos, generated |-> g, next |-> t]
            BY <2>2, <2>3 DEF CallShape, g
        <3> QED BY <3>1
    <2>6. ASSUME NEW p \in Nat, p < call.pos PROVE History'[p + 1] = History[p + 1]
        <3> DEFINE n == Len(call.tokens)
        <3>1. n \in Nat
            BY <2>3
        <3>2. CASE p < n
            <4>1. p + 1 \in 1..n
                BY <3>1, <3>2
            <4>2. (call.tokens \o call.generated)[p + 1] = call.tokens[p + 1]
                BY <2>3, <4>1, Concatenation
            <4>3. (call.tokens \o g)[p + 1] = call.tokens[p + 1]
                BY <2>3, <2>4, <4>1, Concatenation
            <4> QED BY <2>5, <4>2, <4>3 DEF History
        <3>3. CASE ~ (p < n)
            <4> DEFINE i == p + 1 - n
                       k == Len(call.generated)
            <4>1. call.pos = n + k /\ k \in Nat
                BY <2>3, <2>4
            <4> HIDE DEF k, n
            <4>2. i \in 1..k /\ i \in 1..(k + 1) /\ p + 1 = n + i
                BY <2>6, <3>1, <3>3, <4>1
            <4> HIDE DEF i
            <4>3. (call.tokens \o call.generated)[n + i] = call.generated[i]
                <5>1. i \in 1..Len(call.generated) /\ n = Len(call.tokens)
                    BY <4>2 DEF k, n
                <5>2. call.tokens \in Seq(Int) /\ IsSeq(call.generated)
                    BY <2>3
                <5> QED BY ONLY <5>1, <5>2, LaterPart
            <4>4. (call.tokens \o g)[n + i] = g[i]
                BY <2>3, <2>4, <4>2, Concatenation DEF k, n
            <4>5. g[i] = call.generated[i]
                BY <2>4, <4>2 DEF k
            <4> QED BY <2>5, <4>2, <4>3, <4>4, <4>5 DEF History
        <3> QED BY <3>2, <3>3
    <2>7. \A k \in Cells(model.hp.kv, cache.max) : k \div model.hp.kv \in Nat
        BY <2>3, CellPositions
    <2>8. ASSUME NEW l \in 1..model.hp.layers, NEW k \in Cells(model.hp.kv, cache.max),
                 k \div model.hp.kv < call.pos
          PROVE  cache.data[l][k] = [tok |-> History'[(k \div model.hp.kv) + 1], pos |-> k \div model.hp.kv,
                                     head |-> k % model.hp.kv]
        <3>1. History'[(k \div model.hp.kv) + 1] = History[(k \div model.hp.kv) + 1]
            BY <2>6, <2>7, <2>8, Zenon
        <3>2. cache.data[l][k] = [tok |-> History[(k \div model.hp.kv) + 1], pos |-> k \div model.hp.kv,
                                  head |-> k % model.hp.kv]
            BY <2>1, <2>8 DEF CacheHoldsHistory, InCall
        <3> QED BY <3>1, <3>2
    <2> QED BY <2>1, <2>5, <2>8 DEF CacheHoldsHistory
<1>7. CASE UNCHANGED engineVars
    BY <1>1, <1>2, <1>7 DEF engineVars
<1>8. CASE Cancel \/ Callback \/ (PrefillDone /\ pc' \in InCall)
    BY <1>2, <1>8 DEF Cancel, Callback, PrefillDone, Return, engine, execution, InCall
<1>9. CASE EngineNext /\ pc' \in InCall
    <2>1. \/ \E text \in Prompts[calls + 1], ctx \in Contexts : execute(text, ctx)
          \/ Prefill \/ ForwardNext \/ Generate \/ Cancel \/ Callback \/ PrefillDone
        BY <1>9 DEF EngineNext, InCall, initialize, shutdown, unloadModel, LoadRejected, loadModel,
            DecodeBlock, LoadFailed, TokenizerFailed, LoadDone, LoadOver, Cancelled, Finish, Return
    <2> QED BY <1>3, <1>4, <1>5, <1>6, <1>8, <1>9, <2>1
<1> QED BY <1>1, <1>7, <1>9

-----------------------------------------------------------------------------
(* Results *)

\* A forward pass is tried only at a position that the cache has.
LEMMA ResultStep ==
    ASSUME LoadedInv, LoadingInv, CallInv, NoCallOverrunsCache, EngineNext \/ UNCHANGED engineVars
    PROVE  NoCallOverrunsCache'
<1>1. CASE result'.kind # "forward failed"
    BY <1>1 DEF NoCallOverrunsCache
<1>2. CASE result' = result /\ model' = model
    BY <1>2 DEF NoCallOverrunsCache
<1>3. ASSUME NEW k, NEW t, Return(k, t), k # "forward failed" PROVE NoCallOverrunsCache'
    BY <1>1, <1>3 DEF Return
<1>4. NoResult.kind # "forward failed"
    BY DEF NoResult
<1>5. ASSUME NEW t, NEW then, Forward(t, then), pc \in InCall, call.pos < cache.max
      PROVE  NoCallOverrunsCache'
    <2>1. model' = model
        BY <1>5 DEF Forward
    <2>2. CASE CanForward(model, cache, t, call.pos)
        BY <1>2, <1>5, <2>1, <2>2 DEF Forward
    <2>3. CASE ~ CanForward(model, cache, t, call.pos)
        <3>1. result' = [kind |-> "forward failed", tok |-> t]
            BY <1>5, <2>3 DEF Forward, Return
        <3>2. call.pos \in Nat /\ loaded
            BY <1>5 DEF CallInv
        <3>3. cache.max \in Nat
            BY <3>2, Usable
        <3>4. call.pos + 1 <= cache.max
            BY <1>5, <3>2, <3>3
        <3>5. ~ (t < model.hp.vocab) \/ model.hp.heads % model.hp.kv # 0
            BY <1>5, <2>3, <3>4 DEF CanForward, CanAttend
        <3>6. result'.tok = t
            BY <3>1
        <3> QED BY <2>1, <3>5, <3>6 DEF NoCallOverrunsCache
    <2> QED BY <2>2, <2>3
<1>6. CASE Fresh
    BY <1>1, <1>4, <1>6 DEF Fresh
<1>7. CASE initialize \/ LoadRejected \/ LoadFailed \/ Cancel \/ Callback \/ UNCHANGED engineVars
    BY <1>2, <1>7 DEF initialize, LoadRejected, LoadFailed, Cancel, Callback, engine, execution, engineVars
<1>8. CASE TokenizerFailed \/ (\E r \in BOOLEAN : LoadDone(r))
    <2>1. pc = "load" /\ result' = result
        BY <1>8 DEF TokenizerFailed, LoadDone, execution
    <2> QED BY <1>1, <1>4, <2>1 DEF LoadingInv
<1>9. ASSUME NEW t, DecodeBlock(t) PROVE NoCallOverrunsCache'
    BY <1>2, <1>9 DEF DecodeBlock, engine, execution
<1>10. ASSUME NEW text, NEW ctx, execute(text, ctx) PROVE NoCallOverrunsCache'
    <2>1. \/ result' = NoResult
          \/ Return(IF loaded THEN "too long" ELSE "no model", TOKEN_INVALID)
        BY <1>10 DEF execute
    <2> QED BY <1>1, <1>3, <1>4, <2>1
<1>11. CASE Cancelled \/ Finish \/ PrefillDone \/ Generate
    BY <1>2, <1>3, <1>11 DEF Cancelled, Finish, PrefillDone, Generate, engine
<1>12. CASE Prefill
    <2>1. pc = "prefill" /\ call.pos < Len(call.tokens) /\ Forward(call.tokens[call.pos + 1], "prefill")
        BY <1>12 DEF Prefill
    <2>2. /\ loaded /\ call.tokens \in Seq(Int) /\ call.pos \in Nat /\ call.limit \in Nat
          /\ call.limit <= cache.max /\ Len(call.tokens) <= call.limit
        BY <2>1 DEF CallInv, InCall
    <2>3. cache.max \in Nat
        BY <2>2, Usable
    <2>4. call.pos < cache.max
        BY <2>1, <2>2, <2>3
    <2> QED BY <1>5, <2>1, <2>4 DEF InCall
<1>13. CASE ForwardNext
    <2>1. pc = "forward" /\ Forward(call.next, "generate")
        BY <1>13 DEF ForwardNext
    <2>2. /\ loaded /\ call.pos \in Nat /\ call.limit \in Nat
          /\ call.limit <= cache.max /\ call.pos < call.limit
        BY <2>1 DEF CallInv, InCall
    <2>3. cache.max \in Nat
        BY <2>2, Usable
    <2>4. call.pos < cache.max
        BY <2>2, <2>3
    <2> QED BY <1>5, <2>1, <2>4 DEF InCall
<1> QED
    BY <1>6, <1>7, <1>8, <1>9, <1>10, <1>11, <1>12, <1>13 DEF EngineNext, shutdown, unloadModel, loadModel

-----------------------------------------------------------------------------
(* Theorems *)

\* EngineInv holds in every state of the engine.
THEOREM EngineInvariant == EngineSpec => []EngineInv
<1>1. EngineInit => EngineInv
    BY InitEstablishes
<1>2. EngineInv /\ [EngineNext]_engineVars => EngineInv'
    BY LoadedStep, LoadingStep, DecodingStep, CallInvStep, CacheStep, ResultStep DEF EngineInv
<1> QED BY <1>1, <1>2, PTL DEF EngineSpec

\* A model that the engine calls loaded can be run.
THEOREM LoadedModelsRun == EngineSpec => []LoadedMeansUsable
<1>1. EngineInv => LoadedMeansUsable
    BY Usable DEF EngineInv, LoadedMeansUsable
<1> QED BY <1>1, EngineInvariant, PTL

\* No call runs out of cache.
THEOREM CallsStayInCache == EngineSpec => []NoCallOverrunsCache
<1>1. EngineInv => NoCallOverrunsCache
    BY DEF EngineInv
<1> QED BY <1>1, EngineInvariant, PTL

\* However the threads are scheduled, every block is decoded when they have joined.
THEOREM EveryBlockDecoded == EngineSpec => []DecodedAsPacked
<1>1. EngineInv => DecodedAsPacked
    <2> SUFFICES ASSUME LoadingInv, DecodingInv, pc = "load", Joined,
                        NEW b \in DOMAIN file.embd
                 PROVE  AsPacked(file, b, weights[b])
        BY DEF EngineInv, DecodedAsPacked
    <2> DEFINE n == Len(file.embd)
    <2>1. file \in Files
        BY DEF LoadingInv
    <2>2. n \in Nat /\ b \in 1..n
        BY <2>1, EngineAssumption
    <2>3. /\ workers = [t \in 1..DecodeThreads(n) |-> workers[t]]
          /\ \A t \in 1..DecodeThreads(n) :
                /\ workers[t] = [next |-> workers[t].next, end |-> Chunk(n, t - 1).end]
                /\ workers[t].next \in Nat
                /\ \A c \in 1..n : Chunk(n, t - 1).next < c /\ c <= workers[t].next =>
                       weights[c] = DecodedBlock(file, c)
        BY DEF DecodingInv
    <2> HIDE DEF n
    <2>4. PICK t \in 1..DecodeThreads(n) : Chunk(n, t - 1).next < b /\ b <= Chunk(n, t - 1).end
        BY <2>2, ChunksCover
    <2>5. DOMAIN workers = 1..DecodeThreads(n)
        BY <2>3
    <2>6. workers[t].next >= workers[t].end
        BY <2>4, <2>5 DEF Joined
    <2>7. workers[t].end = Chunk(n, t - 1).end /\ workers[t].next \in Nat
        BY <2>3, <2>4
    <2>8. Chunk(n, t - 1).end \in Int
        <3>1. (t - 1 + 1) * Share(n) \in Int
            <4>1. Share(n) \in Nat
                BY <2>2, SharesSuffice
            <4> QED BY <4>1
        <3> QED BY <2>2, <3>1 DEF Chunk
    <2>9. b <= workers[t].next
        BY <2>2, <2>4, <2>6, <2>7, <2>8
    <2>10. weights[b] = DecodedBlock(file, b)
        BY <2>2, <2>3, <2>4, <2>9
    <2> QED BY <2>1, <2>10, BlockAssumption
<1> QED BY <1>1, EngineInvariant, PTL

\* Whatever the number of heads and whatever earlier calls have left, every cell of a
\* position and head holds what this call stored for them.  Where attention looks for it is
\* another matter: AttentionReadsHistory.
THEOREM HistoryStored == EngineSpec => []CacheHoldsHistory
<1>1. EngineInv => CacheHoldsHistory
    BY DEF EngineInv
<1> QED BY <1>1, EngineInvariant, PTL

-----------------------------------------------------------------------------
(***************************************************************************)
(* AdaptiveScheduler.                                                      *)
(***************************************************************************)

Jobs == [ok : BOOLEAN, status : {"QUEUED", "RUNNING", "COMPLETED", "FAILED"}]

Records == [backend : Backends, handle : Nat, ok : BOOLEAN]

ClientCalls ==
    {Idle}
    \cup [pc : {"record"}, backend : Backends, handle : Nat, ok : BOOLEAN]
    \cup [pc : {"lock", "asleep"}, backend : Backends, handle : Nat, task : Nat]
    \cup [pc : {"feedback"}, task : Nat, success : BOOLEAN]

\* The variables keep their types: the members of a worker and of the
\* scheduler, and the call of a client.
TypeOK ==
    /\ jobs \in [Backends -> Seq(Jobs)]
    /\ queue \in [Backends -> Seq(Nat)]
    /\ stop \in [Backends -> BOOLEAN]
    /\ worker \in [Backends -> [pc : {"lock", "asleep", "run", "notify", "exited"}, handle : Nat]]
    /\ records \in Seq(Records)
    /\ client \in [Clients -> ClientCalls]
    /\ owner \in [pc : {"alive", "stop", "notify", "join", "gone"}, next : Nat]

\* The queue of a worker, the statuses of its jobs and its thread agree.
WorkerOK(b) ==
    /\ \A i \in DOMAIN queue[b] :
          queue[b][i] \in DOMAIN jobs[b] /\ jobs[b][queue[b][i]].status = "QUEUED"
    /\ \A i, k \in DOMAIN queue[b] : queue[b][i] = queue[b][k] => i = k
    /\ \A h \in DOMAIN jobs[b] :
          /\ jobs[b][h].status = "QUEUED" => \E i \in DOMAIN queue[b] : queue[b][i] = h
          /\ jobs[b][h].status = "RUNNING" => worker[b].pc = "run" /\ worker[b].handle = h
          /\ jobs[b][h].status = "COMPLETED" => jobs[b][h].ok
          /\ jobs[b][h].status = "FAILED" => ~jobs[b][h].ok
    /\ worker[b].pc = "run" =>
          worker[b].handle \in DOMAIN jobs[b] /\ jobs[b][worker[b].handle].status = "RUNNING"
    /\ worker[b].pc = "exited" => queue[b] = <<>> /\ stop[b]

\* Workers are stopped by the destructor only.
StopOK == \A b \in Backends : stop[b] => owner.pc # "alive"

\* The job that a worker and a handle of it stand for, with what becomes of it.
IsJob(b, h, ok) == h \in DOMAIN jobs[b] /\ jobs[b][h].ok = ok

RecordsOK == \A h \in DOMAIN records : IsJob(records[h].backend, records[h].handle, records[h].ok)

ClientOK(c) ==
    /\ client[c].pc = "record" => IsJob(client[c].backend, client[c].handle, client[c].ok)
    /\ client[c].pc \in {"lock", "asleep"} =>
          /\ client[c].task \in DOMAIN records
          /\ client[c].backend = records[client[c].task].backend
          /\ client[c].handle = records[client[c].task].handle
    /\ client[c].pc = "feedback" =>
          /\ client[c].task \in DOMAIN records
          /\ client[c].success = records[client[c].task].ok

IInv ==
    /\ TypeOK /\ StopOK /\ RecordsOK
    /\ \A b \in Backends : WorkerOK(b)
    /\ \A c \in Clients : ClientOK(c)

USE SchedulerAssumption

-----------------------------------------------------------------------------
(* Facts about jobs, threads and calls.                                     *)

WorkerThreads == [pc : {"lock", "asleep", "run", "notify", "exited"}, handle : Nat]

\* A function that gets a new value for one argument.
LEMMA FunctionSet ==
    ASSUME NEW S, NEW T, NEW f \in [S -> T], NEW x \in S, NEW y \in T,
           NEW g, g = [f EXCEPT ![x] = y]
    PROVE  g[x] = y /\ g \in [S -> T] /\ \A z \in S \ {x} : g[z] = f[z]
  OBVIOUS

\* A job keeps everything but its status, and all others are as they were.
LEMMA StatusSet ==
    ASSUME TypeOK, NEW b \in Backends, NEW h \in DOMAIN jobs[b],
           NEW s \in {"RUNNING", "COMPLETED", "FAILED"},
           jobs' = [jobs EXCEPT ![b][h].status = s]
    PROVE  /\ jobs' \in [Backends -> Seq(Jobs)]
           /\ \A d \in Backends \ {b} : jobs'[d] = jobs[d]
           /\ DOMAIN jobs'[b] = DOMAIN jobs[b]
           /\ \A i \in DOMAIN jobs[b] \ {h} : jobs'[b][i] = jobs[b][i]
           /\ jobs'[b][h].status = s /\ jobs'[b][h].ok = jobs[b][h].ok
  <1> DEFINE j == [jobs[b][h] EXCEPT !.status = s]
             q == [jobs[b] EXCEPT ![h] = j]
  <1>1. jobs[b] \in Seq(Jobs) /\ h \in 1..Len(jobs[b]) BY DEF TypeOK
  <1>2. jobs[b][h] \in Jobs BY <1>1, ElementOfSeq
  <1>3. j \in Jobs /\ j.status = s /\ j.ok = jobs[b][h].ok BY <1>2 DEF Jobs
  <1>4. q \in Seq(Jobs) /\ Len(q) = Len(jobs[b]) BY <1>1, <1>3, ExceptSeq
  <1>5. jobs' = [jobs EXCEPT ![b] = q] BY DEF TypeOK
  <1>6. jobs'[b] = q BY <1>5 DEF TypeOK
  <1>7. \A i \in DOMAIN jobs[b] \ {h} : q[i] = jobs[b][i] OBVIOUS
  <1>8. q[h] = j OBVIOUS
  <1>9. DOMAIN q = DOMAIN jobs[b] OBVIOUS
  <1>10. jobs' \in [Backends -> Seq(Jobs)] BY <1>4, <1>5 DEF TypeOK
  <1>11. \A d \in Backends \ {b} : jobs'[d] = jobs[d] BY <1>5 DEF TypeOK
  <1> HIDE DEF q, j
  <1> QED BY <1>3, <1>6, <1>7, <1>8, <1>9, <1>10, <1>11

\* A worker none of whose members changes.
LEMMA SameWorker ==
    ASSUME NEW b \in Backends, WorkerOK(b), jobs'[b] = jobs[b], queue'[b] = queue[b],
           worker'[b] = worker[b], stop[b] => stop'[b]
    PROVE  WorkerOK(b)'
  BY DEF WorkerOK

\* The status of a finished job says how it ended.
LEMMA FinishedJobs ==
    ASSUME NEW b \in Backends, WorkerOK(b), NEW h \in DOMAIN jobs[b]
    PROVE  /\ jobs[b][h].status = "COMPLETED" => jobs[b][h].ok
           /\ jobs[b][h].status = "FAILED" => ~jobs[b][h].ok
  BY DEF WorkerOK

\* A worker whose thread goes from one place without a job to another.
LEMMA ThreadMoves ==
    ASSUME TypeOK, NEW b \in Backends, WorkerOK(b), jobs'[b] = jobs[b], queue'[b] = queue[b],
           worker[b].pc # "run", worker'[b].pc # "run",
           worker'[b].pc = "exited" => queue[b] = <<>> /\ stop'[b]
    PROVE  WorkerOK(b)'
  BY DEF WorkerOK

\* A record names a worker.
LEMMA RecordFacts ==
    ASSUME TypeOK PROVE \A h \in DOMAIN records : records[h] \in Records /\ records[h].backend \in Backends
  <1>1. records \in Seq(Records) BY DEF TypeOK
  <1> TAKE h \in DOMAIN records
  <1>2. h \in 1..Len(records) BY <1>1
  <1>3. records[h] \in Records BY <1>1, <1>2, ElementOfSeq
  <1> QED BY <1>3 DEF Records

\* What a client's record holds while it is in a call.
LEMMA CallFacts ==
    ASSUME NEW r \in ClientCalls
    PROVE  /\ r.pc = "record" =>
                 r \in [pc : {"record"}, backend : Backends, handle : Nat, ok : BOOLEAN]
           /\ r.pc \in {"lock", "asleep"} =>
                 r \in [pc : {"lock", "asleep"}, backend : Backends, handle : Nat, task : Nat]
           /\ r.pc = "feedback" => r \in [pc : {"feedback"}, task : Nat, success : BOOLEAN]
  <1>1. CASE r = Idle BY <1>1 DEF Idle
  <1>2. CASE r \in [pc : {"record"}, backend : Backends, handle : Nat, ok : BOOLEAN] BY <1>2
  <1>3. CASE r \in [pc : {"lock", "asleep"}, backend : Backends, handle : Nat, task : Nat]
    BY <1>3
  <1>4. CASE r \in [pc : {"feedback"}, task : Nat, success : BOOLEAN] BY <1>4
  <1> QED BY <1>1, <1>2, <1>3, <1>4 DEF ClientCalls

\* Jobs are not taken away, so that records and calls keep their meaning.
LEMMA CallsKept ==
    ASSUME IInv, UNCHANGED <<records, client>>,
           \A b \in Backends : \A h \in DOMAIN jobs[b] :
               h \in DOMAIN jobs'[b] /\ jobs'[b][h].ok = jobs[b][h].ok
    PROVE  RecordsOK' /\ \A c \in Clients : ClientOK(c)'
  <1>1. \A b \in Backends : \A h, ok : IsJob(b, h, ok) => IsJob(b, h, ok)' BY DEF IsJob
  <1>2. \A h \in DOMAIN records : records[h].backend \in Backends
    BY RecordFacts DEF IInv
  <1>3. RecordsOK' BY <1>1, <1>2 DEF IInv, RecordsOK
  <1>4. \A c \in Clients : client[c].pc = "record" => client[c].backend \in Backends
    <2> TAKE c \in Clients
    <2>1. client[c] \in ClientCalls BY DEF IInv, TypeOK
    <2> QED BY <2>1, CallFacts
  <1>5. \A c \in Clients : ClientOK(c)' BY <1>1, <1>4 DEF IInv, ClientOK
  <1> QED BY <1>3, <1>5

\* A thread goes to another place.
LEMMA ThreadSet ==
    ASSUME TypeOK, NEW b \in Backends, NEW place \in {"lock", "asleep", "notify", "exited"},
           worker' = [worker EXCEPT ![b].pc = place]
    PROVE  /\ worker' \in [Backends -> WorkerThreads] /\ worker'[b].pc = place
           /\ \A d \in Backends \ {b} : worker'[d] = worker[d]
  <1> DEFINE w == [worker[b] EXCEPT !.pc = place]
  <1>1. worker[b] \in WorkerThreads BY DEF TypeOK, WorkerThreads
  <1>2. w \in WorkerThreads /\ w.pc = place BY <1>1 DEF WorkerThreads
  <1>3. worker' = [worker EXCEPT ![b] = w] BY DEF TypeOK
  <1>4. worker \in [Backends -> WorkerThreads] BY DEF TypeOK, WorkerThreads
  <1> HIDE DEF w
  <1> QED BY <1>2, <1>3, <1>4

\* A notified thread wakes up if it sleeps.
LEMMA WokenFacts ==
    ASSUME NEW w \in WorkerThreads
    PROVE  /\ Woken(w) \in WorkerThreads /\ Woken(w).handle = w.handle
           /\ w.pc # "asleep" => Woken(w) = w
           /\ w.pc = "asleep" => Woken(w).pc = "lock"
  BY DEF Woken, WorkerThreads

-----------------------------------------------------------------------------
(* Worker threads.                                                          *)

\* At the start there is no job.
LEMMA InitIInv == Init => IInv
  <1> SUFFICES ASSUME Init PROVE IInv OBVIOUS
  <1>1. TypeOK BY DEF Init, TypeOK, ClientCalls
  <1>2. \A b \in Backends : jobs[b] = <<>> /\ queue[b] = <<>> /\ worker[b].pc = "lock" BY DEF Init
  <1>3. \A b \in Backends : WorkerOK(b) BY <1>2 DEF WorkerOK
  <1>4. RecordsOK /\ StopOK BY DEF Init, RecordsOK, StopOK
  <1>5. \A c \in Clients : ClientOK(c) BY DEF Init, ClientOK, Idle
  <1> QED BY <1>1, <1>3, <1>4, <1>5 DEF IInv

\* The thread of a worker sleeps or leaves.
LEMMA RestStep ==
    ASSUME IInv, NEW b \in Backends, WorkerSleeps(b) \/ WorkerExits(b) PROVE IInv'
  <1> USE DEF IInv
  <1>1. UNCHANGED <<jobs, queue, stop, records, client, owner>>
    BY DEF WorkerSleeps, WorkerExits, schedVars
  <1>2. PICK place \in {"asleep", "exited"} :
           worker' = [worker EXCEPT ![b].pc = place] /\ (place = "exited" => stop[b] /\ queue[b] = <<>>)
    BY DEF WorkerSleeps, WorkerExits
  <1>3. worker[b].pc = "lock" BY DEF WorkerSleeps, WorkerExits
  <1>4. /\ worker' \in [Backends -> WorkerThreads] /\ worker'[b].pc = place
        /\ \A d \in Backends \ {b} : worker'[d] = worker[d]
    BY <1>2, ThreadSet
  <1>5. TypeOK' BY <1>1, <1>4 DEF TypeOK, WorkerThreads
  <1>6. WorkerOK(b)' BY <1>1, <1>2, <1>3, <1>4, ThreadMoves
  <1>7. \A d \in Backends : WorkerOK(d)' BY <1>1, <1>4, <1>6, SameWorker
  <1>8. StopOK' BY <1>1 DEF StopOK
  <1> QED BY <1>1, <1>5, <1>7, <1>8, CallsKept

\* What is left of a queue without its first element moves up by one.
LEMMA TailShifts ==
    ASSUME NEW q \in Seq(Nat), q # <<>>
    PROVE  \A i \in DOMAIN Tail(q) : i + 1 \in DOMAIN q /\ Tail(q)[i] = q[i + 1]
  <1>1. /\ Tail(q) \in Seq(Nat) /\ Len(Tail(q)) = Len(q) - 1
        /\ \A i \in 1..Len(Tail(q)) : Tail(q)[i] = q[i + 1]
    BY ONLY q \in Seq(Nat), q # <<>>, HeadTailProperties
  <1>2. DOMAIN Tail(q) = 1..Len(Tail(q)) /\ DOMAIN q = 1..Len(q) BY <1>1
  <1>3. Len(q) \in Nat BY LenProperties
  <1> QED BY ONLY <1>1, <1>2, <1>3

\* The thread takes the first job of the queue.
LEMMA TakeStep ==
    ASSUME IInv, NEW b \in Backends, WorkerTakes(b) PROVE IInv'
  <1> USE DEF IInv
  <1> DEFINE h == Head(queue[b])
  <1>1. UNCHANGED <<stop, records, client, owner>> BY DEF WorkerTakes, schedVars
  <1>2. worker[b].pc = "lock" /\ queue[b] # <<>> /\ queue[b] \in Seq(Nat) BY DEF WorkerTakes, TypeOK
  <1>3. 1 \in DOMAIN queue[b] /\ h = queue[b][1] BY <1>2
  <1>4. h \in DOMAIN jobs[b] /\ jobs[b][h].status = "QUEUED" /\ h \in Nat
    BY <1>2, <1>3 DEF WorkerOK
  <1>5. queue' = [queue EXCEPT ![b] = Tail(@)] BY DEF WorkerTakes
  <1>6. /\ queue'[b] = Tail(queue[b]) /\ queue' \in [Backends -> Seq(Nat)]
        /\ \A d \in Backends \ {b} : queue'[d] = queue[d]
    <2> DEFINE tail == Tail(queue[b])
    <2>1. tail \in Seq(Nat) BY ONLY <1>2, HeadTailProperties
    <2>2. queue \in [Backends -> Seq(Nat)] BY DEF TypeOK
    <2>3. queue' = [queue EXCEPT ![b] = tail] BY <1>5
    <2> HIDE DEF tail
    <2>4. /\ queue'[b] = tail /\ queue' \in [Backends -> Seq(Nat)]
          /\ \A d \in Backends \ {b} : queue'[d] = queue[d]
      BY ONLY <2>1, <2>2, <2>3, b \in Backends, FunctionSet
    <2> QED BY <2>4 DEF tail
  <1>7. /\ jobs' \in [Backends -> Seq(Jobs)] /\ \A d \in Backends \ {b} : jobs'[d] = jobs[d]
        /\ DOMAIN jobs'[b] = DOMAIN jobs[b]
        /\ \A i \in DOMAIN jobs[b] \ {h} : jobs'[b][i] = jobs[b][i]
        /\ jobs'[b][h].status = "RUNNING" /\ jobs'[b][h].ok = jobs[b][h].ok
    <2>1. jobs' = [jobs EXCEPT ![b][h].status = "RUNNING"] BY DEF WorkerTakes
    <2>2. TypeOK /\ h \in DOMAIN jobs[b] BY <1>4
    <2> HIDE DEF h, IInv
    <2> QED BY ONLY <2>1, <2>2, b \in Backends, StatusSet
  <1>8. /\ worker' = [worker EXCEPT ![b] = [pc |-> "run", handle |-> h]] BY DEF WorkerTakes
  <1>9. /\ worker' \in [Backends -> WorkerThreads] /\ worker'[b].pc = "run" /\ worker'[b].handle = h
        /\ \A d \in Backends \ {b} : worker'[d] = worker[d]
    BY <1>4, <1>8 DEF TypeOK, WorkerThreads
  <1>10. TypeOK' BY <1>1, <1>6, <1>7, <1>9 DEF TypeOK, WorkerThreads
  <1>11. WorkerOK(b)'
    <2>1. \A i \in DOMAIN queue'[b] : i + 1 \in DOMAIN queue[b] /\ queue'[b][i] = queue[b][i + 1]
      BY ONLY <1>2, <1>6, TailShifts
    <2>2. \A i \in DOMAIN queue[b] \ {1} : i - 1 \in DOMAIN queue'[b] /\ queue'[b][i - 1] = queue[b][i]
      <3> TAKE i \in DOMAIN queue[b] \ {1}
      <3>1. i \in 2..Len(queue[b]) BY <1>2
      <3>2. Len(queue'[b]) = Len(queue[b]) - 1 /\ queue'[b] \in Seq(Nat) BY <1>2, <1>6
      <3>3. i - 1 \in DOMAIN queue'[b] BY <3>1, <3>2
      <3> QED BY <2>1, <3>1, <3>3
    <2>3. \A i \in DOMAIN queue'[b] : queue'[b][i] # h
      <3> TAKE i \in DOMAIN queue'[b]
      <3>1. i + 1 # 1 BY <1>6
      <3>2. queue[b][i + 1] # queue[b][1] BY <1>3, <2>1, <3>1 DEF WorkerOK
      <3> QED BY <1>3, <2>1, <3>2
    <2>4. \A i \in DOMAIN queue'[b] :
             queue'[b][i] \in DOMAIN jobs'[b] /\ jobs'[b][queue'[b][i]].status = "QUEUED"
      BY <1>7, <2>1, <2>3 DEF WorkerOK
    <2>5. \A i, k \in DOMAIN queue'[b] : queue'[b][i] = queue'[b][k] => i = k
      <3> TAKE i, k \in DOMAIN queue'[b]
      <3>1. queue'[b][i] = queue'[b][k] => i + 1 = k + 1 BY <2>1 DEF WorkerOK
      <3>2. i \in Nat /\ k \in Nat BY <1>6
      <3> QED BY <3>1, <3>2
    <2>6. ASSUME NEW i \in DOMAIN jobs'[b], jobs'[b][i].status = "QUEUED"
          PROVE  \E k \in DOMAIN queue'[b] : queue'[b][k] = i
      <3>1. i # h /\ jobs[b][i].status = "QUEUED" /\ i \in DOMAIN jobs[b] BY <1>7, <2>6
      <3>2. PICK k \in DOMAIN queue[b] : queue[b][k] = i BY <3>1 DEF WorkerOK
      <3>3. k # 1 BY <1>3, <3>1, <3>2
      <3> QED BY <2>2, <3>2, <3>3
    <2>7. \A i \in DOMAIN jobs'[b] : jobs'[b][i].status = "RUNNING" => i = h
      BY <1>2, <1>7 DEF WorkerOK
    <2>8. \A i \in DOMAIN jobs'[b] : /\ jobs'[b][i].status = "COMPLETED" => jobs'[b][i].ok
                                     /\ jobs'[b][i].status = "FAILED" => ~jobs'[b][i].ok
      BY <1>7 DEF WorkerOK
    <2> QED BY <1>4, <1>7, <1>9, <2>4, <2>5, <2>6, <2>7, <2>8 DEF WorkerOK
  <1>12. \A d \in Backends : WorkerOK(d)' BY <1>1, <1>6, <1>7, <1>9, <1>11, SameWorker
  <1>13. StopOK' BY <1>1 DEF StopOK
  <1>14. RecordsOK' /\ \A c \in Clients : ClientOK(c)' BY <1>1, <1>7, CallsKept
  <1> QED BY <1>10, <1>12, <1>13, <1>14

\* The thread has run the job it holds.
LEMMA RunStep ==
    ASSUME IInv, NEW b \in Backends, WorkerRuns(b) PROVE IInv'
  <1> USE DEF IInv
  <1> DEFINE h == worker[b].handle
             s == IF jobs[b][h].ok THEN "COMPLETED" ELSE "FAILED"
  <1>1. UNCHANGED <<queue, stop, records, client, owner>> BY DEF WorkerRuns, schedVars
  <1>2. worker[b].pc = "run" /\ h \in DOMAIN jobs[b] /\ jobs[b][h].status = "RUNNING"
    BY DEF WorkerRuns, WorkerOK
  <1>3. /\ jobs' \in [Backends -> Seq(Jobs)] /\ \A d \in Backends \ {b} : jobs'[d] = jobs[d]
        /\ DOMAIN jobs'[b] = DOMAIN jobs[b]
        /\ \A i \in DOMAIN jobs[b] \ {h} : jobs'[b][i] = jobs[b][i]
        /\ jobs'[b][h].status = s /\ jobs'[b][h].ok = jobs[b][h].ok
    <2>1. s \in {"RUNNING", "COMPLETED", "FAILED"} OBVIOUS
    <2>2. jobs' = [jobs EXCEPT ![b][h].status = s] BY DEF WorkerRuns
    <2>3. TypeOK /\ h \in DOMAIN jobs[b] BY <1>2
    <2> HIDE DEF s, h, IInv
    <2> QED BY ONLY <2>1, <2>2, <2>3, b \in Backends, StatusSet
  <1>4. /\ worker' \in [Backends -> WorkerThreads] /\ worker'[b].pc = "notify"
        /\ \A d \in Backends \ {b} : worker'[d] = worker[d]
    BY ThreadSet DEF WorkerRuns
  <1>5. TypeOK' BY <1>1, <1>3, <1>4 DEF TypeOK, WorkerThreads
  <1>6. WorkerOK(b)'
    <2>1. \A i \in DOMAIN queue[b] : queue[b][i] # h BY <1>2 DEF WorkerOK
    <2>2. \A i \in DOMAIN queue'[b] :
             queue'[b][i] \in DOMAIN jobs'[b] /\ jobs'[b][queue'[b][i]].status = "QUEUED"
      BY <1>1, <1>3, <2>1 DEF WorkerOK
    <2>3. \A i \in DOMAIN jobs'[b] :
             /\ jobs'[b][i].status = "QUEUED" => \E k \in DOMAIN queue'[b] : queue'[b][k] = i
             /\ jobs'[b][i].status # "RUNNING"
             /\ jobs'[b][i].status = "COMPLETED" => jobs'[b][i].ok
             /\ jobs'[b][i].status = "FAILED" => ~jobs'[b][i].ok
      <3> TAKE i \in DOMAIN jobs'[b]
      <3>1. CASE i = h BY <1>3, <3>1
      <3>2. CASE i # h
        <4>1. i \in DOMAIN jobs[b] /\ jobs'[b][i] = jobs[b][i] BY <1>3, <3>2
        <4>2. jobs[b][i].status # "RUNNING" BY <1>2, <3>2, <4>1 DEF WorkerOK
        <4> QED BY <1>1, <4>1, <4>2 DEF WorkerOK
      <3> QED BY <3>1, <3>2
    <2> QED BY <1>1, <1>4, <2>2, <2>3 DEF WorkerOK
  <1>7. \A d \in Backends : WorkerOK(d)' BY <1>1, <1>3, <1>4, <1>6, SameWorker
  <1>8. StopOK' BY <1>1 DEF StopOK
  <1>9. RecordsOK' /\ \A c \in Clients : ClientOK(c)' BY <1>1, <1>3, CallsKept
  <1> QED BY <1>5, <1>7, <1>8, <1>9

\* The thread wakes the clients that wait for its worker.
LEMMA NotifyStep ==
    ASSUME IInv, NEW b \in Backends, WorkerNotifies(b) PROVE IInv'
  <1> USE DEF IInv
  <1>1. UNCHANGED <<jobs, queue, stop, records, owner>> BY DEF WorkerNotifies, schedVars
  <1>2. worker[b].pc = "notify" BY DEF WorkerNotifies
  <1>3. /\ worker' \in [Backends -> WorkerThreads] /\ worker'[b].pc = "lock"
        /\ \A d \in Backends \ {b} : worker'[d] = worker[d]
    BY ThreadSet DEF WorkerNotifies
  <1>4. WorkerOK(b)' BY <1>1, <1>2, <1>3, ThreadMoves
  <1>5. \A d \in Backends : WorkerOK(d)' BY <1>1, <1>3, <1>4, SameWorker
  <1>6. ASSUME NEW c \in Clients PROVE client'[c] \in ClientCalls /\ ClientOK(c)'
    <2>1. client[c] \in ClientCalls BY DEF TypeOK
    <2>2. CASE client[c].pc = "asleep" /\ client[c].backend = b
      <3>1. client'[c] = [client[c] EXCEPT !.pc = "lock"] BY <2>2 DEF WorkerNotifies
      <3>2. client[c] \in [pc : {"lock", "asleep"}, backend : Backends, handle : Nat, task : Nat]
        BY <2>1, <2>2, CallFacts
      <3>3. /\ client'[c] \in [pc : {"lock", "asleep"}, backend : Backends, handle : Nat, task : Nat]
            /\ client'[c].pc = "lock" /\ client'[c].task = client[c].task
            /\ client'[c].backend = client[c].backend /\ client'[c].handle = client[c].handle
        BY <3>1, <3>2
      <3> QED BY <1>1, <2>2, <3>3 DEF ClientCalls, ClientOK
    <2>3. CASE ~(client[c].pc = "asleep" /\ client[c].backend = b)
      <3>1. client'[c] = client[c] BY <2>3 DEF WorkerNotifies
      <3> QED BY <1>1, <2>1, <3>1 DEF ClientOK, IsJob
    <2> QED BY <2>2, <2>3
  <1>7. client' \in [Clients -> ClientCalls] BY <1>6 DEF WorkerNotifies
  <1>8. TypeOK' BY <1>1, <1>3, <1>7 DEF TypeOK, WorkerThreads
  <1>9. StopOK' /\ RecordsOK' BY <1>1 DEF StopOK, RecordsOK, IsJob
  <1> QED BY <1>5, <1>6, <1>8, <1>9

-----------------------------------------------------------------------------
(* Clients.                                                                 *)

\* Only the call of one client changes, to one that means something.
LEMMA CallStep ==
    ASSUME IInv, NEW c \in Clients, NEW r \in ClientCalls,
           client' = [client EXCEPT ![c] = r], ClientOK(c)',
           UNCHANGED <<jobs, queue, stop, worker, records, owner>>
    PROVE  IInv'
  <1> USE DEF IInv
  <1>1. TypeOK' BY DEF TypeOK
  <1>2. \A d \in Clients \ {c} : client'[d] = client[d] BY DEF TypeOK
  <1>3. \A d \in Clients : ClientOK(d)' BY <1>2 DEF ClientOK, IsJob
  <1>4. \A b \in Backends : WorkerOK(b)' BY SameWorker
  <1>5. StopOK' /\ RecordsOK' BY DEF StopOK, RecordsOK, IsJob
  <1> QED BY <1>1, <1>3, <1>4, <1>5

\* The cost model takes a worker.
LEMMA EvaluateFacts == \A w : evaluate(w) \subseteq Backends
  BY DEF evaluate

\* A job is handed to a worker.
LEMMA SubmitStep ==
    ASSUME IInv, NEW c \in Clients, NEW b \in Backends, NEW ok \in BOOLEAN, submit(c, b, ok)
    PROVE  IInv'
  <1> USE DEF IInv
  <1> DEFINE j == [ok |-> ok, status |-> "QUEUED"]
             n == Len(jobs[b]) + 1
             r == [pc |-> "record", backend |-> b, handle |-> n, ok |-> ok]
  <1>1. UNCHANGED <<stop, records, owner>> /\ owner.pc = "alive" BY DEF submit, schedVars
  <1>2. jobs[b] \in Seq(Jobs) /\ queue[b] \in Seq(Nat) /\ worker[b] \in WorkerThreads
    BY DEF TypeOK, WorkerThreads
  <1>3. j \in Jobs /\ j.status = "QUEUED" /\ j.ok = ok BY DEF Jobs
  <1>4. jobs' = [jobs EXCEPT ![b] = Append(jobs[b], j)] BY DEF submit
  <1> HIDE DEF j
  <1>5. /\ jobs'[b] = Append(jobs[b], j) /\ jobs' \in [Backends -> Seq(Jobs)]
        /\ \A d \in Backends \ {b} : jobs'[d] = jobs[d]
    BY <1>2, <1>3, <1>4 DEF TypeOK
  <1>6. /\ Len(jobs'[b]) = n /\ n \in Nat /\ DOMAIN jobs'[b] = 1..n /\ DOMAIN jobs[b] = 1..(n - 1)
        /\ jobs'[b][n] = j
        /\ \A h \in DOMAIN jobs[b] : jobs'[b][h] = jobs[b][h]
    BY <1>2, <1>3, <1>5
  <1> HIDE DEF n
  <1>7. queue' = [queue EXCEPT ![b] = Append(queue[b], n)] BY <1>6 DEF submit
  <1>8. /\ queue'[b] = Append(queue[b], n) /\ queue' \in [Backends -> Seq(Nat)]
        /\ \A d \in Backends \ {b} : queue'[d] = queue[d]
    BY <1>2, <1>6, <1>7 DEF TypeOK
  <1> DEFINE m == Len(queue[b])
  <1>9. /\ DOMAIN queue'[b] = 1..(m + 1) /\ DOMAIN queue[b] = 1..m /\ m \in Nat
        /\ queue'[b][m + 1] = n
        /\ \A i \in DOMAIN queue[b] : queue'[b][i] = queue[b][i]
    <2>1. queue[b] \in Seq(Nat) /\ n \in Nat BY <1>2, <1>6
    <2>2. Len(queue'[b]) = m + 1 /\ queue'[b] \in Seq(Nat) /\ m \in Nat BY <1>8, <2>1
    <2>3. DOMAIN queue'[b] = 1..(m + 1) /\ DOMAIN queue[b] = 1..m BY <2>1, <2>2
    <2>4. queue'[b][m + 1] = n BY <1>8, <2>1
    <2>5. \A i \in 1..m : queue'[b][i] = queue[b][i] BY <1>8, <2>1
    <2> QED BY <2>2, <2>3, <2>4, <2>5
  <1> HIDE DEF m
  <1>10. worker' = [worker EXCEPT ![b] = Woken(worker[b])] BY DEF submit
  <1>11. /\ worker'[b] = Woken(worker[b]) /\ worker' \in [Backends -> WorkerThreads]
         /\ \A d \in Backends \ {b} : worker'[d] = worker[d]
    BY <1>2, <1>10, WokenFacts DEF TypeOK, WorkerThreads
  <1>12. worker[b].pc # "exited" BY <1>1 DEF StopOK, WorkerOK
  <1>13. r \in ClientCalls /\ r.pc = "record" /\ r.backend = b /\ r.handle = n /\ r.ok = ok
    BY <1>6 DEF ClientCalls
  <1>14. client' = [client EXCEPT ![c] = r] BY <1>6 DEF submit
  <1> HIDE DEF r
  <1>15. /\ client'[c] = r /\ client' \in [Clients -> ClientCalls]
         /\ \A d \in Clients \ {c} : client'[d] = client[d]
    BY <1>13, <1>14 DEF TypeOK
  <1>16. TypeOK' BY <1>1, <1>5, <1>8, <1>11, <1>15 DEF TypeOK, WorkerThreads
  <1>17. n \notin DOMAIN jobs[b] /\ n \in DOMAIN jobs'[b]
         /\ (\A h \in DOMAIN jobs[b] : h \in DOMAIN jobs'[b])
         /\ (\A h \in DOMAIN jobs'[b] : h # n => h \in DOMAIN jobs[b])
    <2>1. n \in Nat \ {0} /\ DOMAIN jobs'[b] = 1..n /\ DOMAIN jobs[b] = 1..(n - 1)
      BY <1>2, <1>6 DEF n
    <2> QED BY <2>1
  <1>18. m + 1 \notin DOMAIN queue[b] /\ m + 1 \in DOMAIN queue'[b]
         /\ (\A i \in DOMAIN queue[b] : i \in DOMAIN queue'[b])
         /\ (\A i \in DOMAIN queue'[b] : i # m + 1 => i \in DOMAIN queue[b])
    BY <1>9
  <1>19. WorkerOK(b)'
    <2>1. \A i \in DOMAIN queue'[b] :
             queue'[b][i] \in DOMAIN jobs'[b] /\ jobs'[b][queue'[b][i]].status = "QUEUED"
      <3> TAKE i \in DOMAIN queue'[b]
      <3>1. CASE i = m + 1 BY <1>3, <1>6, <1>9, <1>17, <3>1
      <3>2. CASE i # m + 1
        <4>1. i \in DOMAIN queue[b] /\ queue'[b][i] = queue[b][i] BY <1>9, <1>18, <3>2
        <4>2. queue[b][i] \in DOMAIN jobs[b] /\ jobs[b][queue[b][i]].status = "QUEUED"
          BY <4>1 DEF WorkerOK
        <4> QED BY <1>6, <1>17, <4>1, <4>2
      <3> QED BY <3>1, <3>2
    <2>2. \A i \in DOMAIN queue[b] : queue[b][i] # n BY <1>17 DEF WorkerOK
    <2>3. \A i, k \in DOMAIN queue'[b] : queue'[b][i] = queue'[b][k] => i = k
      <3> TAKE i, k \in DOMAIN queue'[b]
      <3>1. CASE i # m + 1 /\ k # m + 1 BY <1>9, <1>18, <3>1 DEF WorkerOK
      <3>2. CASE i = m + 1 /\ k # m + 1 BY <1>9, <1>18, <2>2, <3>2
      <3>3. CASE i # m + 1 /\ k = m + 1 BY <1>9, <1>18, <2>2, <3>3
      <3> QED BY <3>1, <3>2, <3>3
    <2>4. ASSUME NEW h \in DOMAIN jobs'[b]
          PROVE  /\ jobs'[b][h].status = "QUEUED" => \E i \in DOMAIN queue'[b] : queue'[b][i] = h
                 /\ jobs'[b][h].status = "RUNNING" => worker[b].pc = "run" /\ worker[b].handle = h
                 /\ jobs'[b][h].status = "COMPLETED" => jobs'[b][h].ok
                 /\ jobs'[b][h].status = "FAILED" => ~jobs'[b][h].ok
      <3>1. CASE h = n BY <1>3, <1>6, <1>9, <1>18, <3>1
      <3>2. CASE h # n
        <4>1. h \in DOMAIN jobs[b] /\ jobs'[b][h] = jobs[b][h] BY <1>6, <1>17, <3>2
        <4>2. jobs[b][h].status = "QUEUED" => \E i \in DOMAIN queue'[b] : queue'[b][i] = h
          BY <1>9, <1>18, <4>1 DEF WorkerOK
        <4> QED BY <4>1, <4>2 DEF WorkerOK
      <3> QED BY <3>1, <3>2
    <2>5. /\ worker'[b].handle = worker[b].handle /\ worker'[b].pc # "exited"
          /\ worker'[b].pc = "run" <=> worker[b].pc = "run"
      BY <1>2, <1>11, <1>12, WokenFacts
    <2>6. worker[b].pc = "run" =>
             worker[b].handle \in DOMAIN jobs'[b] /\ jobs'[b][worker[b].handle].status = "RUNNING"
      BY <1>6, <1>17 DEF WorkerOK
    <2> QED BY <2>1, <2>3, <2>4, <2>5, <2>6 DEF WorkerOK
  <1>20. \A d \in Backends : WorkerOK(d)' BY <1>1, <1>5, <1>8, <1>11, <1>19, SameWorker
  <1>21. \A d \in Backends : \A h, o : IsJob(d, h, o) => IsJob(d, h, o)'
    <2> TAKE d \in Backends
    <2> TAKE h, o
    <2>1. CASE d = b BY <1>6, <1>17, <2>1 DEF IsJob
    <2>2. CASE d # b BY <1>5, <2>2 DEF IsJob
    <2> QED BY <2>1, <2>2
  <1>22. \A h \in DOMAIN records : records[h].backend \in Backends BY RecordFacts
  <1>23. RecordsOK' BY <1>1, <1>21, <1>22 DEF RecordsOK
  <1>24. ClientOK(c)' BY <1>3, <1>6, <1>13, <1>15, <1>17 DEF ClientOK, IsJob
  <1>25. ASSUME NEW d \in Clients \ {c} PROVE ClientOK(d)'
    <2>1. client'[d] = client[d] /\ client[d] \in ClientCalls BY <1>15 DEF TypeOK
    <2>2. client[d].pc = "record" => client[d].backend \in Backends BY <2>1, CallFacts
    <2> QED BY <1>1, <1>21, <2>1, <2>2 DEF ClientOK
  <1>26. StopOK' BY <1>1 DEF StopOK
  <1> QED BY <1>16, <1>20, <1>23, <1>24, <1>25, <1>26

\* The scheduler writes the record of a job.
LEMMA RecordStep ==
    ASSUME IInv, NEW c \in Clients, submitToWorker(c) PROVE IInv'
  <1> USE DEF IInv
  <1> DEFINE r == [backend |-> client[c].backend, handle |-> client[c].handle, ok |-> client[c].ok]
             n == Len(records)
  <1>1. UNCHANGED <<jobs, queue, stop, worker, owner>> BY DEF submitToWorker, workerVars
  <1>2. client[c].pc = "record" /\ client[c] \in ClientCalls BY DEF submitToWorker, TypeOK
  <1>3. client[c] \in [pc : {"record"}, backend : Backends, handle : Nat, ok : BOOLEAN]
    BY <1>2, CallFacts
  <1>4. r \in Records BY <1>3 DEF Records
  <1>5. IsJob(r.backend, r.handle, r.ok) BY <1>2 DEF ClientOK
  <1>6. records' = Append(records, r) BY DEF submitToWorker
  <1> HIDE DEF r
  <1>7. /\ records' \in Seq(Records) /\ DOMAIN records' = 1..(n + 1) /\ DOMAIN records = 1..n
        /\ n \in Nat /\ records'[n + 1] = r
        /\ \A h \in DOMAIN records : records'[h] = records[h]
    <2>1. records \in Seq(Records) BY DEF TypeOK
    <2> QED BY <1>4, <1>6, <2>1, AppendProperties
  <1>8. /\ \A h \in DOMAIN records' : h # n + 1 => h \in DOMAIN records
        /\ \A h \in DOMAIN records : h \in DOMAIN records'
    BY <1>7
  <1>9. RecordsOK'
    <2> SUFFICES ASSUME NEW h \in DOMAIN records'
                 PROVE  IsJob(records[h].backend, records[h].handle, records[h].ok)'
      BY DEF RecordsOK
    <2>1. CASE h = n + 1 BY <1>1, <1>5, <1>7, <2>1 DEF IsJob
    <2>2. CASE h # n + 1 BY <1>1, <1>7, <1>8, <2>2 DEF RecordsOK, IsJob
    <2> QED BY <2>1, <2>2
  <1>10. client' \in [Clients -> ClientCalls] /\ client'[c] = Idle
         /\ \A d \in Clients \ {c} : client'[d] = client[d]
    BY DEF submitToWorker, TypeOK, ClientCalls
  <1>11. ClientOK(c)' BY <1>10 DEF ClientOK, Idle
  <1>12. ASSUME NEW d \in Clients \ {c} PROVE ClientOK(d)'
    BY <1>1, <1>7, <1>8, <1>10 DEF ClientOK, IsJob
  <1>13. TypeOK' BY <1>1, <1>7, <1>10 DEF TypeOK
  <1>14. \A b \in Backends : WorkerOK(b)' BY <1>1, SameWorker
  <1>15. StopOK' BY <1>1 DEF StopOK
  <1> QED BY <1>9, <1>11, <1>12, <1>13, <1>14, <1>15

\* A client begins to wait: for the job of the record.
LEMMA WaitStep ==
    ASSUME IInv, NEW c \in Clients, NEW h \in DOMAIN records, wait(c, h) PROVE IInv'
  <1> DEFINE r == [pc |-> "lock", backend |-> records[h].backend,
                   handle |-> records[h].handle, task |-> h]
  <1>1. UNCHANGED <<jobs, queue, stop, worker, records, owner>> BY DEF wait, workerVars, schedVars
  <1>2. records[h] \in Records BY RecordFacts DEF IInv
  <1>3. h \in Nat BY DEF IInv, TypeOK
  <1>4. r \in ClientCalls BY <1>2, <1>3 DEF ClientCalls, Records
  <1>5. client' = [client EXCEPT ![c] = r] BY DEF wait
  <1>6. client'[c] = r BY <1>5 DEF IInv, TypeOK
  <1>7. ClientOK(c)' BY <1>1, <1>6 DEF ClientOK
  <1> HIDE DEF r
  <1> QED BY <1>1, <1>4, <1>5, <1>7, CallStep

\* The job is not finished: the client sleeps.
LEMMA SleepStep ==
    ASSUME IInv, NEW c \in Clients, WaitSleeps(c) PROVE IInv'
  <1> DEFINE r == [client[c] EXCEPT !.pc = "asleep"]
  <1>1. UNCHANGED <<jobs, queue, stop, worker, records, owner>>
    BY DEF WaitSleeps, workerVars, schedVars
  <1>2. client[c].pc = "lock" /\ client[c] \in ClientCalls BY DEF WaitSleeps, IInv, TypeOK
  <1>3. client[c] \in [pc : {"lock", "asleep"}, backend : Backends, handle : Nat, task : Nat]
    BY <1>2, CallFacts
  <1>4. /\ r \in [pc : {"lock", "asleep"}, backend : Backends, handle : Nat, task : Nat]
        /\ r.pc = "asleep" /\ r.backend = client[c].backend /\ r.handle = client[c].handle
        /\ r.task = client[c].task
    BY <1>3
  <1>5. client' = [client EXCEPT ![c] = r] BY DEF WaitSleeps, IInv, TypeOK
  <1> HIDE DEF r
  <1>6. client'[c] = r BY <1>5 DEF IInv, TypeOK
  <1>7. ClientOK(c) BY DEF IInv
  <1>8. ClientOK(c)' BY <1>1, <1>2, <1>4, <1>6, <1>7 DEF ClientOK
  <1>9. r \in ClientCalls BY <1>4 DEF ClientCalls
  <1> QED BY <1>1, <1>5, <1>8, <1>9, CallStep

\* The job is finished: its status says whether the workload succeeded.
LEMMA GetStep ==
    ASSUME IInv, NEW c \in Clients, WaitGets(c) PROVE IInv'
  <1> DEFINE b == client[c].backend
             h == client[c].handle
             t == client[c].task
             r == [pc |-> "feedback", task |-> t, success |-> jobs[b][h].status = "COMPLETED"]
  <1>1. UNCHANGED <<jobs, queue, stop, worker, records, owner>>
    BY DEF WaitGets, workerVars, schedVars
  <1>2. client[c].pc = "lock" /\ client[c] \in ClientCalls BY DEF WaitGets, IInv, TypeOK
  <1>3. b \in Backends /\ t \in Nat BY <1>2, CallFacts
  <1>4. t \in DOMAIN records /\ b = records[t].backend /\ h = records[t].handle
    BY <1>2 DEF IInv, ClientOK
  <1>5. h \in DOMAIN jobs[b] /\ jobs[b][h].ok = records[t].ok BY <1>4 DEF IInv, RecordsOK, IsJob
  <1>6. jobs[b][h].status \in {"COMPLETED", "FAILED"} BY DEF WaitGets, Ready, Final
  <1>7. WorkerOK(b)
    <2>1. \A d \in Backends : WorkerOK(d) BY ONLY IInv DEF IInv
    <2> QED BY ONLY <1>3, <2>1
  <1>8. /\ jobs[b][h].status = "COMPLETED" => records[t].ok
        /\ jobs[b][h].status # "COMPLETED" => ~records[t].ok
    <2>1. /\ jobs[b][h].status = "COMPLETED" => jobs[b][h].ok
          /\ jobs[b][h].status = "FAILED" => ~jobs[b][h].ok
      BY ONLY <1>3, <1>5, <1>7, FinishedJobs
    <2> HIDE DEF b, h, t
    <2> QED BY ONLY <1>5, <1>6, <2>1
  <1>9. records[t].ok \in BOOLEAN BY <1>4, RecordFacts DEF IInv, Records
  <1>10. (jobs[b][h].status = "COMPLETED") = records[t].ok BY <1>8, <1>9
  <1>11. client' = [client EXCEPT ![c] = r] BY DEF WaitGets
  <1>12. r \in ClientCalls BY <1>3 DEF ClientCalls
  <1>13. r.pc = "feedback" /\ r.task = t /\ r.success = records[t].ok BY <1>10
  <1> HIDE DEF r
  <1>14. client'[c] = r BY <1>11 DEF IInv, TypeOK
  <1>15. ClientOK(c)' BY <1>1, <1>4, <1>13, <1>14 DEF ClientOK
  <1> QED BY <1>1, <1>11, <1>12, <1>15, CallStep

\* The wait returns.
LEMMA ReturnStep ==
    ASSUME IInv, NEW c \in Clients, WaitReturns(c) PROVE IInv'
  <1>1. UNCHANGED <<jobs, queue, stop, worker, records, owner>> BY DEF WaitReturns, workerVars
  <1>2. client' = [client EXCEPT ![c] = Idle] /\ Idle \in ClientCalls
    BY DEF WaitReturns, ClientCalls
  <1>3. client'[c] = Idle BY <1>2 DEF IInv, TypeOK
  <1>4. ClientOK(c)' BY <1>3 DEF ClientOK, Idle
  <1> QED BY <1>1, <1>2, <1>4, CallStep

-----------------------------------------------------------------------------
(* The destructor.                                                          *)

\* Of the scheduler, only the owner and what it stops or wakes change.
LEMMA OwnerMoves ==
    ASSUME IInv, Destroy \/ OwnerStep PROVE IInv'
  <1> USE DEF IInv
  <1>1. UNCHANGED <<jobs, queue, records, client>>
    BY DEF Destroy, OwnerStep, DestroyStop, DestroyNotify, DestroyJoin, workerVars, schedVars
  <1>2. RecordsOK' /\ \A c \in Clients : ClientOK(c)' BY <1>1, CallsKept
  <1>3. owner' \in [pc : {"alive", "stop", "notify", "join", "gone"}, next : Nat]
    BY DEF TypeOK, Destroy, OwnerStep, DestroyStop, DestroyNotify, DestroyJoin
  <1>4. CASE Destroy
    <2>1. UNCHANGED <<stop, worker>> /\ owner.pc = "alive" BY <1>4 DEF Destroy, workerVars
    <2>2. TypeOK' /\ \A b \in Backends : WorkerOK(b)' BY <1>1, <1>3, <2>1, SameWorker DEF TypeOK
    <2>3. StopOK' BY <2>1 DEF StopOK
    <2> QED BY <1>2, <2>2, <2>3
  <1>5. CASE DestroyJoin
    <2>1. UNCHANGED <<stop, worker>> /\ owner'.pc # "alive" BY <1>5 DEF DestroyJoin, workerVars
    <2>2. TypeOK' /\ \A b \in Backends : WorkerOK(b)' BY <1>1, <1>3, <2>1, SameWorker DEF TypeOK
    <2>3. StopOK' BY <2>1 DEF StopOK
    <2> QED BY <1>2, <2>2, <2>3
  <1>6. CASE DestroyStop
    <2>1. UNCHANGED worker /\ owner' = [owner EXCEPT !.pc = "notify"] /\ owner.pc = "stop"
      BY <1>6 DEF DestroyStop
    <2>2. stop' \in [Backends -> BOOLEAN] /\ \A b \in Backends : stop[b] => stop'[b]
      BY <1>6 DEF DestroyStop, TypeOK
    <2>3. TypeOK' /\ \A b \in Backends : WorkerOK(b)' BY <1>1, <1>3, <2>1, <2>2, SameWorker DEF TypeOK
    <2>4. owner'.pc # "alive" BY <1>6 DEF DestroyStop, TypeOK
    <2>5. StopOK' BY <2>4 DEF StopOK
    <2> QED BY <1>2, <2>3, <2>5
  <1>7. CASE DestroyNotify
    <2>1. UNCHANGED stop /\ worker' = [worker EXCEPT ![Victim] = Woken(@)]
      BY <1>7 DEF DestroyNotify
    <2>2. worker \in [Backends -> WorkerThreads] BY DEF TypeOK, WorkerThreads
    <2>3. \A b \in Backends : worker'[b] = worker[b] \/ worker'[b] = Woken(worker[b])
      BY <2>1, <2>2
    <2>4. worker' \in [Backends -> WorkerThreads] BY <2>1, <2>2, WokenFacts
    <2>5. ASSUME NEW b \in Backends PROVE WorkerOK(b)'
      <3>1. CASE worker'[b] = worker[b] BY <1>1, <2>1, <3>1, SameWorker
      <3>2. CASE worker'[b] # worker[b]
        <4>1. worker[b].pc = "asleep" /\ worker'[b].pc = "lock" BY <2>2, <2>3, <3>2, WokenFacts
        <4> QED BY <1>1, <4>1, ThreadMoves
      <3> QED BY <3>1, <3>2
    <2>6. TypeOK' BY <1>1, <1>3, <2>1, <2>4 DEF TypeOK, WorkerThreads
    <2>7. owner'.pc # "alive" BY <1>7 DEF DestroyNotify, TypeOK
    <2>8. StopOK' BY <2>7 DEF StopOK
    <2> QED BY <1>2, <2>5, <2>6, <2>8
  <1> QED BY <1>4, <1>5, <1>6, <1>7 DEF OwnerStep

-----------------------------------------------------------------------------
(* The theorems.                                                            *)

\* Every step of the scheduler, its workers and its clients keeps the
\* invariant.
LEMMA NextIInv == IInv /\ [Next]_vars => IInv'
  <1> SUFFICES ASSUME IInv, [Next]_vars PROVE IInv' OBVIOUS
  <1>1. CASE UNCHANGED vars
    BY <1>1 DEF vars, workerVars, schedVars, IInv, TypeOK, StopOK, RecordsOK, WorkerOK, ClientOK, IsJob
  <1>2. ASSUME NEW b \in Backends, WorkerStep(b) PROVE IInv'
    BY <1>2, RestStep, TakeStep, RunStep, NotifyStep DEF WorkerStep
  <1>3. ASSUME NEW c \in Clients, ClientStep(c) PROVE IInv'
    BY <1>3, RecordStep, SleepStep, GetStep, ReturnStep DEF ClientStep
  <1>4. ASSUME NEW c \in Clients, NEW w \in Workloads, NEW ok \in BOOLEAN,
               schedule(c, w, ok) \/ \E b \in Backends : scheduleToBackend(c, w, b, ok)
        PROVE  IInv'
    <2>1. PICK b \in Backends : submit(c, b, ok)
      BY <1>4, EvaluateFacts DEF schedule, scheduleToBackend
    <2> QED BY <2>1, SubmitStep
  <1>5. ASSUME NEW c \in Clients, NEW h \in DOMAIN records, wait(c, h) PROVE IInv'
    BY <1>5, WaitStep
  <1>6. CASE Destroy \/ OwnerStep BY <1>6, OwnerMoves
  <1> QED BY <1>1, <1>2, <1>3, <1>4, <1>5, <1>6 DEF Next

\* The queue, the statuses and the thread of every worker agree, and records
\* and waiting clients stand for jobs of their worker, in every state of
\* AdaptiveScheduler and of CPUWorker, VulkanWorker and CUDAWorker.
THEOREM Invariance == Spec => []IInv
  <1>1. Init => IInv BY InitIInv
  <1>2. IInv /\ [Next]_vars => IInv' BY NextIInv
  <1> QED BY <1>1, <1>2, PTL DEF Spec

\* AdaptiveScheduler::wait returns the result of the workload whose handle it
\* was given, though handles of different workers overlap and a worker may
\* run a job before submitToWorker has a record of it.
THEOREM WaitsAreForOwnTask == Spec => []ResultOfOwnTask
  <1>1. IInv => ResultOfOwnTask BY DEF IInv, ClientOK, ResultOfOwnTask
  <1> QED BY <1>1, Invariance, PTL

\* workerLoop, submit and the destructor lose no job and run none twice: a job
\* that is not finished is in the queue once or with the thread, and a thread
\* that has left has left none.
THEOREM JobsAreKept == Spec => []NoJobLost
  <1>1. ASSUME IInv, NEW b \in Backends, NEW h \in DOMAIN jobs[b]
        PROVE  LET places == {i \in DOMAIN queue[b] : queue[b][i] = h} IN
               /\ worker[b].pc = "exited" => jobs[b][h].status \in Final
               /\ CASE jobs[b][h].status = "QUEUED"  -> Cardinality(places) = 1
                    [] jobs[b][h].status = "RUNNING" -> places = {} /\ worker[b].handle = h
                                                        /\ worker[b].pc = "run"
                    [] OTHER -> places = {} /\ jobs[b][h].status \in Final
    <2> DEFINE places == {i \in DOMAIN queue[b] : queue[b][i] = h}
               s == jobs[b][h].status
    <2>1. WorkerOK(b) BY <1>1 DEF IInv
    <2>2. jobs[b] \in Seq(Jobs) /\ h \in 1..Len(jobs[b]) BY <1>1 DEF IInv, TypeOK
    <2>3. s \in {"QUEUED", "RUNNING", "COMPLETED", "FAILED"}
      <3>1. jobs[b][h] \in Jobs BY <2>2, ElementOfSeq
      <3> QED BY <3>1 DEF Jobs
    <2>4. s # "QUEUED" => places = {} BY <2>1 DEF WorkerOK
    <2>5. s = "RUNNING" => worker[b].handle = h /\ worker[b].pc = "run" BY <2>1 DEF WorkerOK
    <2>6. ASSUME s = "QUEUED" PROVE Cardinality(places) = 1
      <3>1. PICK i \in DOMAIN queue[b] : queue[b][i] = h BY <2>1, <2>6 DEF WorkerOK
      <3>2. places = {i} BY <2>1, <3>1 DEF WorkerOK
      <3> QED BY <3>2, FS_Singleton
    <2>7. worker[b].pc = "exited" => s \notin {"QUEUED", "RUNNING"} BY <2>1 DEF WorkerOK
    <2> HIDE DEF places, s
    <2>8. /\ worker[b].pc = "exited" => s \in Final
          /\ CASE s = "QUEUED"  -> Cardinality(places) = 1
               [] s = "RUNNING" -> places = {} /\ worker[b].handle = h /\ worker[b].pc = "run"
               [] OTHER -> places = {} /\ s \in Final
      BY <2>3, <2>4, <2>5, <2>6, <2>7 DEF Final
    <2> QED BY <2>8 DEF places, s
  <1>2. IInv => NoJobLost BY <1>1 DEF NoJobLost
  <1> QED BY <1>2, Invariance, PTL
=============================================================================
