---------------------------- MODULE VulkanClients ----------------------------
(***************************************************************************)
(* The two kinds of owner of a VulkanBackend:                              *)
(*   "adapter"  orchestration/HydroXLVulkanEngineAdapter, through          *)
(*              VulkanTensorOps, from its construction to its destructor;  *)
(*   "host"     a backend of its own under model/VulkanAcceleratorMemory   *)
(*              and benchmark/VectorAddBenchmark.                          *)
(* Calls of an adapter exclude each other (mu_); initialize is taken       *)
(* upload by upload and run_stream operation by operation, since each one  *)
(* may fail, and leaves its transient buffers to the next one.             *)
(* EngineOrchestrator destroys an adapter whose initialize fails; one that *)
(* is ready may be initialized again.  Logits, tokens and text are left    *)
(* out: see HydroXLEngine.                                                 *)
(***************************************************************************)
EXTENDS VulkanTensorOps

CONSTANTS
    DeviceLists,    \* what vkEnumeratePhysicalDevices may list
    Models,         \* records [layers, embd, q, kv, ff, vocab] of sizes
    MaxSeq,         \* min(n_ctx_max, 2048)
    MaxPrompt,      \* bound: tokens of a prompt
    MaxNew,         \* max_new_tokens
    Sizes,          \* sizes that the host asks for
    Budget,         \* budget_ of VulkanAcceleratorMemory
    MaxGrowth,      \* bound: buffers that a call of run_stream may make
    MaxHostId,      \* bound: buffers of a host's backend
    MaxId           \* bound: buffers of an adapter's backend

\* Qwen2HParams::isValid and HydroXLKVCache::allocate reject a 0.
ASSUME ModelsAssumption ==
    Models \subseteq [layers : Nat, embd : Nat \ {0}, q : Nat \ {0}, kv : Nat \ {0}, ff : Nat \ {0},
                      vocab : Nat \ {0}]

\* Lengths and keys are unsigned.
ASSUME HostAssumption == Sizes \subseteq Nat /\ MaxHostId \in Nat

VARIABLES
    client,     \* whose backend it is, or "gone"
    t,          \* VulkanTensorOps; of a host, only its vk is used
    is_ready,   \* is_ready_ of the adapter, with the model it has; or {}
    loading,    \* the initialize that uploads: its model and next weight; or {}
    tried,      \* the backend has been initialized
    call,       \* the run_stream in progress, or NoCall
    acc         \* VulkanAcceleratorMemory: buffers_ and used_

clientVars == <<client, t, is_ready, loading, tried, call, acc>>

NoCall == [at |-> 0, pos |-> 0, prompt |-> 0, new |-> 0]
NoAcc == [buffers |-> <<>>, used |-> 0]

ClientInit ==
    /\ client = "gone" /\ t = NoOps /\ is_ready = {} /\ loading = {} /\ tried = FALSE
    /\ call = NoCall /\ acc = NoAcc

-----------------------------------------------------------------------------
(* HydroXLVulkanEngineAdapter.                                              *)

Tensor(l, x, n) == [name |-> <<x, l>>, n |-> n]

\* The weights that initialize uploads, in order.  Their sizes are cast to 32
\* bits, which is no change below 2^32 floats.
Weights(m) ==
    LET Layer(l) == <<Tensor(l, "attn_norm", m.embd), Tensor(l, "attn_q", m.q * m.embd),
                      Tensor(l, "attn_k", m.kv * m.embd), Tensor(l, "attn_v", m.kv * m.embd),
                      Tensor(l, "attn_output", m.embd * m.q), Tensor(l, "ffn_norm", m.embd),
                      Tensor(l, "ffn_gate", m.ff * m.embd), Tensor(l, "ffn_up", m.ff * m.embd),
                      Tensor(l, "ffn_down", m.embd * m.ff)>>
        Outer == <<Tensor(0, "output_norm", m.embd), Tensor(0, "output.weight", m.vocab * m.embd)>>
    IN  [i \in 1..2 + 9 * m.layers |-> IF i <= 2 THEN Outer[i] ELSE Layer(((i - 3) \div 9) + 1)[((i - 3) % 9) + 1]]

\* One operation of forward_token on the device.
Norm(l, w, n) == [op |-> "rmsnorm", w |-> <<w, l>>, m |-> n, k |-> n]
Mul(l, w, m, k) == [op |-> "matvec", w |-> <<w, l>>, m |-> m, k |-> k]
Elem(n) == [op |-> "elemwise", w |-> <<"", 0>>, m |-> n, k |-> n]
\* writeKV and causal_attention, on the CPU.
Attend == [op |-> "attend", w |-> <<"", 0>>, m |-> 0, k |-> 0]
\* embed_lookup, on the CPU.
Embed == [op |-> "embed", w |-> <<"", 0>>, m |-> 0, k |-> 0]

\* forward_token.
forward_token(m) ==
    LET Layer(l) == <<Norm(l, "attn_norm", m.embd), Mul(l, "attn_q", m.q, m.embd), Mul(l, "attn_k", m.kv, m.embd),
                      Mul(l, "attn_v", m.kv, m.embd), Attend, Mul(l, "attn_output", m.embd, m.q), Elem(m.embd),
                      Norm(l, "ffn_norm", m.embd), Mul(l, "ffn_gate", m.ff, m.embd), Mul(l, "ffn_up", m.ff, m.embd),
                      Elem(m.ff), Mul(l, "ffn_down", m.embd, m.ff), Elem(m.embd)>>
        Outer == <<Norm(0, "output_norm", m.embd), Mul(0, "output.weight", m.vocab, m.embd)>>
        last == 1 + 13 * m.layers
    IN  [i \in 1..last + 2 |-> IF i = 1 THEN Embed ELSE IF i > last THEN Outer[i - last]
                               ELSE Layer(((i - 2) \div 13) + 1)[((i - 2) % 13) + 1]]

\* The constructor.
Construct(who) ==
    /\ client = "gone"
    /\ client' = who /\ t' = NoOps /\ acc' = NoAcc /\ tried' = FALSE
    /\ UNCHANGED <<is_ready, loading, call>>

\* initialize: Vulkan cannot be had, and what there is of it stays.
InitializeFails(devices) ==
    /\ client = "adapter" /\ ~tried
    /\ \E o \in opsInitialize(t, devices) : ~o.ok /\ t' = o.t
    /\ tried' = TRUE
    /\ UNCHANGED <<client, is_ready, loading, call, acc>>

\* initialize: the model or its cache fails, or the uploads begin.
InitializeModel(devices, m) ==
    /\ client = "adapter" /\ call = NoCall /\ loading = {} /\ (~tried \/ is_ready # {})
    /\ t.vk.next + Len(Weights(m)) <= MaxId
    /\ \E v \in {o \in opsInitialize(t, devices) : o.ok} :
          \/ t' = opsShutdown(v.t) /\ is_ready' = {} /\ UNCHANGED loading
          \/ t' = v.t /\ loading' = {[model |-> m, next |-> 1]} /\ UNCHANGED is_ready
    /\ tried' = TRUE
    /\ UNCHANGED <<client, call, acc>>

\* Its uploads, one by one: a failure shuts Vulkan down.
UploadWeight ==
    /\ \E x \in loading :
          /\ x.next \in DOMAIN Weights(x.model)
          /\ \E o \in uploadTensor(t, Weights(x.model)[x.next].name, Weights(x.model)[x.next].n) :
                \/ o.ok /\ t' = o.t /\ loading' = {[x EXCEPT !.next = @ + 1]} /\ UNCHANGED is_ready
                \/ ~o.ok /\ t' = opsShutdown(o.t) /\ loading' = {} /\ is_ready' = {}
    /\ UNCHANGED <<client, tried, call, acc>>

\* All of them are there.
InitializeDone ==
    /\ \E x \in loading : x.next = Len(Weights(x.model)) + 1 /\ is_ready' = {x.model}
    /\ loading' = {}
    /\ UNCHANGED <<client, t, tried, call, acc>>

\* run_stream on a ready engine.
run_stream(prompt) ==
    /\ is_ready # {} /\ loading = {} /\ call = NoCall /\ t.vk.next + MaxGrowth <= MaxId
    /\ call' = [at |-> 1, pos |-> 0, prompt |-> prompt, new |-> 0]
    /\ UNCHANGED <<client, t, is_ready, loading, tried, acc>>

\* The outcomes of an operation of forward_token.  A token outside the
\* vocabulary has no embedding, a position outside the cache no place, and
\* causal_attention may refuse what it is given.
Outcomes(x) ==
    CASE x.op = "embed" -> {[t |-> t, ok |-> TRUE], [t |-> t, ok |-> call.pos >= call.prompt]}
      [] x.op = "attend" -> {[t |-> t, ok |-> call.pos < MaxSeq], [t |-> t, ok |-> FALSE]}
      [] x.op = "rmsnorm" -> rmsnorm(t, x.w, x.m)
      [] x.op = "matvec" -> matvecHost(t, x.w, x.m, x.k)
      [] x.op = "elemwise" -> elemwise(t, x.m)

Operation ==
    /\ \E m \in is_ready :
          /\ call.at \in DOMAIN forward_token(m)
          /\ \E o \in Outcomes(forward_token(m)[call.at]) :
                /\ t' = o.t
                /\ call' = IF o.ok THEN [call EXCEPT !.at = @ + 1] ELSE NoCall
    /\ UNCHANGED <<client, is_ready, loading, tried, acc>>

\* The logits of a token are there: the next token of the prompt, or one
\* more sampled, unless the call is over (its number of tokens, the cache,
\* the end of the text, the callback).
Token ==
    LET next == [call EXCEPT !.at = 1, !.pos = @ + 1]
        sampled == [next EXCEPT !.new = @ + 1]
    IN  /\ \E m \in is_ready : call.at = Len(forward_token(m)) + 1
        /\ \/ next.pos < call.prompt /\ call' = next
           \/ next.pos >= call.prompt /\ call.new < MaxNew /\ next.pos < MaxSeq /\ call' = sampled
           \/ next.pos >= call.prompt /\ call' = NoCall
        /\ UNCHANGED <<client, t, is_ready, loading, tried, acc>>

\* shutdown, from the destructor.
DestroyAdapter ==
    /\ client = "adapter" /\ call = NoCall /\ loading = {}
    /\ client' = "gone" /\ t' = opsShutdown(t) /\ is_ready' = {}
    /\ UNCHANGED <<loading, tried, call, acc>>

-----------------------------------------------------------------------------
(* The host: VulkanAcceleratorMemory and VectorAddBenchmark.                *)

Host(v) == t' = [t EXCEPT !.vk = v] /\ UNCHANGED <<client, is_ready, loading, call>>

HostInitialize(devices) ==
    /\ client = "host" /\ ~tried
    /\ \E o \in initialize(t.vk, devices) : Host(o.v)
    /\ tried' = TRUE /\ UNCHANGED acc

\* VulkanAcceleratorMemory::allocate.  The key is the smallest that is free:
\* next_key_ only ever makes new ones.
allocate(key, n) ==
    /\ key \notin DOMAIN acc.buffers /\ \A j \in 1..key - 1 : j \in DOMAIN acc.buffers
    /\ client = "host" /\ t.vk.available /\ n # 0 /\ acc.used + n <= Budget /\ t.vk.next <= MaxHostId
    /\ \E c \in createBuffer(t.vk, n) :
          /\ Host(c.v)
          /\ acc' = IF c.id = 0 THEN acc
                    ELSE [buffers |-> [k \in DOMAIN acc.buffers \cup {key} |->
                                          IF k = key THEN [id |-> c.id, n |-> n] ELSE acc.buffers[k]],
                          used |-> acc.used + n]
    /\ UNCHANGED tried

\* VulkanAcceleratorMemory::release.
release(k) ==
    /\ client = "host" /\ k \in DOMAIN acc.buffers
    /\ Host(destroyBuffer(t.vk, acc.buffers[k].id))
    /\ acc' = [buffers |-> [j \in DOMAIN acc.buffers \ {k} |-> acc.buffers[j]],
               used |-> IF acc.used >= acc.buffers[k].n THEN acc.used - acc.buffers[k].n ELSE 0]
    /\ UNCHANGED tried

\* VulkanAcceleratorMemory::upload.
upload(k, n) ==
    /\ client = "host" /\ k \in DOMAIN acc.buffers /\ t.vk.available
    /\ \E o \in uploadBytes(t.vk, acc.buffers[k].id, n) : Host(o.v)
    /\ UNCHANGED <<acc, tried>>

\* Three buffers of n elements: the backend and their ids, 0 for a failure.
Create(v, n) ==
    UNION {UNION {{[v |-> c.v, ids |-> <<a.id, b.id, c.id>>] : c \in createBuffer(b.v, n)} :
                     b \in createBuffer(a.v, n)} : a \in createBuffer(v, n)}

Gone(v, ids) == destroyBuffer(destroyBuffer(destroyBuffer(v, ids[1]), ids[2]), ids[3])

\* VectorAddBenchmark::run for one size: two uploads, the addition and a
\* download, as far as they go, then the buffers.
Added(v, ids) ==
    LET Ok(outcomes, Rest(_)) == UNION {IF o.ok THEN Rest(o.v) ELSE {o} : o \in outcomes}
        n == v.buffers[ids[1]]
        loaded == Ok(uploadBytes(v, ids[1], n), LAMBDA w : uploadBytes(w, ids[2], n))
    IN  Ok(Ok(loaded, LAMBDA w : executeVectorAdd(w, {ids[1], ids[2], ids[3]})), LAMBDA w : download(w, ids[3]))

VectorAddBenchmark(n) ==
    /\ client = "host" /\ t.vk.available /\ t.vk.next + 3 <= MaxHostId
    /\ \E c \in Create(t.vk, n) :
          IF 0 \in {c.ids[1], c.ids[2], c.ids[3]} THEN Host(Gone(c.v, c.ids))
          ELSE \E o \in Added(c.v, c.ids) : Host(Gone(o.v, c.ids))
    /\ UNCHANGED <<acc, tried>>

\* The destructors of VulkanAcceleratorMemory and of the backend.
DestroyHost ==
    /\ client = "host"
    /\ client' = "gone" /\ acc' = NoAcc
    /\ t' = [t EXCEPT !.vk = shutdown(destroyBuffers(@, {acc.buffers[k].id : k \in DOMAIN acc.buffers}))]
    /\ UNCHANGED <<is_ready, loading, tried, call>>

ClientNext ==
    \/ \E who \in {"adapter", "host"} : Construct(who)
    \/ \E d \in DeviceLists : InitializeFails(d) \/ HostInitialize(d) \/ \E m \in Models : InitializeModel(d, m)
    \/ \E p \in 1..MaxPrompt : run_stream(p)
    \/ UploadWeight \/ InitializeDone \/ Operation \/ Token \/ DestroyAdapter
    \/ \E n \in Sizes : VectorAddBenchmark(n) \/ \E key \in 1..MaxHostId : allocate(key, n)
    \/ \E k \in DOMAIN acc.buffers : release(k) \/ \E n \in Sizes : upload(k, n)
    \/ DestroyHost

ClientSpec == ClientInit /\ [][ClientNext]_clientVars

-----------------------------------------------------------------------------
(* Properties.                                                              *)

\* The elements of all buffers of a VulkanAcceleratorMemory.
Used(buffers) ==
    LET total[k \in 0..MaxHostId] ==
            IF k = 0 THEN 0 ELSE total[k - 1] + (IF k \in DOMAIN buffers THEN buffers[k].n ELSE 0)
    IN  total[MaxHostId]

Layouts == {"dsl", "pll"} \X {Pipelines[i] : i \in DOMAIN Pipelines}

\* Whatever call of Vulkan failed, and where: between two operations the
\* objects that exist are those that members and buffers_ name, every buffer
\* has an owner, and a client that is gone leaves nothing.  Nothing else is
\* destroyed twice than the layouts of a pipeline that failed to load.
HandlesOwned ==
    LET ids == {t.tensors[x].id : x \in DOMAIN t.tensors}
               \cup {t.tmp[s].id : s \in DOMAIN t.tmp} \cup {acc.buffers[k].id : k \in DOMAIN acc.buffers}
    IN  /\ t.vk.live = t.held \cup t.vk.held \cup UNION {BufferObjects(i) : i \in DOMAIN t.vk.buffers}
        /\ DOMAIN t.vk.buffers = ids \ {0}
        /\ client = "gone" => t.vk.live = {}
        /\ acc.used = Used(acc.buffers)
        /\ t.vk.twice \subseteq Layouts

\* A dispatch binds, of the buffers it could get, only such as hold all the
\* elements its shader goes through, though three transient buffers serve
\* every operation and grow, or fail to, on the way.
DispatchFits == \A b \in t.bound : b.id # 0 => b.size >= b.n
=============================================================================
