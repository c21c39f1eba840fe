--------------------------- MODULE VulkanTensorOps ---------------------------
(***************************************************************************)
(* src/hydroxl/VulkanTensorOps: pipelines, named tensors and the three     *)
(* transient buffers that the operations with host arguments share.        *)
(*                                                                         *)
(*   t.vk       the VulkanBackend                                          *)
(*   t.ready, t.device    ready_; device_ is not VK_NULL_HANDLE            *)
(*   t.held     pipelines, their layouts and the pool that are not null    *)
(*   t.tensors  tensors_: name -> buffer id and elements                   *)
(*   t.tmp      tmp_x_, tmp_out_, tmp_b_ with the elements noted for them  *)
(*   t.bound    the buffers bound by the last dispatch, with the elements  *)
(*              its shader goes through                                    *)
(* An operator returns the set of its outcomes [t, ok].                    *)
(***************************************************************************)
EXTENDS VulkanBackend

Pipelines == <<"matvec", "rmsnorm", "elemwise", "softmax">>
NoBuffer == [id |-> 0, n |-> 0]

\* A default-constructed VulkanTensorOps.
NoOps == [vk |-> NoBackend, ready |-> FALSE, device |-> FALSE, held |-> {}, tensors |-> <<>>,
          tmp |-> [s \in {"x", "out", "b"} |-> NoBuffer], bound |-> {}]

On(t, o) == [t |-> [t EXCEPT !.vk = o.v], ok |-> o.ok]

\* What comes after an operation that succeeded.
Then(outcomes, Rest(_)) == UNION {IF o.ok THEN Rest(o.t) ELSE {o} : o \in outcomes}

Pool == <<"pool", "ops">>

\* shutdown.  What a failed loadPipeline has already destroyed is destroyed
\* again here: its out parameters still hold the handles.
opsShutdown(t) ==
    LET ids == {t.tmp[s].id : s \in DOMAIN t.tmp} \cup {t.tensors[x].id : x \in DOMAIN t.tensors}
        cleared == destroyBuffers(Destroy(t.vk, t.held), ids)
    IN  IF t.device THEN [NoOps EXCEPT !.vk = shutdown(cleared), !.bound = t.bound]
        ELSE [t EXCEPT !.vk = shutdown(@), !.ready = FALSE]

\* loadPipeline.
loadPipeline(t, p) ==
    LET sh == <<"shader", p>>
        dsl == <<"dsl", p>>
        pll == <<"pll", p>>
        script == <<Step(sh, {}), Step(dsl, {sh}), Step(pll, {dsl, sh}), Step(<<"pipeline", p>>, {sh, pll, dsl})>>
    IN  {[t |-> [t EXCEPT !.vk = IF o.ok THEN Destroy(o.v, {sh}) ELSE o.v,
                          !.held = @ \cup (o.made \ {sh})],
          ok |-> o.ok] : o \in Attempt(t.vk, script)}

\* The four pipelines in turn; a failure shuts everything down.
loadPipelines(t) ==
    LET Load(k, u) == {IF o.ok THEN o ELSE [t |-> opsShutdown(o.t), ok |-> FALSE] : o \in loadPipeline(u, Pipelines[k])}
        First(u) == Load(1, u)
        Second(u) == Then(First(u), LAMBDA w : Load(2, w))
        Third(u) == Then(Second(u), LAMBDA w : Load(3, w))
    IN  Then(Third(t), LAMBDA w : Load(4, w))

\* initialize.  A backend or a descriptor pool that cannot be made is left
\* as it is, for shutdown.
opsInitialize(t, devices) ==
    LET pool(u) == {[t |-> [u EXCEPT !.vk.live = @ \cup {Pool}, !.held = @ \cup {Pool}], ok |-> TRUE],
                    [t |-> u, ok |-> FALSE]}
        backend == {On(t, o) : o \in initialize(t.vk, devices)}
    IN  IF t.ready THEN {[t |-> t, ok |-> TRUE]}
        ELSE {IF o.ok THEN [t |-> [o.t EXCEPT !.ready = TRUE], ok |-> TRUE] ELSE o :
                 o \in Then(Then(backend, LAMBDA u : pool([u EXCEPT !.device = TRUE])), loadPipelines)}

-----------------------------------------------------------------------------
(* Buffers.                                                                 *)

\* uploadTensor: into the buffer of the tensor, if it has the size, else
\* into a new one.
uploadTensor(t, name, n) ==
    LET has == name \in DOMAIN t.tensors
        Erase(u) == [u EXCEPT !.vk = destroyBuffer(@, t.tensors[name].id),
                              !.tensors = [x \in DOMAIN @ \ {name} |-> @[x]]]
        before == IF has THEN Erase(t) ELSE t
        Enter(u, id) == [u EXCEPT !.tensors = [x \in DOMAIN @ \cup {name} |->
                                                  IF x = name THEN [id |-> id, n |-> n] ELSE @[x]]]
        Fill(c) == {IF o.ok THEN [t |-> Enter([before EXCEPT !.vk = o.v], c.id), ok |-> TRUE]
                    ELSE [t |-> [before EXCEPT !.vk = destroyBuffer(o.v, c.id)], ok |-> FALSE] :
                        o \in uploadBytes(c.v, c.id, n)}
    IN  IF ~t.ready \/ n = 0 THEN {[t |-> t, ok |-> FALSE]}
        ELSE IF has /\ t.tensors[name].n = n
        THEN {On(t, o) : o \in uploadBytes(t.vk, t.tensors[name].id, n)}
        ELSE UNION {IF c.id = 0 THEN {[t |-> [before EXCEPT !.vk = c.v], ok |-> FALSE]} ELSE Fill(c) :
                       c \in createBuffer(before.vk, n)}

\* Mutant: a transient buffer serves again whatever its size.
ensureBlind(t, s, n) ==
    IF t.tmp[s].id # 0 THEN {[t |-> t, ok |-> TRUE]}
    ELSE {[t |-> [t EXCEPT !.vk = c.v, !.tmp[s] = [id |-> c.id, n |-> n]], ok |-> TRUE] : c \in createBuffer(t.vk, n)}

\* A transient buffer for n elements.  If it cannot be made, n is noted
\* all the same and the id is 0.
ensure(t, s, n) ==
    IF t.tmp[s].id # 0 /\ t.tmp[s].n >= n THEN {[t |-> t, ok |-> TRUE]}
    ELSE {[t |-> [t EXCEPT !.vk = c.v, !.tmp[s] = [id |-> c.id, n |-> n]], ok |-> TRUE] :
             c \in createBuffer(destroyBuffer(t.vk, t.tmp[s].id), n)}

Upload(t, s, n) == {On(t, o) : o \in uploadBytes(t.vk, t.tmp[s].id, n)}
Download(t, s) == {On(t, o) : o \in download(t.vk, t.tmp[s].id)}

\* getVkBuffer: VK_NULL_HANDLE, here 0, for a buffer the backend lacks.
getVkBuffer(t, id) == IF id \in DOMAIN t.vk.buffers THEN id ELSE 0

-----------------------------------------------------------------------------
(* Operations.                                                              *)

\* runPipeline.  From the allocation of the descriptor set on, every path
\* resets the pool.
runPipeline(t, bindings) ==
    LET set == <<"set", "ops">>
        script == <<Step(set, {}), Step(<<"cmd", "ops">>, {set})>>
        Bind(v) == [t EXCEPT !.vk = v, !.bound = bindings]
        Over(o) == Bind(Destroy(o.v, o.made))
    IN  IF ~t.ready THEN {[t |-> t, ok |-> FALSE]}
        ELSE UNION {IF o.ok THEN {[t |-> Over(o), ok |-> TRUE], [t |-> Over(o), ok |-> FALSE]}
                    ELSE {[t |-> IF o.made = {} THEN t ELSE Bind(o.v), ok |-> FALSE]} :
                       o \in Attempt(t.vk, script)}

\* A buffer to bind, its size, and the elements the shader goes through.
Binding(t, id, n) ==
    LET b == getVkBuffer(t, id) IN [id |-> b, size |-> IF b = 0 THEN 0 ELSE t.vk.buffers[b], n |-> n]

\* matvec, which alone refuses to bind VK_NULL_HANDLE.
matvec(t, A, m, k) ==
    LET bindings == {Binding(t, t.tensors[A].id, m * k), Binding(t, t.tmp["x"].id, k),
                     Binding(t, t.tmp["out"].id, m)}
    IN  IF A \notin DOMAIN t.tensors THEN {[t |-> t, ok |-> FALSE]}
        ELSE IF \E b \in bindings : b.id = 0 THEN {[t |-> t, ok |-> FALSE]}
        ELSE runPipeline(t, bindings)

\* matvecHost.
matvecHost(t, A, m, k) ==
    LET buffers == Then(ensure(t, "x", k), LAMBDA u : ensure(u, "out", m))
        loaded == Then(buffers, LAMBDA u : Upload(u, "x", k))
    IN  Then(Then(loaded, LAMBDA u : matvec(u, A, m, k)), LAMBDA u : Download(u, "out"))

\* rmsnorm.
rmsnorm(t, weight, n) ==
    LET buffers == Then(ensure(t, "x", n), LAMBDA u : ensure(u, "out", n))
        loaded == Then(buffers, LAMBDA u : Upload(u, "x", n))
        Dispatch(u) == runPipeline(u, {Binding(u, u.tmp["x"].id, n), Binding(u, u.tensors[weight].id, n),
                                       Binding(u, u.tmp["out"].id, n)})
    IN  IF weight \notin DOMAIN t.tensors THEN {[t |-> t, ok |-> FALSE]}
        ELSE Then(Then(loaded, Dispatch), LAMBDA u : Download(u, "out"))

\* elemwise.
elemwise(t, n) ==
    LET buffers == Then(Then(ensure(t, "x", n), LAMBDA u : ensure(u, "b", n)), LAMBDA u : ensure(u, "out", n))
        loaded == Then(Then(buffers, LAMBDA u : Upload(u, "x", n)), LAMBDA u : Upload(u, "b", n))
        Dispatch(u) == runPipeline(u, {Binding(u, u.tmp[s].id, n) : s \in {"x", "b", "out"}})
    IN  Then(Then(loaded, Dispatch), LAMBDA u : Download(u, "out"))
=============================================================================
