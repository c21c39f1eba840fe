---------------------------- MODULE VulkanBackend ----------------------------
(***************************************************************************)
(* src/gpu/VulkanBackend: the Vulkan objects it makes and destroys, on     *)
(* every path of every operation.  An operator takes the state v of a      *)
(* backend and returns the set of its outcomes, a call of Vulkan being     *)
(* free to fail.                                                           *)
(*                                                                         *)
(* A Vulkan object is a pair of its kind and its owner or buffer id.       *)
(*   v.live      objects made and not destroyed                            *)
(*   v.held      members of the backend that are not VK_NULL_HANDLE        *)
(*   v.buffers   buffers_: id -> elements; the size Vulkan requires of the *)
(*               memory is taken to be the size asked for                  *)
(*   v.next      nextBufferId_                                             *)
(*   v.memory    what findMemoryType finds on the device, "none" at worst  *)
(*   v.twice     objects destroyed when they were not live                 *)
(***************************************************************************)
EXTENDS Integers, Sequences, FiniteSets, SequencesExt

\* A default-constructed VulkanBackend.
NoBackend == [live |-> {}, held |-> {}, buffers |-> <<>>, next |-> 1,
              available |-> FALSE, memory |-> "none", twice |-> {}]

Own(kind) == <<kind, "backend">>
BufferObjects(id) == {<<"buffer", id>>, <<"memory", id>>}

Destroy(v, H) == [v EXCEPT !.live = @ \ H, !.twice = @ \cup (H \ v.live)]

\* fail().
fail(v) == [v EXCEPT !.available = FALSE]

-----------------------------------------------------------------------------
(* A script is the sequence of the calls of Vulkan that an operation makes *)
(* before its last one: which object a call makes, and which ones the      *)
(* operation destroys before it returns because the call failed.           *)

Step(h, undo) == [make |-> h, undo |-> undo]

Made(script, k) == {script[i].make : i \in 1..k}

Attempt(v, script) ==
    {[v |-> Destroy([v EXCEPT !.live = @ \cup Made(script, k)],
                    IF k < Len(script) THEN script[k + 1].undo ELSE {}),
      made |-> Made(script, k),
      ok |-> k = Len(script)] : k \in 0..Len(script)}

-----------------------------------------------------------------------------
(* initialize().                                                            *)

\* rankDeviceType.
rankDeviceType(type) ==
    CASE type = "discrete" -> 3 [] type = "integrated" -> 2 [] type = "virtual" -> 1 [] OTHER -> 0

\* A queue family for a device: one for computing only, before any other.
\* Families are sets of capabilities; 0 stands for none.
QueueFamily(d) ==
    LET First(Good(_)) == SelectInSeq(d.families, Good)
        only == First(LAMBDA f : "compute" \in f /\ "graphics" \notin f)
    IN  IF only # 0 THEN only ELSE First(LAMBDA f : "compute" \in f)

\* selectPhysicalDevice: the first device of the highest rank among those
\* that compute; 0 if there is none.
selectPhysicalDevice(devices) ==
    SelectInSeq(devices, LAMBDA d :
        /\ QueueFamily(d) # 0
        /\ \A i \in DOMAIN devices :
              QueueFamily(devices[i]) # 0 => rankDeviceType(devices[i].type) <= rankDeviceType(d.type))

\* loadShaderAndCreatePipeline: the shader module goes on every path.
PipelineScript ==
    LET shader == {Own("shader")} IN
    <<Step(Own("shader"), {}), Step(Own("dsl"), shader), Step(Own("pll"), shader),
      Step(Own("pipeline"), shader)>>

\* Objects the backend keeps in its members, in the order they are made.
CoreScript == <<Step(Own("instance"), {}), Step(Own("device"), {}), Step(Own("commandPool"), {})>>

\* An operation that failed: what it had put into members stays there.
Partly(o) == [v |-> fail([o.v EXCEPT !.held = @ \cup (o.made \ {Own("shader")})]), ok |-> FALSE]

\* initialize: without a device nothing but the instance is made.  The shader
\* module is gone before createDescriptorInfrastructure makes the pool.
initialize(v, devices) ==
    LET chosen == selectPhysicalDevice(devices)
        all == CoreScript \o PipelineScript \o <<Step(Own("pool"), {Own("shader")})>>
        outcomes == Attempt(v, IF chosen = 0 THEN SubSeq(all, 1, 1) ELSE all)
        Done(o) == [o.v EXCEPT !.held = @ \cup (o.made \ {Own("shader")}), !.available = TRUE,
                               !.memory = devices[chosen].memory,
                               !.live = @ \ {Own("shader")}]
    IN  {IF o.ok /\ chosen # 0 THEN [v |-> Done(o), ok |-> TRUE] ELSE Partly(o) : o \in outcomes}

\* shutdown, which is the destructor too.
shutdown(v) ==
    [Destroy(v, v.held \cup UNION {BufferObjects(id) : id \in DOMAIN v.buffers})
        EXCEPT !.held = {}, !.buffers = <<>>, !.available = FALSE]

-----------------------------------------------------------------------------
(* Buffers.                                                                 *)

\* Mutant: a failed allocation of the memory leaves the VkBuffer.
createBufferLeaks(v, n) ==
    LET h == <<"buffer", v.next>> IN
    {[v |-> fail(v), id |-> 0], [v |-> fail([v EXCEPT !.live = @ \cup {h}]), id |-> 0]} \cup
    (IF n = 0 \/ v.memory = "none" THEN {}
     ELSE {[v |-> [v EXCEPT !.live = @ \cup BufferObjects(v.next), !.next = @ + 1,
                            !.buffers = [i \in DOMAIN @ \cup {v.next} |-> IF i = v.next THEN n ELSE @[i]]],
            id |-> v.next]})

\* createBuffer: id 0 on failure.  A size of 0, no memory type, or Vulkan
\* out of memory fail, and make the backend unavailable.
createBuffer(v, n) ==
    LET buffer == <<"buffer", v.next>>
        script == <<Step(buffer, {}), Step(<<"memory", v.next>>, {buffer})>>
        Enter(w) == [w EXCEPT !.next = @ + 1,
                              !.buffers = [i \in DOMAIN @ \cup {v.next} |-> IF i = v.next THEN n ELSE @[i]]]
    IN  IF n = 0 THEN {[v |-> fail(v), id |-> 0]}
        ELSE {IF o.ok /\ v.memory # "none" THEN [v |-> Enter(o.v), id |-> v.next]
              ELSE [v |-> fail(IF o.ok THEN Destroy(o.v, o.made) ELSE o.v), id |-> 0] : o \in Attempt(v, script)}

\* destroyBuffer: nothing for an unknown id.
destroyBuffer(v, id) ==
    IF id \notin DOMAIN v.buffers THEN v
    ELSE [Destroy(v, BufferObjects(id)) EXCEPT !.buffers = [i \in DOMAIN @ \ {id} |-> @[i]]]

\* destroyBuffer for several, as the owners of buffers call it in their destructors.
destroyBuffers(v, ids) ==
    LET known == ids \cap DOMAIN v.buffers
    IN  [Destroy(v, UNION {BufferObjects(i) : i \in known})
            EXCEPT !.buffers = [i \in DOMAIN @ \ known |-> @[i]]]

\* The copy through a staging buffer, with copyBuffer.  Everything made for
\* it is destroyed in the end.
copyBuffer(v) ==
    LET s == Own("staging")
        m == Own("stagingMemory")
        script == <<Step(s, {}), Step(m, {s}), Step(Own("cmd"), {s, m})>>
    IN  {[v |-> IF o.ok THEN Destroy(o.v, o.made) ELSE fail(o.v), ok |-> o.ok] : o \in Attempt(v, script)}

\* The transfer proper: mapped memory, or a copy on a discrete device.
Transfer(v) ==
    IF v.memory = "local" THEN copyBuffer(v)
    ELSE {[v |-> v, ok |-> TRUE], [v |-> fail(v), ok |-> FALSE]}

\* uploadBytes, and upload.
uploadBytes(v, id, n) ==
    IF n = 0 \/ id \notin DOMAIN v.buffers THEN {[v |-> fail(v), ok |-> FALSE]}
    ELSE IF n > v.buffers[id] THEN {[v |-> fail(v), ok |-> FALSE]}
    ELSE Transfer(v)

\* download: the size is not compared with the buffer's.
download(v, id) ==
    IF id \notin DOMAIN v.buffers THEN {[v |-> fail(v), ok |-> FALSE]} ELSE Transfer(v)

\* executeVectorAdd: the pool has room for one descriptor set, so that a set
\* needs the previous one back.  Whether the queue takes the work or not,
\* set, command buffer and fence go.
executeVectorAdd(v, ids) ==
    LET set == Own("set")
        script == <<Step(set, {}), Step(Own("cmd"), {set})>>
        Over(o) == Destroy(o.v, o.made)
    IN  IF ids \ DOMAIN v.buffers # {} \/ set \in v.live THEN {[v |-> fail(v), ok |-> FALSE]}
        ELSE UNION {IF o.ok THEN {[v |-> Over(o), ok |-> TRUE], [v |-> fail(Over(o)), ok |-> FALSE]}
                    ELSE {[v |-> fail(o.v), ok |-> FALSE]} : o \in Attempt(v, script)}
=============================================================================
