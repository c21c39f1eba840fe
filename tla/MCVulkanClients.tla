--------------------------- MODULE MCVulkanClients ---------------------------
(* Small instances of VulkanClients.                                        *)
EXTENDS VulkanClients

Device(type, families, memory) == [type |-> type, families |-> families, memory |-> memory]
Both == {"compute", "graphics"}

\* A laptop, a desktop whose first device cannot compute, and a machine
\* without a device that can.
MCDeviceLists ==
    {<<Device("integrated", <<Both>>, "unified")>>,
     <<Device("other", <<{"graphics"}>>, "none"), Device("virtual", <<Both>>, "none"),
       Device("discrete", <<Both, {"compute"}>>, "local")>>,
     <<Device("discrete", <<{"graphics"}>>, "local")>>,
     <<Device("virtual", <<{"compute"}>>, "none")>>}

\* Two models of different widths.
MCModels ==
    {[layers |-> 1, embd |-> 1, q |-> 2, kv |-> 1, ff |-> 3, vocab |-> 2],
     [layers |-> 1, embd |-> 2, q |-> 2, kv |-> 1, ff |-> 3, vocab |-> 4]}
=============================================================================
