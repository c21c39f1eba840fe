-------------------------- MODULE HardwareDetector --------------------------
(***************************************************************************)
(* src/orchestration/HardwareDetector.cpp: the registry of devices that    *)
(* the orchestrator and the memory estimator read.  An inventory is what   *)
(* the probes of src/hardware report:                                      *)
(*   [cpu: vendor, free: bytes of RAM,                                     *)
(*    vulkan, dxgi: sequences of [vendor, vram, compute]].                 *)
(* CUDA is compiled out: no build file defines HETEROACCEL_CUDA_ENABLED.   *)
(* Names, queue counts and driver versions are left out.                   *)
(***************************************************************************)
EXTENDS Integers, Sequences

NoDevice == [api |-> {}, vendor |-> "Unknown", vram |-> 0, vulkan_ok |-> FALSE]

CpuDevice(inv) == [NoDevice EXCEPT !.api = {"CPU"}, !.vendor = inv.cpu]

VulkanDevice(d) ==
    [api |-> {"Vulkan"}, vendor |-> d.vendor, vram |-> d.vram, vulkan_ok |-> d.compute]

DxgiDevice(d) == [NoDevice EXCEPT !.vendor = d.vendor, !.vram = d.vram]

\* Vulkan devices first; DXGI is asked only when Vulkan found none.
Gpus(inv) ==
    IF inv.vulkan # <<>>
    THEN [i \in DOMAIN inv.vulkan |-> VulkanDevice(inv.vulkan[i])]
    ELSE [i \in DOMAIN inv.dxgi |-> DxgiDevice(inv.dxgi[i])]

detect(inv) ==
    [devices    |-> <<CpuDevice(inv)>> \o Gpus(inv),
     has_vulkan |-> \E i \in DOMAIN Gpus(inv) : Gpus(inv)[i].vulkan_ok,
     has_cuda   |-> FALSE,
     free       |-> inv.free]

available_system_ram(hw) == hw.free

\* A device that only reports the CPU interface is not a GPU.
IsGpu(d) ==
    /\ d.api # {"CPU"}
    /\ d.api \cap {"Vulkan", "CUDA"} # {} \/ d.vulkan_ok \/ d.vram > 0

\* The first of the GPUs with most memory, NoDevice for a null pointer.
best_gpu(hw) ==
    LET gpus == {i \in DOMAIN hw.devices : IsGpu(hw.devices[i])}
        vram(i) == hw.devices[i].vram
        Best(i) == \A j \in gpus : vram(j) < vram(i) \/ (vram(j) = vram(i) /\ i <= j)
    IN  IF gpus = {} THEN NoDevice
        ELSE hw.devices[CHOOSE i \in gpus : Best(i)]
=============================================================================
