--------------------------- MODULE ModelResidency ---------------------------
(***************************************************************************)
(* src/model/ModelResidencyManager.cpp over HostAcceleratorMemory.cpp: the *)
(* residency of model regions, file -> RAM -> accelerator, within a RAM    *)
(* budget and the accelerator's capacity, with LRU eviction and pins.      *)
(*                                                                         *)
(* Every public operation holds mutex_ from beginning to end, across the   *)
(* file read and the upload.  The operation in progress is `call'; its     *)
(* internal steps are separate actions so that each exit the code takes is *)
(* one, and an operation starts only when call.pc = "idle".                *)
(*                                                                         *)
(* Left out: telemetry that is only counted (reads, evictions, hits,       *)
(* failures), `prefetched' and `refs' (written or tested but never both),  *)
(* error texts, and zero-size regions, which are refused before any state  *)
(* changes.  Region ids are the non-zero ids of GGUFRegionExtractor, so    *)
(* the victim id 0 of pickLruLocked means "no victim" and nothing else.    *)
(***************************************************************************)
EXTENDS Integers, FiniteSets

CONSTANTS
    Regions,        \* the regions of the model file
    Bytes,          \* Bytes[S]: the total size of the set S of regions
    RamBudget,      \* budget_.ram_bytes
    AccelCapacity,  \* HostAcceleratorMemory::capacity_
    MaxPins         \* bound: pins held on one region

(***************************************************************************)
(* Bytes is characterised, not computed: additive over sets of regions.    *)
(***************************************************************************)
ASSUME ConstAssumption ==
    /\ IsFiniteSet(Regions)
    /\ Bytes \in [SUBSET Regions -> Nat]
    /\ Bytes[{}] = 0
    /\ \A S \in SUBSET Regions : \A r \in Regions \ S :
          Bytes[S \cup {r}] = Bytes[S] + Bytes[{r}]
    /\ \A r \in Regions : Bytes[{r}] > 0
    /\ RamBudget \in Nat
    /\ AccelCapacity \in Nat
    /\ MaxPins \in Nat

Size(r) == Bytes[{r}]

VARIABLES
    present,        \* the keys of records_
    state,          \* Record::state
    ram,            \* the regions whose Record::ram is not null
    accel,          \* the regions whose Record::accel is not null
    pins,           \* Record::pins
    lastUsed,       \* Record::last_used as a rank; 0 is the default time_point
    transferring,   \* the regions whose Record::transferring is true
    ramBytes,       \* telemetry_.resident_ram_bytes
    accelBytes,     \* telemetry_.resident_accelerator_bytes
    peakRam,        \* telemetry_.peak_ram_bytes
    accelUsed,      \* HostAcceleratorMemory::used_
    call            \* the ensureResident or prefetch that holds mutex_

recordVars == <<present, state, ram, accel, pins, lastUsed, transferring>>
byteVars   == <<ramBytes, accelBytes, peakRam, accelUsed>>
vars       == <<recordVars, byteVars, call>>

-----------------------------------------------------------------------------
(* Types.  The enumerator EVICTING exists in the code but is never stored.  *)

Targets        == {"RAM", "ACCELERATOR"}
ResidentStates == {"RESIDENT_IN_RAM", "RESIDENT_IN_ACCELERATOR"}
States         == ResidentStates \cup
                  {"NOT_RESIDENT", "LOADING_TO_RAM", "LOADING_TO_ACCELERATOR", "ERROR"}
Pcs            == {"idle", "load", "ramRoom", "read", "upload", "accelRoom", "copy"}
Calls          == [pc : Pcs, region : Regions, target : Targets, ok : BOOLEAN]

TypeOK ==
    /\ present \in SUBSET Regions
    /\ state \in [Regions -> States]
    /\ ram \in SUBSET Regions
    /\ accel \in SUBSET Regions
    /\ pins \in [Regions -> Nat]
    /\ lastUsed \in [Regions -> Nat]
    /\ transferring \in SUBSET Regions
    /\ ramBytes \in Nat
    /\ accelBytes \in Nat
    /\ peakRam \in Nat
    /\ accelUsed \in Nat
    /\ call \in Calls

-----------------------------------------------------------------------------
(* Helpers.                                                                 *)

AtTarget(r, target) ==
    state[r] \in (IF target = "RAM" THEN ResidentStates
                                    ELSE {"RESIDENT_IN_ACCELERATOR"})

\* last_used = now(): r becomes the most recently used record.
Touch(r) ==
    [x \in Regions |->
        IF x = r THEN Cardinality({y \in Regions : lastUsed[y] > 0} \cup {r})
        ELSE IF lastUsed[r] > 0 /\ lastUsed[x] > lastUsed[r] THEN lastUsed[x] - 1
        ELSE lastUsed[x]]

\* The record of r is erased: it no longer has a rank.
Forget(r) ==
    [x \in Regions |->
        IF x = r THEN 0
        ELSE IF lastUsed[r] > 0 /\ lastUsed[x] > lastUsed[r] THEN lastUsed[x] - 1
        ELSE lastUsed[x]]

\* Mutant: a region in RAM qualifies as a victim on the accelerator.
EvictableAnywhere(target, skip) ==
    {r \in present \ {skip} :
        pins[r] = 0 /\ r \notin transferring /\ AtTarget(r, "RAM")}

\* The records pickLruLocked looks at.
Evictable(target, skip) ==
    {r \in present \ {skip} :
        pins[r] = 0 /\ r \notin transferring /\ AtTarget(r, target)}

\* The least recently used of them; records that were never stamped share
\* the default time_point and are taken in the hash map's order, which is
\* any order.
pickLruLocked(target, skip) ==
    {v \in Evictable(target, skip) :
        \A w \in Evictable(target, skip) : lastUsed[v] <= lastUsed[w]}

Sub(a, b) == IF a >= b THEN a - b ELSE 0

At(pc)      == call.pc = pc
Goto(pc)    == call' = [call EXCEPT !.pc = pc]
Return(ok)  == call' = [call EXCEPT !.pc = "idle", !.ok = ok]

-----------------------------------------------------------------------------
Init ==
    /\ present = {}
    /\ state = [r \in Regions |-> "NOT_RESIDENT"]
    /\ ram = {}
    /\ accel = {}
    /\ pins = [r \in Regions |-> 0]
    /\ lastUsed = [r \in Regions |-> 0]
    /\ transferring = {}
    /\ ramBytes = 0 /\ accelBytes = 0 /\ peakRam = 0 /\ accelUsed = 0
    /\ call \in [pc : {"idle"}, region : Regions, target : {"RAM"}, ok : {FALSE}]

-----------------------------------------------------------------------------
(* ensureResident and prefetch.                                             *)

\* ensureResident of a region already at its target: stamp it and return.
EnsureHit(r, target) ==
    /\ At("idle")
    /\ AtTarget(r, target)
    /\ lastUsed' = Touch(r)
    /\ call' = [pc |-> "idle", region |-> r, target |-> target, ok |-> TRUE]
    /\ UNCHANGED <<present, state, ram, accel, pins, transferring, byteVars>>

\* prefetch of such a region returns without stamping it.
PrefetchHit(r, target) ==
    /\ At("idle")
    /\ AtTarget(r, target)
    /\ call' = [pc |-> "idle", region |-> r, target |-> target, ok |-> TRUE]
    /\ UNCHANGED <<recordVars, byteVars>>

\* getOrCreateLocked, then the first step still to do.  The early return for
\* a transferring record is not an action: no record is transferring while
\* mutex_ is free (NoTransferAtRest).
Begin(r, target) ==
    /\ At("idle")
    /\ ~AtTarget(r, target)
    /\ present' = present \cup {r}
    /\ call' = [pc |-> IF state[r] \in ResidentStates THEN "upload" ELSE "load",
                region |-> r, target |-> target, ok |-> FALSE]
    /\ UNCHANGED <<state, ram, accel, pins, lastUsed, transferring, byteVars>>

\* loadToRamLocked: the cancel flag is read first.
LoadCancelled ==
    /\ At("load")
    /\ Return(FALSE)
    /\ UNCHANGED <<recordVars, byteVars>>

LoadStart ==
    /\ At("load")
    /\ Goto("ramRoom")
    /\ UNCHANGED <<recordVars, byteVars>>

RamFits == ramBytes + Size(call.region) <= RamBudget

\* Mutant: resident_ram_bytes is not given back.
EraseLeaks(v) ==
    /\ present' = present \ {v}
    /\ state' = [state EXCEPT ![v] = "NOT_RESIDENT"]
    /\ pins' = [pins EXCEPT ![v] = 0]
    /\ lastUsed' = Forget(v)
    /\ accel' = accel \ {v}
    /\ accelBytes' = IF v \in accel THEN Sub(accelBytes, Size(v)) ELSE accelBytes
    /\ accelUsed' = IF v \in accel THEN accelUsed - Size(v) ELSE accelUsed
    /\ ram' = ram \ {v}
    /\ UNCHANGED <<transferring, ramBytes, peakRam>>

\* evictLocked on a record that is neither pinned nor transferring.
Erase(v) ==
    /\ present' = present \ {v}
    /\ state' = [state EXCEPT ![v] = "NOT_RESIDENT"]
    /\ pins' = [pins EXCEPT ![v] = 0]
    /\ lastUsed' = Forget(v)
    /\ accel' = accel \ {v}
    /\ accelBytes' = IF v \in accel THEN Sub(accelBytes, Size(v)) ELSE accelBytes
    /\ accelUsed' = IF v \in accel THEN accelUsed - Size(v) ELSE accelUsed
    /\ ram' = ram \ {v}
    /\ ramBytes' = IF v \in ram THEN Sub(ramBytes, Size(v)) ELSE ramBytes
    /\ UNCHANGED <<transferring, peakRam>>

\* One iteration of makeRamRoomLocked.
RamRoomEvict ==
    /\ At("ramRoom")
    /\ ~RamFits
    /\ \E v \in pickLruLocked("RAM", call.region) : Erase(v)
    /\ UNCHANGED call

RamRoomExhausted ==
    /\ At("ramRoom")
    /\ ~RamFits
    /\ pickLruLocked("RAM", call.region) = {}
    /\ Return(FALSE)
    /\ UNCHANGED <<recordVars, byteVars>>

\* Mutant: RESIDENT is set before the read.
ReadStartEarly ==
    /\ At("ramRoom")
    /\ RamFits
    /\ state' = [state EXCEPT ![call.region] = "RESIDENT_IN_RAM"]
    /\ transferring' = transferring \cup {call.region}
    /\ Goto("read")
    /\ UNCHANGED <<present, ram, accel, pins, lastUsed, byteVars>>

\* There is room: the record is marked and the file is read.
ReadStart ==
    /\ At("ramRoom")
    /\ RamFits
    /\ state' = [state EXCEPT ![call.region] = "LOADING_TO_RAM"]
    /\ transferring' = transferring \cup {call.region}
    /\ Goto("read")
    /\ UNCHANGED <<present, ram, accel, pins, lastUsed, byteVars>>

\* No host buffer, an I/O error or a cancelled read.
ReadFails ==
    /\ At("read")
    /\ state' = [state EXCEPT ![call.region] = "ERROR"]
    /\ transferring' = transferring \ {call.region}
    /\ Return(FALSE)
    /\ UNCHANGED <<present, ram, accel, pins, lastUsed, byteVars>>

\* The buffer is stored; a call for RAM stamps the record and returns, one
\* for the accelerator goes on.
ReadDone ==
    /\ At("read")
    /\ ram' = ram \cup {call.region}
    /\ state' = [state EXCEPT ![call.region] = "RESIDENT_IN_RAM"]
    /\ transferring' = transferring \ {call.region}
    /\ ramBytes' = ramBytes + Size(call.region)
    /\ peakRam' = IF ramBytes' > peakRam THEN ramBytes' ELSE peakRam
    /\ \/ /\ call.target = "RAM"
          /\ lastUsed' = Touch(call.region)
          /\ Return(TRUE)
       \/ /\ call.target = "ACCELERATOR"
          /\ Goto("upload")
          /\ UNCHANGED lastUsed
    /\ UNCHANGED <<present, accel, pins, accelBytes, accelUsed>>

\* Mutant: falling back to RAM counts as success.
UploadRefusedOk ==
    /\ At("upload")
    /\ Return(TRUE)
    /\ UNCHANGED <<recordVars, byteVars>>

\* uploadLocked without an available accelerator, or cancelled: the region
\* stays in RAM and is not stamped.
UploadRefused ==
    /\ At("upload")
    /\ Return(FALSE)
    /\ UNCHANGED <<recordVars, byteVars>>

UploadStart ==
    /\ At("upload")
    /\ Goto("accelRoom")
    /\ UNCHANGED <<recordVars, byteVars>>

\* HostAcceleratorMemory::available() >= needed.
AccelFits == Sub(AccelCapacity, accelUsed) >= Size(call.region)

\* One iteration of makeAccelRoomLocked: the victim goes back to RAM.
AccelRoomDemote ==
    /\ At("accelRoom")
    /\ ~AccelFits
    /\ \E v \in pickLruLocked("ACCELERATOR", call.region) :
          IF v \in accel
          THEN /\ accel' = accel \ {v}
               /\ accelBytes' = Sub(accelBytes, Size(v))
               /\ accelUsed' = accelUsed - Size(v)
               /\ state' = [state EXCEPT ![v] = "RESIDENT_IN_RAM"]
          ELSE UNCHANGED <<accel, accelBytes, accelUsed, state>>
    /\ UNCHANGED <<present, ram, pins, lastUsed, transferring, ramBytes, peakRam, call>>

AccelRoomExhausted ==
    /\ At("accelRoom")
    /\ ~AccelFits
    /\ pickLruLocked("ACCELERATOR", call.region) = {}
    /\ Return(FALSE)
    /\ UNCHANGED <<recordVars, byteVars>>

\* The accelerator cannot give the memory after all: the record is put back
\* to RESIDENT_IN_RAM within the same step.
AllocateFails ==
    /\ At("accelRoom")
    /\ AccelFits
    /\ Return(FALSE)
    /\ UNCHANGED <<recordVars, byteVars>>

Allocate ==
    /\ At("accelRoom")
    /\ AccelFits
    /\ state' = [state EXCEPT ![call.region] = "LOADING_TO_ACCELERATOR"]
    /\ transferring' = transferring \cup {call.region}
    /\ accelUsed' = accelUsed + Size(call.region)
    /\ Goto("copy")
    /\ UNCHANGED <<present, ram, accel, pins, lastUsed, ramBytes, accelBytes, peakRam>>

\* The upload fails: the allocation is released, RAM residency is kept.
CopyFails ==
    /\ At("copy")
    /\ accelUsed' = accelUsed - Size(call.region)
    /\ state' = [state EXCEPT ![call.region] = "RESIDENT_IN_RAM"]
    /\ transferring' = transferring \ {call.region}
    /\ Return(FALSE)
    /\ UNCHANGED <<present, ram, accel, pins, lastUsed, ramBytes, accelBytes, peakRam>>

CopyDone ==
    /\ At("copy")
    /\ accel' = accel \cup {call.region}
    /\ state' = [state EXCEPT ![call.region] = "RESIDENT_IN_ACCELERATOR"]
    /\ transferring' = transferring \ {call.region}
    /\ accelBytes' = accelBytes + Size(call.region)
    /\ lastUsed' = Touch(call.region)
    /\ Return(TRUE)
    /\ UNCHANGED <<present, ram, pins, ramBytes, peakRam, accelUsed>>

-----------------------------------------------------------------------------
(* The operations that are one step.                                        *)

pin(r) ==
    /\ At("idle")
    /\ r \in present
    /\ pins[r] < MaxPins
    /\ pins' = [pins EXCEPT ![r] = @ + 1]
    /\ UNCHANGED <<present, state, ram, accel, lastUsed, transferring, byteVars, call>>

unpin(r) ==
    /\ At("idle")
    /\ r \in present
    /\ pins[r] > 0
    /\ pins' = [pins EXCEPT ![r] = @ - 1]
    /\ UNCHANGED <<present, state, ram, accel, lastUsed, transferring, byteVars, call>>

\* Mutant: evict ignores the pins.
evictPinned(r) ==
    /\ At("idle")
    /\ r \in present
    /\ r \notin transferring
    /\ Erase(r)
    /\ UNCHANGED call

\* evict: refused, without a change, for a pinned or transferring record.
evict(r) ==
    /\ At("idle")
    /\ r \in present
    /\ pins[r] = 0
    /\ r \notin transferring
    /\ Erase(r)
    /\ UNCHANGED call

\* releaseAll, also the destructor: everything goes, pinned or not.
releaseAll ==
    /\ At("idle")
    /\ present # {}
    /\ present' = {}
    /\ state' = [r \in Regions |-> "NOT_RESIDENT"]
    /\ ram' = {}
    /\ accel' = {}
    /\ pins' = [r \in Regions |-> 0]
    /\ lastUsed' = [r \in Regions |-> 0]
    /\ transferring' = {}
    /\ ramBytes' = 0
    /\ accelBytes' = 0
    /\ accelUsed' = accelUsed - Bytes[accel]
    /\ UNCHANGED <<peakRam, call>>

-----------------------------------------------------------------------------
Start ==
    \E r \in Regions, target \in Targets :
        EnsureHit(r, target) \/ PrefetchHit(r, target) \/ Begin(r, target)

Step ==
    \/ LoadCancelled \/ LoadStart
    \/ RamRoomEvict \/ RamRoomExhausted \/ ReadStart
    \/ ReadFails \/ ReadDone
    \/ UploadRefused \/ UploadStart
    \/ AccelRoomDemote \/ AccelRoomExhausted
    \/ AllocateFails \/ Allocate
    \/ CopyFails \/ CopyDone

Other ==
    \/ \E r \in Regions : pin(r) \/ unpin(r) \/ evict(r)
    \/ releaseAll

Next == Start \/ Step \/ Other

\* The thread that holds mutex_ runs on: nothing it does waits for another.
Fairness == WF_vars(Step)

Spec == Init /\ [][Next]_vars /\ Fairness
-----------------------------------------------------------------------------
(* Properties.                                                              *)

\* "RESIDENT_* is only set AFTER the actual copy/upload has completed": what
\* the state of a record says is what its buffers hold, on every error path
\* too, and a region without a record holds nothing.  isResident, ramPointer
\* and uploadLocked rely on it, and so does the termination of
\* makeAccelRoomLocked.
ResidencyHonest ==
    \A r \in Regions :
        /\ r \in ram <=>
              state[r] \in ResidentStates \cup {"LOADING_TO_ACCELERATOR"}
        /\ r \in accel <=> state[r] = "RESIDENT_IN_ACCELERATOR"
        /\ r \notin present => state[r] = "NOT_RESIDENT" /\ pins[r] = 0

\* The three byte counters agree with the buffers that exist; the
\* accelerator also counts the allocation an upload in progress has made.
Accounting ==
    /\ ramBytes = Bytes[ram]
    /\ accelBytes = Bytes[accel]
    /\ accelUsed = Bytes[accel \cup (IF At("copy") THEN {call.region} ELSE {})]

\* RAM never goes over the budget, not even at its peak, and the accelerator
\* never over its capacity, whatever is evicted, refused or fails between.
WithinBudget ==
    /\ ramBytes <= RamBudget
    /\ peakRam <= RamBudget
    /\ ramBytes <= peakRam
    /\ accelUsed <= AccelCapacity

\* A record is marked as transferring only while the call that transfers it
\* holds mutex_: no exit of loadToRamLocked or uploadLocked leaves the mark
\* behind, which would make every later call for the region fail.
NoTransferAtRest ==
    transferring = IF At("read") \/ At("copy") THEN {call.region} ELSE {}

\* "Pinned or actively-transferring regions are never evicted": no step but
\* releaseAll takes a buffer, in RAM or on the accelerator, from a pinned
\* region, or takes the RAM buffer an upload is copying from.
PinnedStay ==
    [][\A r \in Regions :
          \/ releaseAll
          \/ pins[r] > 0 \/ r \in transferring
                => (r \in ram => r \in ram') /\ (r \in accel => r \in accel')
      ]_vars

\* ensureResident and prefetch return true only with the region at the
\* requested target, even though making room may have evicted others.
GrantedMeansResident ==
    [][ call'.pc = "idle" /\ call'.ok /\ call' # call
          => AtTarget(call.region, call.target)' ]_vars

\* The manager implements the abstract cache: its evictions, refusals and
\* failures are drops, demotions or nothing at all for the callers.
Cache == INSTANCE ResidencyCache
            WITH inRam <- ram, onAccel <- accel,
                 held <- {r \in Regions : pins[r] > 0}

ImplementsCache == Cache!CacheSpec

\* Every call returns: the loops that make room end.
CallReturns == ~At("idle") ~> At("idle")
=============================================================================
