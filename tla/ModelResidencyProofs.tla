------------------------ MODULE ModelResidencyProofs ------------------------
(***************************************************************************)
(* Proofs about ModelResidency for every set of regions, sizes, budget and *)
(* capacity: its safety invariants, PinnedStay, GrantedMeansResident, and  *)
(* that it implements ResidencyCache.                                      *)
(***************************************************************************)
EXTENDS ModelResidency, FiniteSetTheorems, TLAPS

(* What the call in progress knows about its region.  The invariants of     *)
(* the component are not inductive without it: that a read fits the budget  *)
(* is decided before the read, and that an upload starts from RAM before    *)
(* room is made on the accelerator.                                         *)
CallConsistent ==
    /\ ~At("idle") => call.region \in present
    /\ At("load") \/ At("ramRoom") => state[call.region] \in {"NOT_RESIDENT", "ERROR"}
    /\ At("read") => state[call.region] = "LOADING_TO_RAM" /\ RamFits
    /\ At("upload") \/ At("accelRoom") =>
          state[call.region] = "RESIDENT_IN_RAM" /\ call.target = "ACCELERATOR"
    /\ At("copy") =>
          state[call.region] = "LOADING_TO_ACCELERATOR" /\ call.target = "ACCELERATOR"
    /\ \A r \in Regions :
          state[r] \in {"LOADING_TO_RAM", "LOADING_TO_ACCELERATOR"} => r \in transferring

IInv ==
    /\ TypeOK
    /\ ResidencyHonest
    /\ Accounting
    /\ WithinBudget
    /\ NoTransferAtRest
    /\ CallConsistent

-----------------------------------------------------------------------------
(* Bytes is additive.                                                       *)

\* The size of a region is a positive number.
LEMMA SizeType == ASSUME NEW r \in Regions PROVE Size(r) \in Nat /\ Size(r) > 0
  <1>1. {r} \in SUBSET Regions OBVIOUS
  <1> QED BY <1>1, ConstAssumption DEF Size

\* The total size of a set of regions is a natural number.
LEMMA BytesType == ASSUME NEW S \in SUBSET Regions PROVE Bytes[S] \in Nat
  BY ConstAssumption

\* Adding a new region adds its size.
LEMMA BytesAdd ==
    ASSUME NEW S \in SUBSET Regions, NEW r \in Regions, r \notin S
    PROVE  Bytes[S \cup {r}] = Bytes[S] + Size(r)
  BY ConstAssumption DEF Size

\* Taking a region away subtracts its size.
LEMMA BytesRemove ==
    ASSUME NEW S \in SUBSET Regions, NEW r \in S
    PROVE  Bytes[S \ {r}] = Bytes[S] - Size(r) /\ Bytes[S] >= Size(r)
  <1>1. (S \ {r}) \cup {r} = S OBVIOUS
  <1>2. S \ {r} \in SUBSET Regions /\ r \in Regions /\ r \notin S \ {r} OBVIOUS
  <1>3. Bytes[S] = Bytes[S \ {r}] + Size(r) BY <1>1, <1>2, BytesAdd
  <1> QED BY <1>2, <1>3, BytesType, SizeType

-----------------------------------------------------------------------------
(* Stamps stay natural numbers.                                             *)

\* Touch returns ranks.
LEMMA TouchType ==
    ASSUME lastUsed \in [Regions -> Nat], NEW r \in Regions
    PROVE  Touch(r) \in [Regions -> Nat]
  <1> DEFINE U == {y \in Regions : lastUsed[y] > 0} \cup {r}
  <1>1. U \in SUBSET Regions OBVIOUS
  <1>2. Cardinality(U) \in Nat
    BY <1>1, ConstAssumption, FS_Subset, FS_CardinalityType
  <1> HIDE DEF U
  <1>3. Touch(r) = [x \in Regions |->
            IF x = r THEN Cardinality(U)
            ELSE IF lastUsed[r] > 0 /\ lastUsed[x] > lastUsed[r] THEN lastUsed[x] - 1
            ELSE lastUsed[x]]
    BY DEF Touch, U
  <1> QED BY <1>2, <1>3

\* Forget returns ranks.
LEMMA ForgetType ==
    ASSUME lastUsed \in [Regions -> Nat], NEW r \in Regions
    PROVE  Forget(r) \in [Regions -> Nat]
  BY DEF Forget
-----------------------------------------------------------------------------
(* The initial states.                                                      *)

\* A new manager satisfies the inductive invariant.
LEMMA InitIInv == Init => IInv
  <1> SUFFICES ASSUME Init PROVE IInv OBVIOUS
  <1> USE DEF Init, At
  <1>1. call.pc = "idle" /\ call \in Calls BY DEF Calls, Pcs, Targets
  <1>2. TypeOK BY <1>1 DEF TypeOK, States, ResidentStates
  <1>3. ResidencyHonest BY DEF ResidencyHonest, ResidentStates
  <1>4. Accounting BY <1>1, ConstAssumption DEF Accounting
  <1>5. WithinBudget BY ConstAssumption DEF WithinBudget
  <1>6. NoTransferAtRest BY <1>1 DEF NoTransferAtRest
  <1>7. CallConsistent BY <1>1 DEF CallConsistent
  <1> QED BY <1>2, <1>3, <1>4, <1>5, <1>6, <1>7 DEF IInv

-----------------------------------------------------------------------------
(* Steps that change the call only, or the call and the stamps.             *)

\* A call that returns, fails or moves on without touching a record or a
\* byte counter preserves the invariant, if what it will rely on holds.
LEMMA CallOnly ==
    ASSUME IInv, call' \in Calls,
           UNCHANGED <<state, ram, accel, pins, transferring, byteVars>>,
           present \subseteq present', present' \in SUBSET Regions,
           lastUsed' \in [Regions -> Nat],
           ~At("read"), ~At("copy"), ~At("read")', ~At("copy")',
           ~At("idle")' => call'.region \in present',
           At("load")' \/ At("ramRoom")' =>
              state[call'.region] \in {"NOT_RESIDENT", "ERROR"},
           At("upload")' \/ At("accelRoom")' =>
              state[call'.region] = "RESIDENT_IN_RAM" /\ call'.target = "ACCELERATOR"
    PROVE  IInv'
  <1> USE DEF byteVars
  <1>1. TypeOK' BY DEF IInv, TypeOK
  <1>2. ResidencyHonest' BY DEF IInv, ResidencyHonest, TypeOK
  <1>3. Accounting' BY DEF IInv, Accounting
  <1>4. WithinBudget' BY DEF IInv, WithinBudget
  <1>5. NoTransferAtRest' BY DEF IInv, NoTransferAtRest
  <1>6. CallConsistent' BY DEF IInv, CallConsistent
  <1> QED BY <1>1, <1>2, <1>3, <1>4, <1>5, <1>6 DEF IInv

\* ensureResident or prefetch of a region at its target.
LEMMA HitStep ==
    ASSUME IInv, NEW r \in Regions, NEW target \in Targets,
           EnsureHit(r, target) \/ PrefetchHit(r, target)
    PROVE  IInv'
  <1>1. call' \in Calls /\ call'.pc = "idle"
    <2>1. call' = [pc |-> "idle", region |-> r, target |-> target, ok |-> TRUE]
      BY DEF EnsureHit, PrefetchHit
    <2> QED BY <2>1 DEF Calls, Pcs
  <1>2. lastUsed' \in [Regions -> Nat]
    BY TouchType DEF EnsureHit, PrefetchHit, IInv, TypeOK, recordVars
  <1>3. UNCHANGED <<present, state, ram, accel, pins, transferring, byteVars>>
    BY DEF EnsureHit, PrefetchHit, recordVars
  <1>4. At("idle") BY DEF EnsureHit, PrefetchHit
  <1>5. present' \in SUBSET Regions BY <1>3 DEF IInv, TypeOK
  <1> QED BY <1>1, <1>2, <1>3, <1>4, <1>5, CallOnly DEF At

\* The start of a call that has work to do.
LEMMA BeginStep ==
    ASSUME IInv, NEW r \in Regions, NEW target \in Targets, Begin(r, target)
    PROVE  IInv'
  <1>1. /\ call' \in Calls
        /\ call'.region = r /\ call'.target = target
        /\ call'.pc = IF state[r] \in ResidentStates THEN "upload" ELSE "load"
    BY DEF Begin, Calls, Pcs
  <1>2. At("idle") /\ transferring = {}
    BY DEF Begin, At, IInv, NoTransferAtRest
  <1>3. state[r] \in ResidentStates
          => state[r] = "RESIDENT_IN_RAM" /\ target = "ACCELERATOR"
    BY DEF Begin, AtTarget, ResidentStates, Targets
  <1>4. state[r] \notin ResidentStates => state[r] \in {"NOT_RESIDENT", "ERROR"}
    BY <1>2 DEF IInv, TypeOK, CallConsistent, States
  <1>5. /\ UNCHANGED <<state, ram, accel, pins, lastUsed, transferring, byteVars>>
        /\ present' = present \cup {r}
    BY DEF Begin
  <1>6. present' \in SUBSET Regions /\ lastUsed' \in [Regions -> Nat]
    BY <1>5 DEF IInv, TypeOK
  <1> QED BY <1>1, <1>2, <1>3, <1>4, <1>5, <1>6, CallOnly DEF At

\* The steps inside a call that change nothing but where it is.
LEMMA MoveStep ==
    ASSUME IInv,
           \/ LoadCancelled \/ LoadStart \/ RamRoomExhausted
           \/ UploadRefused \/ UploadStart \/ AccelRoomExhausted \/ AllocateFails
    PROVE  IInv'
  <1>1. UNCHANGED <<recordVars, byteVars>>
    BY DEF LoadCancelled, LoadStart, RamRoomExhausted, UploadRefused, UploadStart,
           AccelRoomExhausted, AllocateFails
  <1>2. \/ call.pc \in {"load", "ramRoom", "upload", "accelRoom"} /\ Return(FALSE)
        \/ call.pc = "load" /\ Goto("ramRoom")
        \/ call.pc = "upload" /\ Goto("accelRoom")
    BY DEF LoadCancelled, LoadStart, RamRoomExhausted, UploadRefused, UploadStart,
           AccelRoomExhausted, AllocateFails, At
  <1>3. call \in Calls BY DEF IInv, TypeOK
  <1>4. /\ call' \in Calls /\ call'.region = call.region /\ call'.target = call.target
        /\ call.pc \in {"load", "ramRoom", "upload", "accelRoom"}
        /\ \/ call'.pc = "idle"
           \/ call.pc = "load" /\ call'.pc = "ramRoom"
           \/ call.pc = "upload" /\ call'.pc = "accelRoom"
    BY <1>2, <1>3 DEF Return, Goto, Calls, Pcs
  <1>5. present' \in SUBSET Regions /\ lastUsed' \in [Regions -> Nat]
    BY <1>1 DEF IInv, TypeOK, recordVars
  <1> QED BY <1>1, <1>4, <1>5, CallOnly DEF At, IInv, CallConsistent, recordVars
-----------------------------------------------------------------------------
(* Eviction.                                                                *)

\* evictLocked keeps the invariant when it takes a record that the call in
\* progress is not working on.
LEMMA EraseStep ==
    ASSUME IInv, NEW v \in Regions, v \in present, v \notin transferring,
           At("idle") \/ (At("ramRoom") /\ v # call.region),
           Erase(v), UNCHANGED call
    PROVE  IInv'
  <1> USE DEF IInv
  <1>1. call.pc \in {"idle", "ramRoom"} /\ ~At("copy") /\ ~At("read")
    BY DEF At
  <1>2. ram \in SUBSET Regions /\ accel \in SUBSET Regions BY DEF TypeOK
  <1>3. Size(v) \in Nat BY SizeType
  <1>4. ramBytes' = Bytes[ram'] /\ ramBytes' \in Nat /\ ramBytes' <= ramBytes
    <2>1. CASE v \in ram
      <3>1. Bytes[ram \ {v}] = Bytes[ram] - Size(v) /\ Bytes[ram] >= Size(v)
        BY <1>2, <2>1, BytesRemove
      <3>2. ramBytes' = ramBytes - Size(v)
        BY <2>1, <3>1 DEF Erase, Sub, Accounting
      <3> QED BY <1>3, <3>1, <3>2 DEF Erase, Accounting, TypeOK
    <2>2. CASE v \notin ram
      <3>1. ram' = ram /\ ramBytes' = ramBytes BY <2>2 DEF Erase
      <3> QED BY <3>1 DEF Accounting, TypeOK
    <2> QED BY <2>1, <2>2
  <1>5. /\ accelBytes' = Bytes[accel'] /\ accelBytes' \in Nat
        /\ accelUsed' = Bytes[accel'] /\ accelUsed' \in Nat /\ accelUsed' <= accelUsed
    <2>0. accelUsed = Bytes[accel]
      <3>1. accel \cup {} = accel OBVIOUS
      <3> QED BY <1>1, <3>1 DEF Accounting
    <2>1. CASE v \in accel
      <3>1. Bytes[accel \ {v}] = Bytes[accel] - Size(v) /\ Bytes[accel] >= Size(v)
        BY <1>2, <2>1, BytesRemove
      <3>2. accelBytes' = accelBytes - Size(v) /\ accelUsed' = accelUsed - Size(v)
        BY <2>1, <3>1 DEF Erase, Sub, Accounting
      <3> QED BY <1>3, <2>0, <3>1, <3>2 DEF Erase, Accounting, TypeOK
    <2>2. CASE v \notin accel
      <3>1. accel' = accel /\ accelBytes' = accelBytes /\ accelUsed' = accelUsed
        BY <2>2 DEF Erase
      <3> QED BY <2>0, <3>1 DEF Accounting, TypeOK
    <2> QED BY <2>1, <2>2
  <1>6. lastUsed' \in [Regions -> Nat] BY ForgetType DEF Erase, TypeOK
  <1>7. TypeOK' BY <1>4, <1>5, <1>6 DEF Erase, TypeOK, States
  <1>8. ResidencyHonest'
    BY DEF Erase, ResidencyHonest, TypeOK, ResidentStates
  <1>9. Accounting'
    <2>1. accel' \cup {} = accel' OBVIOUS
    <2>2. ~At("copy")' BY <1>1 DEF At
    <2> QED BY <1>4, <1>5, <2>1, <2>2 DEF Accounting
  <1>10. WithinBudget'
    BY <1>4, <1>5, ConstAssumption DEF WithinBudget, Erase, TypeOK
  <1>11. NoTransferAtRest' BY DEF NoTransferAtRest, Erase, At
  <1>12. CallConsistent' BY <1>1 DEF CallConsistent, Erase, At, TypeOK
  <1> QED BY <1>7, <1>8, <1>9, <1>10, <1>11, <1>12

\* One iteration of makeRamRoomLocked.
LEMMA RamRoomEvictStep == ASSUME IInv, RamRoomEvict PROVE IInv'
  <1>1. PICK v \in pickLruLocked("RAM", call.region) : Erase(v)
    BY DEF RamRoomEvict
  <1>2. v \in present /\ v # call.region /\ v \notin transferring
    BY DEF pickLruLocked, Evictable
  <1>3. v \in Regions BY <1>2 DEF IInv, TypeOK
  <1> QED BY <1>1, <1>2, <1>3, EraseStep DEF RamRoomEvict

\* evict.
LEMMA EvictStep == ASSUME IInv, NEW r \in Regions, evict(r) PROVE IInv'
  BY EraseStep DEF evict

-----------------------------------------------------------------------------
(* Loading into RAM.                                                        *)

\* The record is marked: the room just found stays reserved, since nobody
\* else runs.
LEMMA ReadStartStep == ASSUME IInv, ReadStart PROVE IInv'
  <1> USE DEF IInv
  <1>1. call \in Calls /\ call.pc = "ramRoom" BY DEF ReadStart, At, TypeOK
  <1>2. /\ call' \in Calls /\ call'.pc = "read"
        /\ call'.region = call.region /\ call'.target = call.target
    BY <1>1 DEF ReadStart, Goto, Calls, Pcs
  <1>3. call.region \in Regions BY <1>1 DEF Calls
  <1>4. UNCHANGED <<present, ram, accel, pins, lastUsed, byteVars>> BY DEF ReadStart
  <1>5. state' = [state EXCEPT ![call.region] = "LOADING_TO_RAM"] BY DEF ReadStart
  <1>6. transferring = {} /\ transferring' = {call.region}
    BY <1>1 DEF ReadStart, NoTransferAtRest, At
  <1>7. TypeOK' BY <1>2, <1>3, <1>4, <1>5, <1>6 DEF TypeOK, States, byteVars
  <1>8. ResidencyHonest'
    BY <1>1, <1>3, <1>4, <1>5 DEF ResidencyHonest, TypeOK, CallConsistent, At, ResidentStates
  <1>9. Accounting' BY <1>1, <1>2, <1>4 DEF Accounting, At, byteVars
  <1>10. WithinBudget' BY <1>4 DEF WithinBudget, byteVars
  <1>11. NoTransferAtRest' BY <1>2, <1>6 DEF NoTransferAtRest, At
  <1>12. RamFits' BY <1>2, <1>4 DEF ReadStart, RamFits, byteVars
  <1>13. CallConsistent'
    BY <1>1, <1>2, <1>3, <1>4, <1>5, <1>6, <1>12 DEF CallConsistent, At, TypeOK
  <1> QED BY <1>7, <1>8, <1>9, <1>10, <1>11, <1>13

\* The read fails.
LEMMA ReadFailsStep == ASSUME IInv, ReadFails PROVE IInv'
  <1> USE DEF IInv
  <1>1. call \in Calls /\ call.pc = "read" BY DEF ReadFails, At, TypeOK
  <1>2. /\ call' \in Calls /\ call'.pc = "idle" /\ call'.region = call.region
    BY <1>1 DEF ReadFails, Return, Calls, Pcs
  <1>3. call.region \in Regions BY <1>1 DEF Calls
  <1>4. UNCHANGED <<present, ram, accel, pins, lastUsed, byteVars>> BY DEF ReadFails
  <1>5. state' = [state EXCEPT ![call.region] = "ERROR"] BY DEF ReadFails
  <1>6. transferring = {call.region} /\ transferring' = {}
    BY <1>1 DEF ReadFails, NoTransferAtRest, At
  <1>7. TypeOK' BY <1>2, <1>3, <1>4, <1>5, <1>6 DEF TypeOK, States, byteVars
  <1>8. ResidencyHonest'
    BY <1>1, <1>3, <1>4, <1>5 DEF ResidencyHonest, TypeOK, CallConsistent, At, ResidentStates
  <1>9. Accounting' BY <1>1, <1>2, <1>4 DEF Accounting, At, byteVars
  <1>10. WithinBudget' BY <1>4 DEF WithinBudget, byteVars
  <1>11. NoTransferAtRest' BY <1>2, <1>6 DEF NoTransferAtRest, At
  <1>12. CallConsistent'
    BY <1>1, <1>2, <1>3, <1>4, <1>5, <1>6 DEF CallConsistent, At, TypeOK
  <1> QED BY <1>7, <1>8, <1>9, <1>10, <1>11, <1>12
\* The read is done: the room reserved before it is used.
LEMMA ReadDoneStep == ASSUME IInv, ReadDone PROVE IInv'
  <1> USE DEF IInv
  <1>1. call \in Calls /\ call.pc = "read" BY DEF ReadDone, At, TypeOK
  <1>2. /\ call' \in Calls /\ call'.region = call.region /\ call'.target = call.target
        /\ \/ call'.pc = "idle" /\ call.target = "RAM"
           \/ call'.pc = "upload" /\ call.target = "ACCELERATOR"
    BY <1>1 DEF ReadDone, Return, Goto, Calls, Pcs
  <1>3. call.region \in Regions BY <1>1 DEF Calls
  <1>4. UNCHANGED <<present, accel, pins, accelBytes, accelUsed>> BY DEF ReadDone
  <1>5. /\ state' = [state EXCEPT ![call.region] = "RESIDENT_IN_RAM"]
        /\ ram' = ram \cup {call.region}
        /\ ramBytes' = ramBytes + Size(call.region)
        /\ peakRam' = IF ramBytes' > peakRam THEN ramBytes' ELSE peakRam
    BY DEF ReadDone
  <1>6. transferring = {call.region} /\ transferring' = {}
    BY <1>1 DEF ReadDone, NoTransferAtRest, At
  <1>7. Size(call.region) \in Nat BY <1>3, SizeType
  <1>8. state[call.region] = "LOADING_TO_RAM" /\ RamFits
    BY <1>1 DEF CallConsistent, At
  <1>9. call.region \notin ram /\ call.region \notin accel
    BY <1>3, <1>8 DEF ResidencyHonest, ResidentStates
  <1>10. lastUsed' \in [Regions -> Nat] BY <1>3, TouchType DEF ReadDone, TypeOK
  <1>11. TypeOK'
    <2>1. ramBytes' \in Nat /\ peakRam' \in Nat BY <1>5, <1>7 DEF TypeOK
    <2>2. ram' \in SUBSET Regions /\ state' \in [Regions -> States]
      BY <1>3, <1>5 DEF TypeOK, States, ResidentStates
    <2>3. accelBytes' \in Nat /\ accelUsed' \in Nat /\ pins' \in [Regions -> Nat]
          /\ present' \in SUBSET Regions /\ accel' \in SUBSET Regions
      BY <1>4 DEF TypeOK
    <2> QED BY <1>2, <1>6, <1>10, <2>1, <2>2, <2>3 DEF TypeOK
  <1>12. ResidencyHonest'
    <2>1. call.region \in present BY <1>1 DEF CallConsistent, At
    <2> QED BY <1>3, <1>4, <1>5, <1>9, <2>1 DEF ResidencyHonest, TypeOK, ResidentStates
  <1>13. Accounting'
    <2>1. ramBytes' = Bytes[ram'] BY <1>3, <1>5, <1>9, BytesAdd DEF Accounting, TypeOK
    <2>2. ~At("copy") /\ ~At("copy")' BY <1>1, <1>2 DEF At
    <2> QED BY <1>4, <2>1, <2>2 DEF Accounting
  <1>14. WithinBudget'
    BY <1>4, <1>5, <1>7, <1>8, ConstAssumption DEF WithinBudget, RamFits, TypeOK
  <1>15. NoTransferAtRest' BY <1>2, <1>6 DEF NoTransferAtRest, At
  <1>16. CallConsistent'
    BY <1>1, <1>2, <1>3, <1>4, <1>5, <1>6 DEF CallConsistent, At, TypeOK
  <1> QED BY <1>11, <1>12, <1>13, <1>14, <1>15, <1>16

-----------------------------------------------------------------------------
(* Uploading to the accelerator.                                            *)

\* One iteration of makeAccelRoomLocked.
LEMMA DemoteStep == ASSUME IInv, AccelRoomDemote PROVE IInv'
  <1> USE DEF IInv
  <1>0. call.pc = "accelRoom" /\ transferring = {}
    BY DEF AccelRoomDemote, At, NoTransferAtRest
  <1>1. PICK v \in pickLruLocked("ACCELERATOR", call.region) :
            IF v \in accel
            THEN /\ accel' = accel \ {v}
                 /\ accelBytes' = Sub(accelBytes, Size(v))
                 /\ accelUsed' = accelUsed - Size(v)
                 /\ state' = [state EXCEPT ![v] = "RESIDENT_IN_RAM"]
            ELSE UNCHANGED <<accel, accelBytes, accelUsed, state>>
    BY DEF AccelRoomDemote
  <1>2. v \in present /\ v # call.region /\ state[v] = "RESIDENT_IN_ACCELERATOR"
    BY DEF pickLruLocked, Evictable, AtTarget
  <1>3. v \in Regions BY <1>2 DEF TypeOK
  <1>4. v \in accel /\ v \in ram BY <1>2, <1>3 DEF ResidencyHonest, ResidentStates
  <1>5. /\ accel' = accel \ {v}
        /\ accelBytes' = Sub(accelBytes, Size(v))
        /\ accelUsed' = accelUsed - Size(v)
        /\ state' = [state EXCEPT ![v] = "RESIDENT_IN_RAM"]
    BY <1>1, <1>4
  <1>6. UNCHANGED <<present, ram, pins, lastUsed, transferring, ramBytes, peakRam, call>>
    BY DEF AccelRoomDemote
  <1>7. Bytes[accel \ {v}] = Bytes[accel] - Size(v) /\ Bytes[accel] >= Size(v) /\ Size(v) \in Nat
    BY <1>3, <1>4, BytesRemove, SizeType DEF TypeOK
  <1>8. accelUsed = Bytes[accel] /\ accelBytes = Bytes[accel]
    <2>1. accel \cup {} = accel OBVIOUS
    <2> QED BY <1>0, <2>1 DEF Accounting, At
  <1>9. accelBytes' = Bytes[accel'] /\ accelUsed' = Bytes[accel'] /\ accelUsed' <= accelUsed
    BY <1>5, <1>7, <1>8 DEF Sub, TypeOK
  <1>10. accelBytes' \in Nat /\ accelUsed' \in Nat
    BY <1>5, <1>9, BytesType DEF TypeOK
  <1>11. TypeOK' BY <1>3, <1>5, <1>6, <1>10 DEF TypeOK, States, ResidentStates
  <1>12. ResidencyHonest'
    BY <1>2, <1>3, <1>4, <1>5, <1>6 DEF ResidencyHonest, TypeOK, ResidentStates
  <1>13. Accounting'
    <2>1. accel' \cup {} = accel' OBVIOUS
    <2> QED BY <1>0, <1>6, <1>9, <2>1 DEF Accounting, At
  <1>14. WithinBudget'
    BY <1>6, <1>9, <1>10, ConstAssumption DEF WithinBudget, TypeOK
  <1>15. NoTransferAtRest' BY <1>6 DEF NoTransferAtRest, At
  <1>16. CallConsistent'
    BY <1>0, <1>2, <1>3, <1>5, <1>6 DEF CallConsistent, At, TypeOK
  <1> QED BY <1>11, <1>12, <1>13, <1>14, <1>15, <1>16

\* The accelerator gives the memory.
LEMMA AllocateStep == ASSUME IInv, Allocate PROVE IInv'
  <1> USE DEF IInv
  <1>1. call \in Calls /\ call.pc = "accelRoom" BY DEF Allocate, At, TypeOK
  <1>2. /\ call' \in Calls /\ call'.pc = "copy"
        /\ call'.region = call.region /\ call'.target = call.target
    BY <1>1 DEF Allocate, Goto, Calls, Pcs
  <1>3. call.region \in Regions /\ Size(call.region) \in Nat
    BY <1>1, SizeType DEF Calls
  <1>4. UNCHANGED <<present, ram, accel, pins, lastUsed, ramBytes, accelBytes, peakRam>>
    BY DEF Allocate
  <1>5. /\ state' = [state EXCEPT ![call.region] = "LOADING_TO_ACCELERATOR"]
        /\ accelUsed' = accelUsed + Size(call.region)
    BY DEF Allocate
  <1>6. transferring = {} /\ transferring' = {call.region}
    BY <1>1 DEF Allocate, NoTransferAtRest, At
  <1>7. state[call.region] = "RESIDENT_IN_RAM" /\ call.target = "ACCELERATOR"
    BY <1>1 DEF CallConsistent, At
  <1>8. call.region \in ram /\ call.region \notin accel /\ call.region \in present
    BY <1>1, <1>3, <1>7 DEF ResidencyHonest, ResidentStates, CallConsistent, At
  <1>9. accelUsed' = Bytes[accel' \cup {call.region}]
    <2>1. accel \cup {} = accel OBVIOUS
    <2>2. accelUsed = Bytes[accel] BY <1>1, <2>1 DEF Accounting, At
    <2> QED BY <1>3, <1>4, <1>5, <1>8, <2>2, BytesAdd DEF TypeOK
  <1>10. accelUsed' <= AccelCapacity
    BY <1>3, <1>5, ConstAssumption DEF Allocate, AccelFits, Sub, TypeOK, WithinBudget
  <1>11. TypeOK' BY <1>2, <1>3, <1>4, <1>5, <1>6 DEF TypeOK, States
  <1>12. ResidencyHonest'
    BY <1>3, <1>4, <1>5, <1>8 DEF ResidencyHonest, TypeOK, ResidentStates
  <1>13. Accounting' BY <1>2, <1>4, <1>9 DEF Accounting, At
  <1>14. WithinBudget' BY <1>4, <1>10 DEF WithinBudget
  <1>15. NoTransferAtRest' BY <1>2, <1>6 DEF NoTransferAtRest, At
  <1>16. CallConsistent'
    BY <1>1, <1>2, <1>3, <1>4, <1>5, <1>6, <1>7, <1>8 DEF CallConsistent, At, TypeOK
  <1> QED BY <1>11, <1>12, <1>13, <1>14, <1>15, <1>16

\* What CopyFails and CopyDone start from.
LEMMA AtCopy ==
    ASSUME IInv, At("copy")
    PROVE  /\ call.region \in Regions /\ Size(call.region) \in Nat
           /\ call.region \in ram /\ call.region \notin accel /\ call.region \in present
           /\ transferring = {call.region}
           /\ accelUsed = Bytes[accel] + Size(call.region)
           /\ accelBytes = Bytes[accel] /\ Bytes[accel] \in Nat
           /\ Bytes[accel \cup {call.region}] = Bytes[accel] + Size(call.region)
  <1> USE DEF IInv
  <1>1. call.region \in Regions BY DEF TypeOK, Calls
  <1>2. state[call.region] = "LOADING_TO_ACCELERATOR" BY DEF CallConsistent, At
  <1>3. call.region \in ram /\ call.region \notin accel
    BY <1>1, <1>2 DEF ResidencyHonest, ResidentStates
  <1>4. call.region \in present /\ transferring = {call.region}
    BY DEF CallConsistent, At, NoTransferAtRest
  <1>5. accelUsed = Bytes[accel \cup {call.region}] /\ accelBytes = Bytes[accel]
    BY DEF Accounting
  <1>6. accel \in SUBSET Regions BY DEF TypeOK
  <1>7. Bytes[accel \cup {call.region}] = Bytes[accel] + Size(call.region)
    BY <1>1, <1>3, <1>6, BytesAdd
  <1> QED BY <1>1, <1>3, <1>4, <1>5, <1>6, <1>7, BytesType, SizeType

\* The upload fails.
LEMMA CopyFailsStep == ASSUME IInv, CopyFails PROVE IInv'
  <1> USE DEF IInv
  <1>1. call \in Calls /\ call.pc = "copy" /\ At("copy") BY DEF CopyFails, At, TypeOK
  <1>2. call' \in Calls /\ call'.pc = "idle" BY <1>1 DEF CopyFails, Return, Calls, Pcs
  <1>3. UNCHANGED <<present, ram, accel, pins, lastUsed, ramBytes, accelBytes, peakRam>>
    BY DEF CopyFails
  <1>4. /\ state' = [state EXCEPT ![call.region] = "RESIDENT_IN_RAM"]
        /\ accelUsed' = accelUsed - Size(call.region)
    BY DEF CopyFails
  <1>5. transferring' = {} BY <1>1, AtCopy DEF CopyFails
  <1>6. accelUsed' = Bytes[accel] /\ accelUsed' \in Nat /\ accelUsed' <= accelUsed
    BY <1>1, <1>4, AtCopy
  <1>7. TypeOK'
    BY <1>1, <1>2, <1>3, <1>4, <1>5, <1>6, AtCopy DEF TypeOK, States, ResidentStates
  <1>8. ResidencyHonest'
    BY <1>1, <1>3, <1>4, AtCopy DEF ResidencyHonest, TypeOK, ResidentStates
  <1>9. Accounting'
    <2>1. accel' \cup {} = accel' OBVIOUS
    <2> QED BY <1>2, <1>3, <1>6, <2>1 DEF Accounting, At
  <1>10. WithinBudget' BY <1>3, <1>6, ConstAssumption DEF WithinBudget, TypeOK
  <1>11. NoTransferAtRest' BY <1>2, <1>5 DEF NoTransferAtRest, At
  <1>12. CallConsistent'
    BY <1>1, <1>2, <1>3, <1>4, <1>5, AtCopy DEF CallConsistent, At, TypeOK
  <1> QED BY <1>7, <1>8, <1>9, <1>10, <1>11, <1>12

\* The upload is done.
LEMMA CopyDoneStep == ASSUME IInv, CopyDone PROVE IInv'
  <1> USE DEF IInv
  <1>1. call \in Calls /\ call.pc = "copy" /\ At("copy") BY DEF CopyDone, At, TypeOK
  <1>2. call' \in Calls /\ call'.pc = "idle" BY <1>1 DEF CopyDone, Return, Calls, Pcs
  <1>3. UNCHANGED <<present, ram, pins, ramBytes, peakRam, accelUsed>> BY DEF CopyDone
  <1>4. /\ state' = [state EXCEPT ![call.region] = "RESIDENT_IN_ACCELERATOR"]
        /\ accel' = accel \cup {call.region}
        /\ accelBytes' = accelBytes + Size(call.region)
    BY DEF CopyDone
  <1>5. transferring' = {} BY <1>1, AtCopy DEF CopyDone
  <1>6. accelUsed' = Bytes[accel'] /\ accelBytes' = Bytes[accel'] /\ accelBytes' \in Nat
    BY <1>1, <1>3, <1>4, AtCopy
  <1>7. lastUsed' \in [Regions -> Nat] BY <1>1, AtCopy, TouchType DEF CopyDone, TypeOK
  <1>8. TypeOK'
    BY <1>1, <1>2, <1>3, <1>4, <1>5, <1>6, <1>7, AtCopy DEF TypeOK, States, ResidentStates
  <1>9. ResidencyHonest'
    BY <1>1, <1>3, <1>4, AtCopy DEF ResidencyHonest, TypeOK, ResidentStates
  <1>10. Accounting'
    <2>1. accel' \cup {} = accel' OBVIOUS
    <2> QED BY <1>2, <1>3, <1>6, <2>1 DEF Accounting, At
  <1>11. WithinBudget' BY <1>3 DEF WithinBudget
  <1>12. NoTransferAtRest' BY <1>2, <1>5 DEF NoTransferAtRest, At
  <1>13. CallConsistent'
    BY <1>1, <1>2, <1>3, <1>4, <1>5, AtCopy DEF CallConsistent, At, TypeOK
  <1> QED BY <1>8, <1>9, <1>10, <1>11, <1>12, <1>13
-----------------------------------------------------------------------------
(* pin, unpin and releaseAll.                                               *)

\* pin and unpin change only the pins of a record that exists.
LEMMA PinStep == ASSUME IInv, NEW r \in Regions, pin(r) \/ unpin(r) PROVE IInv'
  <1> USE DEF IInv
  <1>1. /\ r \in present
        /\ UNCHANGED <<present, state, ram, accel, lastUsed, transferring, byteVars, call>>
    BY DEF pin, unpin
  <1>2. pins' \in [Regions -> Nat] /\ \A x \in Regions \ {r} : pins'[x] = pins[x]
    BY DEF pin, unpin, TypeOK
  <1>3. TypeOK' BY <1>1, <1>2 DEF TypeOK, byteVars
  <1>4. ResidencyHonest' BY <1>1, <1>2 DEF ResidencyHonest
  <1>5. Accounting' BY <1>1 DEF Accounting, byteVars, At
  <1>6. WithinBudget' BY <1>1 DEF WithinBudget, byteVars
  <1>7. NoTransferAtRest' BY <1>1 DEF NoTransferAtRest, At
  <1>8. CallConsistent' BY <1>1 DEF CallConsistent, At, RamFits, byteVars
  <1> QED BY <1>3, <1>4, <1>5, <1>6, <1>7, <1>8

\* releaseAll gives back exactly what the accelerator counted.
LEMMA ReleaseStep == ASSUME IInv, releaseAll PROVE IInv'
  <1> USE DEF IInv
  <1>1. call.pc = "idle" /\ call' = call BY DEF releaseAll, At
  <1>2. accelUsed = Bytes[accel] /\ Bytes[accel] \in Nat
    <2>1. accel \cup {} = accel OBVIOUS
    <2> QED BY <1>1, <2>1, BytesType DEF Accounting, At, TypeOK
  <1>3. accelUsed' = 0 BY <1>2 DEF releaseAll
  <1>4. TypeOK' BY <1>1, <1>3 DEF releaseAll, TypeOK, States
  <1>5. ResidencyHonest' BY DEF releaseAll, ResidencyHonest, ResidentStates
  <1>6. Accounting' BY <1>1, <1>3, ConstAssumption DEF releaseAll, Accounting, At
  <1>7. WithinBudget' BY <1>3, ConstAssumption DEF releaseAll, WithinBudget, TypeOK
  <1>8. NoTransferAtRest' BY <1>1 DEF releaseAll, NoTransferAtRest, At
  <1>9. CallConsistent' BY <1>1 DEF releaseAll, CallConsistent, At
  <1> QED BY <1>4, <1>5, <1>6, <1>7, <1>8, <1>9

-----------------------------------------------------------------------------
(* The invariant theorems.                                                  *)

\* A step of the manager, or a stutter, preserves the invariant.
LEMMA NextIInv == IInv /\ [Next]_vars => IInv'
  <1> SUFFICES ASSUME IInv, [Next]_vars PROVE IInv' OBVIOUS
  <1>1. CASE Start
    <2>1. PICK r \in Regions, target \in Targets :
              EnsureHit(r, target) \/ PrefetchHit(r, target) \/ Begin(r, target)
      BY <1>1 DEF Start
    <2> QED BY <2>1, HitStep, BeginStep
  <1>2. CASE Step
    BY <1>2, MoveStep, RamRoomEvictStep, ReadStartStep, ReadFailsStep, ReadDoneStep,
       DemoteStep, AllocateStep, CopyFailsStep, CopyDoneStep DEF Step
  <1>3. CASE Other
    BY <1>3, PinStep, EvictStep, ReleaseStep DEF Other
  <1>4. CASE UNCHANGED vars
    BY <1>4 DEF vars, recordVars, byteVars, IInv, TypeOK, ResidencyHonest, Accounting,
       WithinBudget, NoTransferAtRest, CallConsistent, At, RamFits
  <1> QED BY <1>1, <1>2, <1>3, <1>4 DEF Next

\* In every behaviour of the manager the inductive invariant holds.
THEOREM Inductive == Spec => []IInv
  BY InitIInv, NextIInv, PTL DEF Spec

\* Types of the records, counters and the call in progress.
THEOREM TypeCorrect == Spec => []TypeOK
  BY Inductive, PTL DEF IInv

\* What a record's state says is what its buffers hold, whatever fails.
THEOREM ResidencyIsHonest == Spec => []ResidencyHonest
  BY Inductive, PTL DEF IInv

\* The byte counters agree with the buffers.
THEOREM CountersAgree == Spec => []Accounting
  BY Inductive, PTL DEF IInv

\* The RAM budget, its peak and the accelerator's capacity are respected.
THEOREM BudgetsHold == Spec => []WithinBudget
  BY Inductive, PTL DEF IInv

\* No exit of a call leaves a record marked as transferring.
THEOREM NothingStaysMarked == Spec => []NoTransferAtRest
  BY Inductive, PTL DEF IInv
-----------------------------------------------------------------------------
(* Action properties.                                                       *)

\* Only eviction, demotion and releaseAll take buffers away.
LEMMA BuffersStay ==
    ASSUME IInv, Next, ~RamRoomEvict, ~AccelRoomDemote, ~releaseAll,
           \A r \in Regions : ~evict(r)
    PROVE  ram \subseteq ram' /\ accel \subseteq accel'
  <1>1. CASE Start
    BY <1>1 DEF Start, EnsureHit, PrefetchHit, Begin, recordVars
  <1>2. CASE Step
    BY <1>2 DEF Step, LoadCancelled, LoadStart, RamRoomExhausted, ReadStart, ReadFails,
       ReadDone, UploadRefused, UploadStart, AccelRoomExhausted, AllocateFails, Allocate,
       CopyFails, CopyDone, recordVars
  <1>3. CASE Other BY <1>3 DEF Other, pin, unpin
  <1> QED BY <1>1, <1>2, <1>3 DEF Next

\* A victim is neither pinned nor in transfer, and it alone loses buffers.
LEMMA VictimOnly ==
    ASSUME IInv, Next, ~releaseAll, NEW r \in Regions,
           pins[r] > 0 \/ r \in transferring
    PROVE  (r \in ram => r \in ram') /\ (r \in accel => r \in accel')
  <1>1. CASE RamRoomEvict
    <2>1. PICK v \in pickLruLocked("RAM", call.region) : Erase(v)
      BY <1>1 DEF RamRoomEvict
    <2>2. r # v BY DEF pickLruLocked, Evictable, IInv, TypeOK
    <2> QED BY <2>1, <2>2 DEF Erase
  <1>2. CASE AccelRoomDemote
    <2>1. PICK v \in pickLruLocked("ACCELERATOR", call.region) :
              accel' = accel \ {v} \/ accel' = accel
      BY <1>2 DEF AccelRoomDemote
    <2>2. r # v BY DEF pickLruLocked, Evictable, IInv, TypeOK
    <2>3. ram' = ram BY <1>2 DEF AccelRoomDemote
    <2> QED BY <2>1, <2>2, <2>3
  <1>3. CASE \E x \in Regions : evict(x)
    <2>1. PICK x \in Regions : evict(x) BY <1>3
    <2>2. r # x BY <2>1 DEF evict
    <2> QED BY <2>1, <2>2 DEF evict, Erase
  <1>4. CASE ~RamRoomEvict /\ ~AccelRoomDemote /\ ~\E x \in Regions : evict(x)
    BY <1>4, BuffersStay
  <1> QED BY <1>1, <1>2, <1>3, <1>4

\* Pinned regions, and the region in transfer, keep their buffers until
\* releaseAll.
THEOREM PinnedRegionsStay == Spec => PinnedStay
  <1>1. IInv /\ [Next]_vars =>
          [\A r \in Regions :
              \/ releaseAll
              \/ pins[r] > 0 \/ r \in transferring
                    => (r \in ram => r \in ram') /\ (r \in accel => r \in accel')]_vars
    BY VictimOnly
  <1> QED BY <1>1, Inductive, PTL DEF Spec, PinnedStay

\* A step that ends a call with true leaves its region at its target.
LEMMA GrantStep ==
    ASSUME IInv, Next, call'.pc = "idle", call'.ok, call' # call
    PROVE  AtTarget(call.region, call.target)'
  <1>0. call \in Calls /\ state \in [Regions -> States] BY DEF IInv, TypeOK
  <1>1. CASE Start
    <2>1. PICK r \in Regions, target \in Targets :
              EnsureHit(r, target) \/ PrefetchHit(r, target) \/ Begin(r, target)
      BY <1>1 DEF Start
    <2>2. ~Begin(r, target) BY DEF Begin
    <2>3. AtTarget(r, target) /\ state' = state
      BY <2>1, <2>2 DEF EnsureHit, PrefetchHit, recordVars
    <2>4. call'.region = r /\ call'.target = target
      BY <2>1, <2>2 DEF EnsureHit, PrefetchHit
    <2> QED BY <2>3, <2>4 DEF AtTarget
  <1>2. CASE Step
    <2>1. CASE ReadDone
      <3>1. call.pc = "read" /\ call.region \in Regions
        BY <1>0, <2>1 DEF ReadDone, At, Calls
      <3>2. call.target = "RAM" /\ Return(TRUE)
        BY <1>0, <2>1, <3>1 DEF ReadDone, Goto, Calls
      <3>3. call'.region = call.region /\ call'.target = "RAM"
        BY <1>0, <3>2 DEF Return, Calls
      <3>4. state'[call.region] = "RESIDENT_IN_RAM"
        BY <1>0, <2>1, <3>1 DEF ReadDone
      <3> QED BY <3>3, <3>4 DEF AtTarget, ResidentStates
    <2>2. CASE CopyDone
      <3>1. call'.region = call.region /\ call'.target = call.target /\ call.region \in Regions
        BY <1>0, <2>2 DEF CopyDone, Return, Calls
      <3>2. state'[call.region] = "RESIDENT_IN_ACCELERATOR"
        BY <1>0, <2>2, <3>1 DEF CopyDone
      <3> QED BY <3>1, <3>2 DEF AtTarget, ResidentStates
    <2>3. CASE LoadStart \/ ReadStart \/ UploadStart \/ Allocate
      BY <1>0, <2>3 DEF LoadStart, ReadStart, UploadStart, Allocate, Goto, Calls
    <2>4. CASE RamRoomEvict \/ AccelRoomDemote
      BY <2>4 DEF RamRoomEvict, AccelRoomDemote
    <2>5. CASE \/ LoadCancelled \/ RamRoomExhausted \/ ReadFails \/ UploadRefused
               \/ AccelRoomExhausted \/ AllocateFails \/ CopyFails
      <3>1. Return(FALSE)
        BY <2>5 DEF LoadCancelled, RamRoomExhausted, ReadFails, UploadRefused,
           AccelRoomExhausted, AllocateFails, CopyFails
      <3>2. call'.ok = FALSE BY <1>0, <3>1 DEF Return, Calls
      <3> QED BY <3>2
    <2> QED BY <1>2, <2>1, <2>2, <2>3, <2>4, <2>5 DEF Step
  <1>3. CASE Other
    BY <1>3 DEF Other, pin, unpin, evict, releaseAll
  <1> QED BY <1>1, <1>2, <1>3 DEF Next

\* ensureResident and prefetch return true only with the region at its target.
THEOREM GrantedIsResident == Spec => GrantedMeansResident
  <1>1. IInv /\ [Next]_vars =>
          [call'.pc = "idle" /\ call'.ok /\ call' # call
              => AtTarget(call.region, call.target)']_vars
    BY GrantStep
  <1> QED BY <1>1, Inductive, PTL DEF Spec, GrantedMeansResident
-----------------------------------------------------------------------------
(* Refinement of ResidencyCache.                                            *)

\* Erasing a record is a Drop of the cache, or nothing if it held no bytes.
LEMMA EraseIsDrop ==
    ASSUME IInv, NEW v \in Regions, pins[v] = 0, Erase(v)
    PROVE  Cache!CacheNext \/ UNCHANGED Cache!cacheVars
  <1> DEFINE holders == {r \in Regions : pins[r] > 0}
  <1>1. pins \in [Regions -> Nat] BY DEF IInv, TypeOK
  <1>2. pins' = pins
    <2>1. pins' = [pins EXCEPT ![v] = 0] BY DEF Erase
    <2> QED BY <1>1, <2>1
  <1>3. holders' = holders /\ v \notin holders BY <1>2
  <1>4. ram' = ram \ {v} /\ accel' = accel \ {v} BY DEF Erase
  <1>5. CASE v \in ram BY <1>3, <1>4, <1>5 DEF Cache!CacheNext, Cache!Drop
  <1>6. CASE v \notin ram
    <2>1. v \notin accel BY <1>6 DEF IInv, ResidencyHonest, ResidentStates
    <2>2. ram' = ram /\ accel' = accel BY <1>4, <1>6, <2>1
    <2> QED BY <1>3, <2>2 DEF Cache!cacheVars
  <1> QED BY <1>5, <1>6

\* A step that leaves buffers and pins alone is a stutter of the cache.
LEMMA SameBuffers ==
    ASSUME ram' = ram, accel' = accel, pins' = pins
    PROVE  UNCHANGED Cache!cacheVars
  BY DEF Cache!cacheVars

\* Every step of the manager is a step of the cache or a stutter.
LEMMA StepRefines ==
    ASSUME IInv, [Next]_vars
    PROVE  [Cache!CacheNext]_(Cache!cacheVars)
  <1> DEFINE holders == {r \in Regions : pins[r] > 0}
  <1>1. CASE RamRoomEvict
    <2>1. PICK v \in pickLruLocked("RAM", call.region) : Erase(v)
      BY <1>1 DEF RamRoomEvict
    <2>2. v \in Regions /\ pins[v] = 0 BY DEF pickLruLocked, Evictable, IInv, TypeOK
    <2> QED BY <2>1, <2>2, EraseIsDrop
  <1>2. CASE \E r \in Regions : evict(r)
    BY <1>2, EraseIsDrop DEF evict
  <1>3. CASE ReadDone
    <2>1. call.region \in Regions /\ At("read") BY <1>3 DEF ReadDone, IInv, TypeOK, Calls
    <2>2. call.region \notin ram
      BY <2>1 DEF IInv, CallConsistent, ResidencyHonest, ResidentStates
    <2>3. Bytes[ram \cup {call.region}] <= RamBudget
      <3>1. Bytes[ram \cup {call.region}] = Bytes[ram] + Size(call.region)
        BY <2>1, <2>2, BytesAdd DEF IInv, TypeOK
      <3> QED BY <2>1, <3>1 DEF IInv, CallConsistent, RamFits, Accounting
    <2>4. /\ ram' = ram \cup {call.region} /\ accel' = accel
          /\ holders' = holders
      BY <1>3 DEF ReadDone
    <2> QED BY <2>1, <2>2, <2>3, <2>4 DEF Cache!CacheNext, Cache!Load
  <1>4. CASE AccelRoomDemote
    <2>1. PICK v \in pickLruLocked("ACCELERATOR", call.region) :
              IF v \in accel THEN accel' = accel \ {v} ELSE accel' = accel
      BY <1>4 DEF AccelRoomDemote
    <2>2. v \in Regions /\ pins[v] = 0 BY DEF pickLruLocked, Evictable, IInv, TypeOK
    <2>3. ram' = ram /\ holders' = holders /\ v \notin holders
      BY <1>4, <2>2 DEF AccelRoomDemote
    <2>4. CASE v \in accel
      BY <2>1, <2>2, <2>3, <2>4 DEF Cache!CacheNext, Cache!Demote
    <2>5. CASE v \notin accel
      BY <2>1, <2>3, <2>5 DEF Cache!cacheVars
    <2> QED BY <2>4, <2>5
  <1>5. CASE CopyDone
    <2>1. At("copy") BY <1>5 DEF CopyDone
    <2>2. /\ call.region \in Regions /\ call.region \in ram /\ call.region \notin accel
          /\ Bytes[accel \cup {call.region}] <= AccelCapacity
      BY <2>1, AtCopy DEF IInv, WithinBudget
    <2>3. ram' = ram /\ accel' = accel \cup {call.region} /\ holders' = holders
      BY <1>5 DEF CopyDone
    <2> QED BY <2>2, <2>3 DEF Cache!CacheNext, Cache!Upload
  <1>6. CASE \E r \in Regions : pin(r)
    <2>1. PICK r \in Regions : pin(r) BY <1>6
    <2>2. pins \in [Regions -> Nat] /\ pins' = [pins EXCEPT ![r] = @ + 1]
      BY <2>1 DEF pin, IInv, TypeOK
    <2>3. holders' = holders \cup {r} BY <2>2
    <2>4. ram' = ram /\ accel' = accel BY <2>1 DEF pin
    <2> QED BY <2>3, <2>4 DEF Cache!CacheNext, Cache!Hold
  <1>7. CASE \E r \in Regions : unpin(r)
    <2>1. PICK r \in Regions : unpin(r) BY <1>7
    <2>2. pins \in [Regions -> Nat] /\ pins' = [pins EXCEPT ![r] = @ - 1]
      BY <2>1 DEF unpin, IInv, TypeOK
    <2>3. ram' = ram /\ accel' = accel BY <2>1 DEF unpin
    <2>4. CASE pins'[r] > 0
      <3>1. holders' = holders BY <2>2, <2>4
      <3> QED BY <2>3, <3>1 DEF Cache!cacheVars
    <2>5. CASE ~(pins'[r] > 0)
      <3>1. holders' = holders \ {r} BY <2>2, <2>5
      <3> QED BY <2>3, <3>1 DEF Cache!CacheNext, Cache!LetGo
    <2> QED BY <2>4, <2>5
  <1>8. CASE releaseAll
    <2>1. ram' = {} /\ accel' = {} /\ holders' = {} BY <1>8 DEF releaseAll
    <2> QED BY <2>1 DEF Cache!CacheNext, Cache!Clear
  <1>9. CASE Start
    BY <1>9, SameBuffers DEF Start, EnsureHit, PrefetchHit, Begin, recordVars
  <1>10. CASE \/ LoadCancelled \/ LoadStart \/ RamRoomExhausted \/ ReadStart \/ ReadFails
              \/ UploadRefused \/ UploadStart \/ AccelRoomExhausted \/ AllocateFails
              \/ Allocate \/ CopyFails
    <2>1. ram' = ram /\ accel' = accel /\ pins' = pins
      BY <1>10 DEF LoadCancelled, LoadStart, RamRoomExhausted, ReadStart, ReadFails,
         UploadRefused, UploadStart, AccelRoomExhausted, AllocateFails, Allocate,
         CopyFails, recordVars
    <2> QED BY <2>1, SameBuffers
  <1>11. CASE UNCHANGED vars
    BY <1>11, SameBuffers DEF vars, recordVars
  <1> QED
    BY <1>1, <1>2, <1>3, <1>4, <1>5, <1>6, <1>7, <1>8, <1>9, <1>10, <1>11
       DEF Next, Step, Other

\* ModelResidencyManager implements the two-level cache for every set of
\* regions, sizes, budget and capacity.
THEOREM RefinesCache == Spec => ImplementsCache
  <1>1. Init => Cache!CacheInit BY DEF Init, Cache!CacheInit
  <1>2. IInv /\ [Next]_vars => [Cache!CacheNext]_(Cache!cacheVars) BY StepRefines
  <1> QED BY <1>1, <1>2, Inductive, PTL DEF Spec, ImplementsCache, Cache!CacheSpec
=============================================================================
