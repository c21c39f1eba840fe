--------------------------- MODULE ResidencyCache ---------------------------
(***************************************************************************)
(* What ModelResidencyManager promises its callers: a two-level cache of   *)
(* regions with a byte budget per level, in which the accelerator holds    *)
(* only regions that RAM holds, and held (pinned) regions leave only when  *)
(* the whole cache is cleared.  How victims are chosen, and the steps of a *)
(* load or an upload, are not part of the promise.                         *)
(***************************************************************************)
EXTENDS Integers

CONSTANTS Regions, Bytes, RamBudget, AccelCapacity

VARIABLES
    inRam,      \* regions whose bytes are in RAM
    onAccel,    \* regions whose bytes are on the accelerator
    held        \* pinned regions

cacheVars == <<inRam, onAccel, held>>

CacheInit == inRam = {} /\ onAccel = {} /\ held = {}

Load(r) ==
    /\ r \notin inRam
    /\ Bytes[inRam \cup {r}] <= RamBudget
    /\ inRam' = inRam \cup {r}
    /\ UNCHANGED <<onAccel, held>>

Upload(r) ==
    /\ r \in inRam
    /\ r \notin onAccel
    /\ Bytes[onAccel \cup {r}] <= AccelCapacity
    /\ onAccel' = onAccel \cup {r}
    /\ UNCHANGED <<inRam, held>>

Demote(r) ==
    /\ r \in onAccel \ held
    /\ onAccel' = onAccel \ {r}
    /\ UNCHANGED <<inRam, held>>

Drop(r) ==
    /\ r \in inRam \ held
    /\ inRam' = inRam \ {r}
    /\ onAccel' = onAccel \ {r}
    /\ UNCHANGED held

Hold(r) ==
    /\ held' = held \cup {r}
    /\ UNCHANGED <<inRam, onAccel>>

LetGo(r) ==
    /\ held' = held \ {r}
    /\ UNCHANGED <<inRam, onAccel>>

Clear ==
    /\ inRam' = {}
    /\ onAccel' = {}
    /\ held' = {}

CacheNext ==
    \/ \E r \in Regions :
          Load(r) \/ Upload(r) \/ Demote(r) \/ Drop(r) \/ Hold(r) \/ LetGo(r)
    \/ Clear

CacheSpec == CacheInit /\ [][CacheNext]_cacheVars
=============================================================================
