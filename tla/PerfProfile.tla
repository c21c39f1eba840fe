----------------------------- MODULE PerfProfile ----------------------------
(***************************************************************************)
(* src/orchestration/PerfProfile.cpp: the measured speed of each backend   *)
(* and its file.  A profile is a sequence of records                       *)
(*   [backend, hash, tps, n]                                               *)
(* where hash stands for the workload (model_hash, quant_type, n_layers,   *)
(* n_embd) and tps, the running average, is in thousandths of tokens per   *)
(* second.  Timestamps are left out.                                       *)
(***************************************************************************)
EXTENDS Integers, Sequences

SameKey(r, id, hash) == r.backend = id /\ r.hash = hash

\* The record that a measurement goes to: the first with its key, if there is one.
Matches(recs, id, hash) ==
    {i \in DOMAIN recs : /\ SameKey(recs[i], id, hash)
                         /\ \A j \in 1..(i - 1) : ~ SameKey(recs[j], id, hash)}

\* A known key is updated with a running average, a new one appended.
record(recs, id, hash, speed) ==
    IF id = "" \/ speed <= 0 THEN recs
    ELSE IF Matches(recs, id, hash) = {}
    THEN Append(recs, [backend |-> id, hash |-> hash, tps |-> speed, n |-> 1])
    ELSE LET k == CHOOSE i \in Matches(recs, id, hash) : TRUE
             r == recs[k]
         IN  [recs EXCEPT ![k] = [r EXCEPT !.n = r.n + 1,
                                           !.tps = (r.tps * r.n + speed) \div (r.n + 1)]]

\* What a line of the file keeps: two decimals of the speed, "none" for no hash.
SavedLine(r) ==
    [r EXCEPT !.tps = ((r.tps + 5) \div 10) * 10,
              !.hash = IF r.hash = "" THEN "none" ELSE r.hash]

Lines(recs) == [i \in DOMAIN recs |-> SavedLine(recs[i])]

\* save truncates the file when it opens it and writes its lines from the start
\* when it closes it.  Another writer may have put longer contents there in
\* between: the lines behind the new ones stay, and the one that the last
\* of them cuts into is no longer readable.
Overwrites(new, old) ==
    {new \o SubSeq(old, k + 1, Len(old)) :
        k \in IF new = <<>> THEN {0} ELSE {Len(new), Len(new) + 1}}

\* load goes through the lines and keeps those that name a backend, a hash and a speed.
load(lines) ==
    LET kept[k \in 0..Len(lines)] ==
            IF k = 0 THEN <<>>
            ELSE IF lines[k].backend # "" /\ lines[k].hash # "" THEN Append(kept[k - 1], lines[k])
            ELSE kept[k - 1]
    IN  kept[Len(lines)]
=============================================================================
