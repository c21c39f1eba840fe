--------------------------- MODULE HydroXLDequant ---------------------------
(***************************************************************************)
(* src/hydroxl/HydroXLDequant.cpp: quantized blocks to floats.  A block is *)
(* the record of its byte fields; L stands for the 32 bytes (16 for the    *)
(* 5-bit types) that the inner loops run over.  A decoded element is       *)
(* [q, scale, min], the integers that the code multiplies with the block's *)
(* factors; the products themselves are left out.  Pack* are the layouts   *)
(* of ggml-quants.c, written by the encoder that made the file: the field  *)
(* comments of HydroXLDequant.cpp describe them.                           *)
(***************************************************************************)
EXTENDS Integers, Sequences

CONSTANTS
    L,              \* elements of one inner loop
    MaxThreads,     \* 4, or the number of processors where it is smaller
    MinParallel     \* blocks from which on several threads decode

Bits(x, shift, width) == (x \div 2^shift) % 2^width

-----------------------------------------------------------------------------
(* fp16_to_float: a half as [sign, exponent, mantissa], and the fields of   *)
(* the float; a subnormal is shifted until its leading bit shows.           *)

Shifts(mantissa) == CHOOSE k \in 1..10 : mantissa * 2^k \in 1024..2047

fp16_to_float(h) ==
    LET k == Shifts(h.mantissa)
        Float(e, m) == [sign |-> h.sign, exponent |-> e, mantissa |-> m * 2^13]
    IN  IF h.exponent = 0 /\ h.mantissa = 0 THEN Float(0, 0)
        ELSE IF h.exponent = 0 THEN Float(1 - k + 112, (h.mantissa * 2^k) % 1024)
        ELSE IF h.exponent = 31 THEN Float(255, h.mantissa)
        ELSE Float(h.exponent + 112, h.mantissa)

\* The magnitudes of a finite half and of a float in the range of the halves, in
\* units of 2^-24.
HalfValue(h) ==
    IF h.exponent = 0 THEN h.mantissa ELSE (1024 + h.mantissa) * 2^(h.exponent - 1)

FloatValue(f) ==
    LET m == 1024 + f.mantissa \div 2^13
    IN  IF f.exponent = 0 THEN 0
        ELSE IF f.exponent >= 113 THEN m * 2^(f.exponent - 113)
        ELSE m \div 2^(113 - f.exponent)

-----------------------------------------------------------------------------
(* Q4_K: 8 groups of L elements with a 6-bit scale and minimum each.        *)

get_scale_min_k4(j, q) ==
    IF j < 4
    THEN [scale |-> Bits(q[j], 0, 6), min |-> Bits(q[j + 4], 0, 6)]
    ELSE [scale |-> Bits(q[j + 4], 0, 4) + 16 * Bits(q[j - 4], 6, 2),
          min   |-> Bits(q[j + 4], 4, 4) + 16 * Bits(q[j], 6, 2)]

\* Element i: group i \div L; the two groups of a pair share L bytes.
dequant_q4k_block(raw) ==
    [i \in 0..(8 * L - 1) |->
        LET g == i \div L
            s == get_scale_min_k4(g, raw.scales)
            byte == raw.qs[(g \div 2) * L + (i % L)]
        IN  [q |-> Bits(byte, 4 * (g % 2), 4), scale |-> s.scale, min |-> s.min]]

PackQ4K(x) ==
    [scales |-> [j \in 0..11 |->
         IF j < 4 THEN (x[j * L].scale % 64) + 64 * (x[(j + 4) * L].scale \div 16)
         ELSE IF j < 8 THEN (x[(j - 4) * L].min % 64) + 64 * (x[j * L].min \div 16)
         ELSE (x[(j - 4) * L].scale % 16) + 16 * (x[(j - 4) * L].min % 16)],
     qs |-> [b \in 0..(4 * L - 1) |->
         x[2 * L * (b \div L) + (b % L)].q + 16 * x[2 * L * (b \div L) + L + (b % L)].q]]

-----------------------------------------------------------------------------
(* Q3_K: 16 groups of L/2 elements; two low bits and, in hmask, a high bit  *)
(* per element; 6-bit scales.  The four words aux are taken byte by byte.   *)

Q3Scale(g, sc) ==
    LET word == g \div 4    byte == g % 4
        low == IF word < 2 THEN Bits(sc[4 * word + byte], 0, 4)
               ELSE Bits(sc[4 * (word - 2) + byte], 4, 4)
    IN  low + 16 * Bits(sc[8 + byte], 2 * word, 2) - 32

dequant_q3k_block(raw) ==
    [i \in 0..(8 * L - 1) |->
        LET half == i \div (4 * L)
            j == (i % (4 * L)) \div L
            byte == i % L
            high == Bits(raw.hmask[byte], 4 * half + j, 1)
        IN  [q |-> Bits(raw.qs[half * L + byte], 2 * j, 2) - (IF high = 1 THEN 0 ELSE 4),
             scale |-> Q3Scale(i \div (L \div 2), raw.scales), min |-> 0]]

PackQ3K(x) ==
    LET S(g) == x[g * (L \div 2)].scale + 32
        Q(i) == x[i].q + 4
        Sum4(F(_)) == F(0) + F(1) + F(2) + F(3)
    IN  [scales |-> [k \in 0..11 |->
             IF k < 8 THEN (S(k) % 16) + 16 * (S(k + 8) % 16)
             ELSE Sum4(LAMBDA w : (S(4 * w + k - 8) \div 16) * 2^(2 * w))],
         hmask |-> [b \in 0..(L - 1) |->
             Sum4(LAMBDA j : (Q(j * L + b) \div 4) * 2^j)
             + Sum4(LAMBDA j : (Q(4 * L + j * L + b) \div 4) * 2^(4 + j))],
         qs |-> [b \in 0..(2 * L - 1) |->
             Sum4(LAMBDA j : (Q(4 * L * (b \div L) + j * L + (b % L)) % 4) * 2^(2 * j))]]

-----------------------------------------------------------------------------
(* Q5_0 and Q5_1: L/2 bytes of nibbles, and the fifth bits in qh.           *)

dequant_q5_block(raw, offset) ==
    LET h == L \div 2
        Low(j) == Bits(raw.qs[j], 0, 4) + 16 * raw.qh[j]
        High(j) == Bits(raw.qs[j], 4, 4) + 16 * raw.qh[j + h]
    IN  [i \in 0..(L - 1) |->
            [q |-> (IF i < h THEN Low(i) ELSE High(i - h)) - offset, scale |-> 1, min |-> 0]]

PackQ5(x, offset) ==
    LET h == L \div 2
        Q(i) == x[i].q + offset
    IN  [qh |-> [i \in 0..(L - 1) |-> Q(i) \div 16],
         qs |-> [j \in 0..(h - 1) |-> (Q(j) % 16) + 16 * (Q(j + h) % 16)]]

-----------------------------------------------------------------------------
(* Q6_K: halves of four runs of L elements; four low bits in ql, two high   *)
(* bits in qh, a signed scale for every L/2 elements.                       *)

dequant_q6_k_block(raw) ==
    [i \in 0..(8 * L - 1) |->
        LET half == i \div (4 * L)
            run == (i % (4 * L)) \div L
            l == i % L
            low == raw.ql[half * 2 * L + (run % 2) * L + l]
            high == raw.qh[half * L + l]
        IN  [q |-> Bits(low, 4 * (run \div 2), 4) + 16 * Bits(high, 2 * run, 2) - 32,
             scale |-> raw.sc[half * 8 + l \div (L \div 2) + 2 * run], min |-> 0]]

PackQ6K(x) ==
    LET Q(i) == x[i].q + 32
        At(b, run) == 4 * L * (b \div L) + run * L + (b % L)
    IN  [ql |-> [b \in 0..(4 * L - 1) |->
             LET half == b \div (2 * L)
                 first == 4 * L * half + (b % (2 * L))
             IN  (Q(first) % 16) + 16 * (Q(first + 2 * L) % 16)],
         qh |-> [b \in 0..(2 * L - 1) |->
             Q(At(b, 0)) \div 16 + 4 * (Q(At(b, 1)) \div 16)
             + 16 * (Q(At(b, 2)) \div 16) + 64 * (Q(At(b, 3)) \div 16)],
         sc |-> [g \in 0..15 |-> x[g * (L \div 2)].scale]]

dequant_q8_0_block(raw) ==
    [i \in 0..(L - 1) |->
        [q |-> IF raw.qs[i] < 128 THEN raw.qs[i] ELSE raw.qs[i] - 256, scale |-> 1, min |-> 0]]

PackQ8(x) == [qs |-> [i \in 0..(L - 1) |-> IF x[i].q >= 0 THEN x[i].q ELSE x[i].q + 256]]

\* What the block of type that holds the elements x decodes to.
Decoded(type, x) ==
    CASE type = "Q4_K" -> dequant_q4k_block(PackQ4K(x))
      [] type = "Q3_K" -> dequant_q3k_block(PackQ3K(x))
      [] type = "Q5_0" -> dequant_q5_block(PackQ5(x, 16), 16)
      [] type = "Q5_1" -> dequant_q5_block(PackQ5(x, 0), 0)
      [] type = "Q6_K" -> dequant_q6_k_block(PackQ6K(x))
      [] type = "Q8_0" -> dequant_q8_0_block(PackQ8(x))
      [] type = "F16"  -> [i \in DOMAIN x |-> fp16_to_float(x[i])]

-----------------------------------------------------------------------------
(* parallel_dequant *)

DecodeThreads(blocks) == IF blocks < MinParallel THEN 1 ELSE MaxThreads

\* Mutant: the share of a thread is rounded down.
ShareFloor(blocks) == blocks \div DecodeThreads(blocks)

\* blocks_per_thread.
Share(blocks) == (blocks + DecodeThreads(blocks) - 1) \div DecodeThreads(blocks)

\* The blocks that thread t decodes, [first, end).
Chunk(blocks, t) ==
    LET end == (t + 1) * Share(blocks)
    IN  [next |-> t * Share(blocks), end |-> IF end < blocks THEN end ELSE blocks]
=============================================================================
