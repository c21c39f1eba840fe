----------------------------- MODULE GGUFLoader -----------------------------
(***************************************************************************)
(* src/hydroxl/GGUFLoader.cpp: the parser of GGUF files.  A file is        *)
(*   [size, magic, version, n_kv, n_tensors,                               *)
(*    kvs: sequence of [key, keylen, type, value, elem, count, each],      *)
(*    tensors: sequence of [name, namelen, shape, type, offset]]           *)
(* in the order of its bytes; size may cut it anywhere, and the counts of  *)
(* the header may exceed what follows.  elem, count and each describe an   *)
(* array (element type, length, bytes of one element) and, with elem = "", *)
(* a string of count bytes.  A name is <<layer, tensor>>, layer 0 for the  *)
(* tensors of no layer.                                                    *)
(***************************************************************************)
EXTENDS Integers, Sequences, FiniteSets
LOCAL INSTANCE SequencesExt

CONSTANTS
    MaxU64,     \* the largest 64-bit number
    MaxString,  \* sanity limit of a string, 1 MiB
    MaxArray,   \* sanity limit of an array, 16M elements
    MaxCount,   \* sanity limit of n_kv and n_tensors, 65536
    MaxDim,     \* sanity limit of a dimension, 2^32
    Align       \* general.alignment

ScalarBytes ==
    [UINT8 |-> 1, INT8 |-> 1, BOOL |-> 1, UINT16 |-> 2, INT16 |-> 2, UINT32 |-> 4,
     INT32 |-> 4, FLOAT32 |-> 4, UINT64 |-> 8, INT64 |-> 8, FLOAT64 |-> 8]

\* Elements per block and bytes per block of a tensor type.
Blocks ==
    [F32  |-> <<1, 4>>,     F16  |-> <<1, 2>>,     Q4_0 |-> <<32, 18>>,
     Q4_1 |-> <<32, 20>>,   Q5_0 |-> <<32, 22>>,   Q5_1 |-> <<32, 24>>,
     Q8_0 |-> <<32, 34>>,   Q8_1 |-> <<32, 36>>,   Q2_K |-> <<256, 84>>,
     Q3_K |-> <<256, 110>>, Q4_K |-> <<256, 144>>, Q5_K |-> <<256, 176>>,
     Q6_K |-> <<256, 210>>, Q8_K |-> <<256, 292>>]

Width(n) == n % (MaxU64 + 1)

parseHeader(f) ==
    /\ f.size >= 24
    /\ f.magic = "GGUF" /\ f.version \in 2..3
    /\ f.n_tensors <= MaxCount /\ f.n_kv <= MaxCount

-----------------------------------------------------------------------------
(* Metadata *)

Retained == {"UINT32", "INT32", "FLOAT32", "STRING"}

KnownElem(e) == e \in DOMAIN ScalarBytes \cup {"STRING", "ARRAY"}

\* Whether readValue accepts the value, the end of the file apart.
Readable(v) ==
    \/ v.type \in DOMAIN ScalarBytes
    \/ v.type = "STRING" /\ v.count <= MaxString
    \/ v.type = "ARRAY" /\ v.count <= MaxArray /\ KnownElem(v.elem)

\* Bytes that must be there, and bytes that are only skipped over with a seek,
\* which does not notice the end of the file.
ReadBytes(v) ==
    IF v.type = "STRING" THEN 8 + v.count
    ELSE IF v.type # "ARRAY" THEN ScalarBytes[v.type]
    ELSE IF v.elem \in Retained \cup {"ARRAY"} THEN 12 + v.count * v.each
    ELSE 12

SkippedBytes(v) ==
    IF v.type = "ARRAY" /\ v.elem \notin Retained \cup {"ARRAY"} THEN v.count * v.each ELSE 0

ReadKV(f, s, v) ==
    LET end == s.pos + 8 + v.keylen + 4 + IF Readable(v) THEN ReadBytes(v) ELSE 0
    IN  [ok  |-> /\ s.ok /\ v.keylen <= MaxString /\ Readable(v) /\ end <= f.size,
         pos |-> end + IF Readable(v) THEN SkippedBytes(v) ELSE 0]

parseKV(f) ==
    LET end == FoldLeft(LAMBDA s, v : ReadKV(f, s, v), [ok |-> TRUE, pos |-> 24], f.kvs)
    IN  [end EXCEPT !.ok = end.ok /\ f.n_kv = Len(f.kvs)]

\* The value of a key, the last one stated; def when there is none, and the
\* accessors also return def for a value of another type.
kv(f, key, types, def) ==
    LET at == {i \in DOMAIN f.kvs : f.kvs[i].key = key}
        last == CHOOSE i \in at : \A j \in at : j <= i
    IN  IF at = {} \/ f.kvs[last].type \notin types THEN def ELSE f.kvs[last].value

Unsigned == {"UINT8", "UINT16", "UINT32", "INT8", "INT16", "INT32", "UINT64"}

kvUInt32(f, key, def) == kv(f, key, Unsigned, def)
kvString(f, key, def) == kv(f, key, {"STRING"}, def)

-----------------------------------------------------------------------------
(* Tensors *)

\* The number of elements, -1 when the product of the dimensions overflows.
Elements(shape) ==
    FoldLeft(LAMBDA n, d : IF n = -1 \/ n > MaxU64 \div d THEN -1 ELSE n * d, 1, shape)

\* n_bytes: whole blocks, 0 for an unknown type.
TensorBytes(t) ==
    LET b == Blocks[t.type]
    IN  IF t.type \notin DOMAIN Blocks THEN 0
        ELSE Width((Width(Elements(t.shape) + b[1] - 1) \div b[1]) * b[2])

ValidShape(t) ==
    /\ Len(t.shape) \in 1..4
    /\ \A i \in DOMAIN t.shape : t.shape[i] \in 1..MaxDim
    /\ Elements(t.shape) # -1
    /\ t.type \in {"F32", "F16"} => Elements(t.shape) <= MaxU64 \div Blocks[t.type][2]

ReadTensor(f, s, t) ==
    LET end == s.pos + 8 + t.namelen + 4 + 8 * Len(t.shape) + 4 + 8
    IN  [ok |-> s.ok /\ t.namelen <= MaxString /\ ValidShape(t) /\ end <= f.size,
         pos |-> end]

parseTensors(f) ==
    LET end == FoldLeft(LAMBDA s, t : ReadTensor(f, s, t), parseKV(f), f.tensors)
    IN  [end EXCEPT !.ok = end.ok /\ f.n_tensors = Len(f.tensors)]

\* Where the tensors' data begins.
data_offset(f) ==
    LET end == parseTensors(f).pos
    IN  end + ((Align - (end % Align)) % Align)

open(f) ==
    /\ parseHeader(f) /\ parseTensors(f).ok
    /\ f.n_tensors > 0 => data_offset(f) < f.size

Tensors(f, name) == {i \in DOMAIN f.tensors : f.tensors[i].name = name}

\* The first tensor of a name; for names that some tensor has.
findTensor(f, name) ==
    f.tensors[CHOOSE i \in Tensors(f, name) : \A j \in Tensors(f, name) : i <= j]

readTensorData(f, t) ==
    LET bytes == TensorBytes(t)
        start == data_offset(f)
    IN  /\ bytes > 0
        /\ t.offset <= f.size /\ bytes <= f.size - t.offset
        /\ t.offset <= MaxU64 - start
        /\ start + t.offset <= f.size
        /\ bytes <= f.size - (start + t.offset)
=============================================================================
