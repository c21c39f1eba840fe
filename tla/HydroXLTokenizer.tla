-------------------------- MODULE HydroXLTokenizer --------------------------
(***************************************************************************)
(* src/hydroxl/HydroXLTokenizer.cpp: byte-level BPE.  A text is a sequence *)
(* of bytes; a vocabulary entry is a sequence of symbols, a symbol being   *)
(* the character that byte_to_unicode_ gives to a byte.  A tokenizer is    *)
(* [vocab, merges, types, bos, eos, add_bos], token ids counting from 0.   *)
(***************************************************************************)
EXTENDS GGUFLoader
LOCAL INSTANCE SequencesExt

TOKEN_INVALID == -1

\* An array of a file, << >> when the key has another value.
Array(f, key, elem) ==
    LET at == {i \in DOMAIN f.kvs : f.kvs[i].key = key}
        last == CHOOSE i \in at : \A j \in at : j <= i
    IN  IF at = {} \/ f.kvs[last].type # "ARRAY" \/ f.kvs[last].elem # elem THEN << >>
        ELSE f.kvs[last].value

\* A merge has two sides, separated by its only space.
Tokenizes(f) ==
    LET merges == Array(f, "merges", "STRING")
    IN  /\ kvString(f, "tokenizer", "") = "gpt2"
        /\ Array(f, "tokens", "STRING") # << >> /\ merges # << >>
        /\ \A r \in DOMAIN merges : Len(merges[r]) = 2

loadFromGGUF(f) ==
    LET tokens == Array(f, "tokens", "STRING")
        types == Array(f, "token_type", "INT32")
    IN  [vocab   |-> tokens,
         merges  |-> Array(f, "merges", "STRING"),
         types   |-> [i \in DOMAIN tokens |-> IF i \in DOMAIN types THEN types[i] ELSE 1],
         bos     |-> kvUInt32(f, "bos", TOKEN_INVALID),
         eos     |-> kvUInt32(f, "eos", TOKEN_INVALID),
         add_bos |-> kv(f, "add_bos", {"BOOL"}, FALSE)]

-----------------------------------------------------------------------------
(* UTF-8 *)

\* The code point at byte i and its length; a byte that starts none stands for itself.
decodeUtf8(s, i) ==
    LET c0 == s[i]
        Low(k) == s[i + k] % 64
        Fits(k) == i + k <= Len(s)
    IN  IF c0 \in 192..223 /\ Fits(1) THEN [cp |-> (c0 % 32) * 64 + Low(1), len |-> 2]
        ELSE IF c0 \in 224..239 /\ Fits(2)
             THEN [cp |-> (c0 % 16) * 4096 + Low(1) * 64 + Low(2), len |-> 3]
        ELSE IF c0 \in 240..247 /\ Fits(3)
             THEN [cp |-> (c0 % 8) * 262144 + Low(1) * 4096 + Low(2) * 64 + Low(3), len |-> 4]
        ELSE [cp |-> c0, len |-> 1]

encodeUtf8(cp) ==
    IF cp < 128 THEN <<cp>>
    ELSE IF cp < 2048 THEN <<192 + cp \div 64, 128 + (cp % 64)>>
    ELSE IF cp < 65536
         THEN <<224 + cp \div 4096, 128 + ((cp \div 64) % 64), 128 + (cp % 64)>>
    ELSE <<240 + cp \div 262144, 128 + ((cp \div 4096) % 64), 128 + ((cp \div 64) % 64),
           128 + (cp % 64)>>

\* Classes of characters; 128 stands for every code point from there on, all of which
\* count as letters.
Class(cp) == IF cp < 128 THEN cp ELSE 128

Space   == {32} \cup 9..13
Newline == {10, 13}
Digit   == 48..57
Letter  == (65..90) \cup (97..122) \cup {128}
Other   == (0..127) \ (Space \cup Digit \cup Letter)
Prefixable == (0..127) \ (Newline \cup Digit \cup Letter)

-----------------------------------------------------------------------------
(* Byte tables.  Printable bytes stand for themselves, the others for the   *)
(* code points from 256 on, in order.                                       *)

Printable == (33..126) \cup (161..172) \cup (174..255)

byte_to_unicode ==
    [b \in 0..255 |->
        encodeUtf8(IF b \in Printable THEN b
                   ELSE 256 + Cardinality({c \in 0..255 : c < b /\ c \notin Printable}))]

\* A character of the table back to its byte; others pass through.
Unmap(ch) ==
    IF \E b \in 0..255 : byte_to_unicode[b] = ch
    THEN <<CHOOSE b \in 0..255 : byte_to_unicode[b] = ch>> ELSE ch

-----------------------------------------------------------------------------
(* preTokenize *)

\* The end (exclusive) of the longest run of at most max characters of a class
\* from byte i on.
RunEnd(text, i, class, max) ==
    LET end[j \in 1..(Len(text) + 1), n \in 0..max] ==
            IF j > Len(text) \/ n = 0 THEN j
            ELSE IF Class(decodeUtf8(text, j).cp) \in class
                 THEN end[j + decodeUtf8(text, j).len, n - 1]
            ELSE j
    IN  end[i, max]

Run(text, i, class) == RunEnd(text, i, class, Len(text))

\* The character at i, code point 0 past the end.
At(text, i) == IF i <= Len(text) THEN decodeUtf8(text, i) ELSE [cp |-> 0, len |-> 1]

\* asciiLower of a code point cast to char: only its low byte counts.
Lower(cp) == LET c == cp % 256 IN IF c \in 65..90 THEN c + 32 ELSE c

\* The bytes of a contraction at i after the apostrophe, 0 when there is none: 's 't
\* 'm 'd, 're 've 'll.
Contraction(text, i) ==
    LET c1 == At(text, i + 1)
        c2 == At(text, i + 1 + (IF c1.cp = 0 THEN 0 ELSE c1.len))
    IN  IF text[i] # 39 \/ c1.cp = 0 THEN 0
        ELSE IF Lower(c1.cp) \in {115, 116, 109, 100} THEN c1.len
        ELSE IF c2.cp # 0 /\ <<Lower(c1.cp), Lower(c2.cp)>> \in {<<114, 101>>, <<118, 101>>, <<108, 108>>}
             THEN c1.len + c2.len
        ELSE 0

\* Rule 4: where a run of other characters, after at most one space, and the
\* newlines behind it end; i when there is none.
OtherEnd(text, i) ==
    LET c1 == At(text, i + 1)
        from == IF text[i] = 32 /\ c1.cp # 0 /\ c1.cp \in Other THEN i + 1 ELSE i
        end == Run(text, from, Other)
    IN  IF end = from THEN i ELSE Run(text, end, Newline)

\* Mutant: a run of spaces keeps its last space.
SpaceEndWhole(text, i) ==
    LET end == Run(text, i, Space)
        nl == {j \in i..(end - 1) : text[j] \in Newline}
    IN  IF nl # {} THEN 1 + (CHOOSE j \in nl : \A k \in nl : k <= j) ELSE end

\* Rules 5 to 7 for a run of spaces: up to its last newline; the whole run at the end
\* of the text; all but its last space.
SpaceEnd(text, i) ==
    LET end == Run(text, i, Space)
        nl == {j \in i..(end - 1) : text[j] \in Newline}
    IN  IF nl # {} THEN 1 + (CHOOSE j \in nl : \A k \in nl : k <= j)
        ELSE IF end > Len(text) \/ end - i < 2 THEN end
        ELSE end - 1

\* Where the piece that starts at i ends (exclusive).
PieceEnd(text, i) ==
    LET c0 == decodeUtf8(text, i)
        c1 == At(text, i + c0.len)
    IN  IF Contraction(text, i) > 0 THEN i + 1 + Contraction(text, i)
        ELSE IF Class(c0.cp) \in Letter \/ (c0.cp \in Prefixable /\ Class(c1.cp) \in Letter)
             THEN Run(text, i + c0.len, Letter)
        ELSE IF c0.cp \in Digit THEN RunEnd(text, i, Digit, 3)
        ELSE IF OtherEnd(text, i) > i THEN OtherEnd(text, i)
        ELSE IF c0.cp \in Space THEN SpaceEnd(text, i)
        ELSE i + c0.len

\* A text cut where the pieces end that start at its bytes.
Cut(text, end) ==
    LET pieces[i \in 1..(Len(text) + 1)] ==
            IF i > Len(text) THEN << >>
            ELSE <<SubSeq(text, i, end[i] - 1)>> \o pieces[end[i]]
    IN  pieces[1]

preTokenize(text) == Cut(text, [i \in DOMAIN text |-> PieceEnd(text, i)])

-----------------------------------------------------------------------------
(* bpe *)

\* The rank of a pair of symbols, 0 when they do not merge; a merge stated twice
\* has the rank of its last statement.
Rank(tok, left, right) ==
    LET at == {r \in DOMAIN tok.merges : tok.merges[r] = <<left, right>>}
    IN  IF at = {} THEN 0 ELSE CHOOSE r \in at : \A q \in at : q <= r

\* Merge every occurrence of a pair, left to right.
MergeAll(symbols, left, right) ==
    LET merged[i \in 1..(Len(symbols) + 1)] ==
            IF i >= Len(symbols) THEN SubSeq(symbols, i, Len(symbols))
            ELSE IF symbols[i] = left /\ symbols[i + 1] = right
                 THEN <<left \o right>> \o merged[i + 2]
            ELSE <<symbols[i]>> \o merged[i + 1]
    IN  merged[1]

\* The best pair of a sequence of symbols merged; a sequence without one stays.
MergeBest(tok, symbols) ==
    LET ranks == {Rank(tok, symbols[s], symbols[s + 1]) : s \in 1..(Len(symbols) - 1)} \ {0}
        best == CHOOSE r \in ranks : \A q \in ranks : r <= q
    IN  IF ranks = {} THEN symbols
        ELSE MergeAll(symbols, tok.merges[best][1], tok.merges[best][2])

\* Until no pair merges: every round leaves fewer symbols.
Merged(tok, symbols) ==
    LET after[n \in 0..Len(symbols)] ==
            IF n = 0 THEN symbols ELSE MergeBest(tok, after[n - 1])
    IN  after[Len(symbols)]

\* The id of a symbol; of equal entries the last counts.
tokenToId(tok, sym) ==
    LET at == {i \in DOMAIN tok.vocab : tok.vocab[i] = sym}
    IN  IF at = {} THEN TOKEN_INVALID ELSE (CHOOSE i \in at : \A j \in at : j <= i) - 1

\* A symbol outside the vocabulary falls back to the tokens of its bytes; the code
\* takes the bytes of the symbol as it is written, mapped, and maps them again.
SymbolIds(tok, sym) ==
    IF tokenToId(tok, sym) # TOKEN_INVALID THEN <<tokenToId(tok, sym)>>
    ELSE SelectSeq([i \in DOMAIN sym |-> tokenToId(tok, byte_to_unicode[sym[i]])],
                   LAMBDA id : id # TOKEN_INVALID)

bpe(tok, piece) ==
    LET symbols == Merged(tok, [i \in DOMAIN piece |-> byte_to_unicode[piece[i]]])
    IN  FlattenSeq([i \in DOMAIN symbols |-> SymbolIds(tok, symbols[i])])

EncodePieces(tok, pieces) == FlattenSeq([i \in DOMAIN pieces |-> bpe(tok, pieces[i])])

encode(tok, text) ==
    (IF tok.add_bos /\ tok.bos # TOKEN_INVALID THEN <<tok.bos>> ELSE << >>)
    \o EncodePieces(tok, preTokenize(text))

\* The characters of a mapped text back to bytes.
Unmapped(mapped) ==
    LET bytes[i \in 1..(Len(mapped) + 1)] ==
            IF i > Len(mapped) THEN << >>
            ELSE LET len == decodeUtf8(mapped, i).len
                 IN  Unmap(SubSeq(mapped, i, i + len - 1)) \o bytes[i + len]
    IN  bytes[1]

\* Control (3) and unused (5) tokens are left out.
Shown(tok, id) == id + 1 \in DOMAIN tok.vocab /\ tok.types[id + 1] \notin {3, 5}

decode(tok, ids) ==
    LET kept == SelectSeq(ids, LAMBDA id : Shown(tok, id))
    IN  Unmapped(FlattenSeq([i \in DOMAIN kept |-> tok.vocab[kept[i] + 1]]))

-----------------------------------------------------------------------------
(* The split pattern of Qwen2, whose alternatives the rules of preTokenize  *)
(* follow: the first alternative that matches, as long as it can be.  For   *)
(* texts in ASCII without NUL.                                              *)

Span(text, i, j, class) == \A k \in i..(j - 1) : text[k] \in class

PatternEnds(text, i) ==
    LET n == Len(text)
        Ends(P(_)) == {j \in (i + 1)..(n + 1) : P(j)}
        short == {<<115>>, <<116>>, <<109>>, <<100>>, <<114, 101>>, <<118, 101>>, <<108, 108>>}
    IN  << Ends(LAMBDA j : /\ text[i] = 39
                           /\ [k \in 1..(j - i - 1) |-> Lower(text[i + k])] \in short),
           Ends(LAMBDA j : \/ Span(text, i, j, Letter)
                           \/ text[i] \in Prefixable /\ j > i + 1 /\ Span(text, i + 1, j, Letter)),
           Ends(LAMBDA j : j <= i + 3 /\ Span(text, i, j, Digit)),
           Ends(LAMBDA j : \E a \in i..(i + 1), b \in (i + 1)..j :
                              /\ a = i + 1 => text[i] = 32
                              /\ a < b /\ Span(text, a, b, Other) /\ Span(text, b, j, Newline)),
           Ends(LAMBDA j : \E b \in i..(j - 1) :
                              Span(text, i, b, Space) /\ Span(text, b, j, Newline)),
           Ends(LAMBDA j : Span(text, i, j, Space) /\ (j > n \/ text[j] \in Space)),
           Ends(LAMBDA j : Span(text, i, j, Space)),
           {i + 1} >>

\* The end of the piece of the pattern at i.
PatternEnd(text, i) ==
    LET ends == SelectSeq(PatternEnds(text, i), LAMBDA e : e # {})[1]
    IN  CHOOSE j \in ends : \A k \in ends : k <= j
=============================================================================
