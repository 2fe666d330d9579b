------------------------------ MODULE Chunker ------------------------------
(***************************************************************************)
(* chunk_text: a text is split into chunks with their offsets.  A text is  *)
(* a sequence of characters; offsets are those of Python, from 0, the end  *)
(* exclusive.  A piece that cannot be found again raises.                  *)
(***************************************************************************)
EXTENDS Integers, SequencesExt

Blanks == {" ", "newline"}

\* str.strip
strip(s) ==
    LET solid == {i \in DOMAIN s : s[i] \notin Blanks}
    IN  IF solid = {} THEN << >>
        ELSE SubSeq(s, CHOOSE i \in solid : \A j \in solid : i <= j,
                       CHOOSE i \in solid : \A j \in solid : j <= i)

\* text[start:end]
Slice(s, start, end) == SubSeq(s, start + 1, IF end < Len(s) THEN end ELSE Len(s))

\* str.find: the first offset not before from where w is, or -1.
find(s, w, from) ==
    LET at == {i \in from..(Len(s) - Len(w)) : Slice(s, i, i + Len(w)) = w}
    IN  IF at = {} THEN -1 ELSE CHOOSE i \in at : \A j \in at : i <= j

\* str.split by a separator that is not empty.
split(s, sep) ==
    LET parts[from \in 0..Len(s)] ==
            LET at == find(s, sep, from)
            IN  IF at = -1 THEN <<Slice(s, from, Len(s))>>
                ELSE <<Slice(s, from, at)>> \o parts[at + Len(sep)]
    IN  parts[0]

Solid(s) == strip(s) # << >>

ChunkData(content, index, start, end) ==
    [content |-> content, index |-> index, start |-> start, end |-> end]

-----------------------------------------------------------------------------
(* The fixed strategy: windows every size - overlap characters. *)

\* Mutant: the loop ends with the first window that reaches the last character.
ChunkFixedShort(text, size, overlap) ==
    LET step == size - overlap
        Add(chunks, k) ==
            LET start == k * step  end == start + size  content == strip(Slice(text, start, end))
            IN  IF start + size >= Len(text) \/ content = << >> THEN chunks
                ELSE Append(chunks, ChunkData(content, Len(chunks), start, end))
    IN  FoldLeft(Add, << >>, [k \in 1..Len(text) |-> k - 1])

ChunkFixed(text, size, overlap) ==
    LET step == size - overlap
        ReachedEnd(chunks) == chunks # << >> /\ Last(chunks).end = Len(text)
        Add(chunks, k) ==
            LET start == k * step
                end == IF start + size < Len(text) THEN start + size ELSE Len(text)
                content == strip(Slice(text, start, end))
            IN  IF start >= Len(text) \/ ReachedEnd(chunks) \/ content = << >> THEN chunks
                ELSE Append(chunks, ChunkData(content, Len(chunks), start, end))
    IN  FoldLeft(Add, << >>, [k \in 1..Len(text) |-> k - 1])

-----------------------------------------------------------------------------
(* The recursive strategy: split by the first separator, gather the parts   *)
(* up to the size, and split a part that is too long by the next one.       *)

Separators == << <<"newline", "newline">>, <<"newline">>, <<".", " ">>, <<" ">>, << >> >>

\* Mutant: a part is taken to the next separator only when it is twice too long.
TooLongTwice(part, size) == Len(part) > 2 * size
TooLong(part, size) == Len(part) > size

SplitRecursive(whole, size) ==
    LET Keep(pieces, piece) == IF Solid(piece) THEN Append(pieces, strip(piece)) ELSE pieces
        pieces[level \in DOMAIN Separators, text \in Seq(ToSet(whole))] ==
            LET sep == Separators[level]
                parts == split(text, sep)
                \* a blank is not put back between two parts
                Suffix(i) == IF i < Len(parts) /\ sep # <<" ">> THEN sep ELSE << >>
                Gather(acc, i) ==
                    LET candidate == acc.current \o parts[i] \o Suffix(i)
                        kept == Keep(acc.pieces, acc.current)
                    IN  IF Len(candidate) <= size THEN [acc EXCEPT !.current = candidate]
                        ELSE IF TooLong(parts[i], size)
                        THEN [pieces |-> kept \o pieces[level + 1, parts[i]], current |-> << >>]
                        ELSE [pieces |-> kept, current |-> parts[i] \o Suffix(i)]
                gathered == FoldLeft(Gather, [pieces |-> << >>, current |-> << >>],
                                     [i \in DOMAIN parts |-> i])
            IN  IF Len(text) <= size THEN Keep(<< >>, text)
                ELSE IF sep = << >>
                THEN FoldLeft(LAMBDA kept, k : Keep(kept, Slice(text, k * size, k * size + size)),
                              << >>, [k \in 1..Len(text) |-> k - 1])
                ELSE Keep(gathered.pieces, gathered.current)
    IN  pieces[1, whole]

\* Each piece is looked for from the end of the one before, then anywhere.
BuildChunksFromPieces(text, pieces) ==
    LET Add(acc, i) ==
            LET next == find(text, pieces[i], acc.from)
                start == IF next = -1 THEN find(text, pieces[i], 0) ELSE next
                end == start + Len(pieces[i])
            IN  [chunks |-> Append(acc.chunks, ChunkData(pieces[i], i - 1, start, end)),
                 from |-> end,
                 failed |-> acc.failed \/ start = -1]
        built == FoldLeft(Add, [chunks |-> << >>, from |-> 0, failed |-> FALSE],
                          [i \in DOMAIN pieces |-> i])
    IN  [chunks |-> built.chunks, raised |-> built.failed]

ChunkRecursive(text, size) ==
    BuildChunksFromPieces(text, SplitRecursive(text, size))

ChunkText(raw, strategy, size, overlap) ==
    LET text == strip(raw)
    IN  IF text = << >> THEN [chunks |-> << >>, raised |-> FALSE]
        ELSE IF strategy = "fixed"
        THEN [chunks |-> ChunkFixed(text, size, overlap), raised |-> FALSE]
        ELSE ChunkRecursive(text, size)

-----------------------------------------------------------------------------
(* What a caller relies on. *)

\* Chunk k is numbered in order and is what stands between its offsets.
Located(text, chunks) ==
    \A k \in DOMAIN chunks :
        /\ chunks[k].index = k - 1
        /\ chunks[k].content = strip(Slice(text, chunks[k].start, chunks[k].end))
        /\ chunks[k].content # << >>

InOrder(chunks) ==
    \A i, j \in DOMAIN chunks :
        i < j => chunks[i].start < chunks[j].start /\ chunks[i].end < chunks[j].end

Covered(text, chunks) ==
    \A i \in DOMAIN text :
        text[i] \in Blanks \/ \E k \in DOMAIN chunks : chunks[k].start < i /\ i <= chunks[k].end

IsLetter(c) == c \notin Blanks \cup {"."}
Letters(s) == SelectSeq(s, IsLetter)

\* A space only ends a sentence: none stands between two words.
SpacedBySentences(s) == \A i \in DOMAIN s : s[i] = " " => i > 1 /\ s[i - 1] = "."
=============================================================================
