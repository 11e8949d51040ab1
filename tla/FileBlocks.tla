----------------------------- MODULE FileBlocks -----------------------------
(***************************************************************************)
(* The blocks of one file: how read and write (VeratyFS.py) find their way  *)
(* in File_Inode.data by the offsets at which the blocks end, and what      *)
(* truncate and extend make of them.  Blocks are sequences of bytes; their  *)
(* hashes, and where the bytes are kept, are DedupPipeline's subject.       *)
(*                                                                          *)
(* Positions in lists count from 0 as in the code, and a slice takes a      *)
(* negative bound as Python does.  Handlers run one at a time: a read that  *)
(* lets another task run (trio.sleep) has its data by then; truncate_down,  *)
(* which reads many times, is taken as one step.                            *)
(***************************************************************************)
EXTENDS Integers, FiniteSets, Sequences, SequencesExt, FiniteSetsExt

CONSTANTS
    MaxWrite,   \* bound: bytes of one write
    MaxWrites,  \* bound: writes, extensions and truncations
    MaxSize     \* bound: bytes of the file, and of the blocks one write replaces

ASSUME BoundAssumption == {MaxWrite, MaxWrites, MaxSize} \subseteq Nat

VARIABLES
    data,       \* File_Inode.data: the blocks
    offsets,    \* File_Inode.offsets: where each ends, when that was last computed
    size,       \* File_Inode.size
    content,    \* history: what a file with these writes contains
    updated,    \* history: a write was not at the end of the file
    grown,      \* history: a write came after offsets were computed
    writes      \* bound: writes so far

vars == <<data, offsets, size, content, updated, grown, writes>>

Zero == 0
Buffer(n) == [i \in 1..n |-> 10 * (writes + 1) + i]
Zeros(n) == [i \in 1..n |-> Zero]

TypeOK ==
    /\ data \in Seq(Seq(Nat))
    /\ \A i \in DOMAIN data : data[i] # << >>
    /\ offsets \in Seq(Nat)
    /\ \A i, j \in DOMAIN offsets : i < j => offsets[i] < offsets[j]
    /\ size \in Nat /\ content \in Seq(Nat)
    /\ updated \in BOOLEAN /\ grown \in BOOLEAN
    /\ writes \in 0..MaxWrites

Init ==
    /\ data = << >> /\ offsets = << >> /\ size = 0 /\ content = << >>
    /\ updated = FALSE /\ grown = FALSE /\ writes = 0

-----------------------------------------------------------------------------
(* Python's s[i], s[a:b], s[a:] and s[:b]. *)
Bound(s, i) == IF i < 0 THEN Max({0, Len(s) + i}) ELSE Min({i, Len(s)})
Item(s, i) == s[IF i < 0 THEN Len(s) + i + 1 ELSE i + 1]
Slice(s, a, b) == SubSeq(s, Bound(s, a) + 1, Bound(s, b))
From(s, a) == Slice(s, a, Len(s))
UpTo(s, b) == Slice(s, 0, b)

(* dedup: the buffer is cut into blocks where its content says. *)
Nth(cuts, i) == CHOOSE c \in cuts : Cardinality({b \in cuts : b <= c}) = i
CutAt(buf, cuts) ==
    [i \in 1..Cardinality(cuts) |->
        SubSeq(buf, IF i = 1 THEN 1 ELSE Nth(cuts, i - 1) + 1, Nth(cuts, i))]
Cuts(buf) == {CutAt(buf, inside \union {Len(buf)}) : inside \in SUBSET (1..Len(buf) - 1)}

(* calc_offsets, when there are none yet. *)
(* Mutant: the lengths of the blocks, without the blocks before them. *)
EndsOfEach(blocks) == [i \in DOMAIN blocks |-> Len(blocks[i])]

Ends(blocks) == [i \in DOMAIN blocks |-> Len(FlattenSeq(SubSeq(blocks, 1, i)))]
KnownOffsets == IF offsets = << >> THEN Ends(data) ELSE offsets

(* take_closest: the first block that ends at x or after it, or the last. *)
TakeClosest(ends, x) ==
    Min({Cardinality({i \in DOMAIN ends : ends[i] < x}), Len(ends) - 1})

(* Where a read starts: the block, and how far before its end. *)
StartOf(ends, offset) ==
    LET n == TakeClosest(ends, offset)
        blk == Item(ends, n)
    IN  CASE offset = 0 -> [blk |-> 0, diff |-> 0]
          [] offset # 0 /\ blk = offset -> [blk |-> n + 1, diff |-> 0]
          [] offset # 0 /\ blk < offset ->
                [blk |-> n - 1, diff |-> Item(ends, n - 1) - offset]
          [] offset # 0 /\ blk > offset -> [blk |-> n, diff |-> blk - offset]

(* Where it ends. *)
EndOf(ends, end_offset) ==
    LET n == TakeClosest(ends, end_offset)
    IN  [blk |-> n, diff |-> Item(ends, n) - end_offset]

(* get_file_data *)
FileData(start, end) == FlattenSeq(Slice(data, start, end + 1))

(* What a read raises when old offsets lead it past the last block. *)
IndexError == <<-1>>

(* retrieve_data(whole=False): the blocks, cut down to what was asked for. *)
RetrieveData(offset, length) ==
    LET ends == KnownOffsets
        end_offset == Min({size, offset + length})
        wanted == end_offset - offset
        start == StartOf(ends, offset)
        end == EndOf(ends, end_offset)
        blocks == FileData(start.blk, end.blk)
        tail == CASE start.blk = 0 -> From(blocks, offset)
                  [] start.blk >= Len(data) /\ start.diff > 0 -> IndexError
                  [] start.blk # 0 /\ start.blk < Len(data) /\ start.diff > 0 ->
                        From(blocks, Len(Item(data, start.blk)) - start.diff)
                  [] OTHER -> blocks
    IN  CASE data = << >> -> << >>
          [] data # << >> /\ start.blk = 0 /\ end.blk = 0 ->
                Slice(FileData(0, 1), offset, end_offset)
          [] data # << >> /\ ~ (start.blk = 0 /\ end.blk = 0) /\ size = end_offset ->
                From(blocks, -wanted)
          [] OTHER ->
                IF tail # IndexError /\ end.diff # 0 /\ Len(tail) > wanted THEN UpTo(tail, -end.diff) ELSE tail

-----------------------------------------------------------------------------
(* What the writes make of the file, whatever its blocks. *)
Overwritten(offset, buf) ==
    [i \in 1..Max({Len(content), offset + Len(buf)}) |->
        IF i > offset /\ i <= offset + Len(buf) THEN buf[i - offset]
        ELSE IF i <= Len(content) THEN content[i] ELSE Zero]

History(offset, buf) ==
    /\ content' = Overwritten(offset, buf)
    /\ updated' = (updated \/ offset # size)
    /\ grown' = (grown \/ offsets # << >>)
    /\ writes' = writes + 1

(* write, to the end of the file or beyond, or over its last byte: the      *)
(* blocks are added to those there are.                                     *)
Writes(offset, buf) ==
    /\ data = << >> \/ size = 0 \/ offset + Len(buf) >= size
    /\ \E blocks \in Cuts(buf) : data' = data \o blocks
    /\ size' = Max({size, offset + Len(buf)})
    /\ History(offset, buf)
    /\ UNCHANGED offsets

WriteEnd ==
    /\ writes < MaxWrites
    /\ \E offset \in 0..size + 1, n \in 1..MaxWrite :
        /\ offset + n <= MaxSize
        /\ Writes(offset, Buffer(n))

(* write, before the end: the blocks it touches are read (whole=True), the  *)
(* buffer put into them, and the result deduplicated in their place.        *)
Whole(offset, length) ==
    LET start == StartOf(KnownOffsets, offset)
        end == EndOf(KnownOffsets, offset + length)
    IN  IF start.blk = 0 /\ end.blk = 0
        THEN [diff |-> start.diff, start |-> 0, end |-> 0, blocks |-> FileData(0, 1)]
        ELSE [diff |-> start.diff, end |-> end.blk,
              start |-> IF start.diff < 0 THEN Max({0, start.blk - 1}) ELSE start.blk,
              blocks |-> FileData(start.blk, end.blk)]

(* pop(i) for i in first..last, while there is one; the positions move. *)
Popped(blocks, first, last) ==
    LET count == Max({0, last - first + 1})
        after[j \in 0..count] ==
            IF j = 0 THEN blocks
            ELSE IF first + j <= Len(after[j - 1]) THEN RemoveAt(after[j - 1], first + j)
            ELSE after[j - 1]
    IN  after[count]

WriteInside ==
    /\ writes < MaxWrites
    /\ data # << >>
    /\ \E offset \in 0..size - 1, n \in 1..MaxWrite :
        LET whole == Whole(offset, n)
            at == Max({0, whole.diff})
            buf == Buffer(n)
            patched == UpTo(whole.blocks, at) \o buf \o From(whole.blocks, at + n)
            rest == Popped(data, whole.start, whole.end)
        IN  /\ offset + n < size
            /\ Len(patched) <= MaxSize
            /\ \E blocks \in Cuts(patched) :
                data' = UpTo(rest, whole.start) \o blocks \o From(rest, whole.start)
            /\ History(offset, buf)
    /\ offsets' = KnownOffsets
    /\ UNCHANGED size

(* read: the offsets are computed the first time. *)
Read ==
    /\ data # << >>
    /\ offsets' = KnownOffsets
    /\ UNCHANGED <<data, size, content, updated, grown, writes>>

(* setattr to a larger size writes zeros to the end. *)
Extend ==
    /\ writes < MaxWrites
    /\ \E new_size \in size + 1..MaxSize : Writes(size, Zeros(new_size - size))

(* truncate_down: what is kept is read block by block and written to a new  *)
(* inode, each piece deduplicated on its own.                               *)
NothingKept == [blocks |-> << >>, offset |-> 0, done |-> FALSE]

Copied(kept, block, new_size) ==
    LET piece == RetrieveData(kept.offset, Min({Len(block), new_size - kept.offset}))
    IN  IF kept.done THEN kept
        ELSE [blocks |-> IF piece = << >> THEN kept.blocks ELSE Append(kept.blocks, piece),
              offset |-> kept.offset + Len(piece),
              done |-> \/ piece = IndexError
                       \/ Len(block) + kept.offset > new_size
                       \/ Len(piece) + kept.offset = new_size]

Kept(new_size) ==
    LET kept[i \in 0..Len(data)] ==
            IF i = 0 THEN NothingKept ELSE Copied(kept[i - 1], data[i], new_size)
    IN  kept[Len(data)].blocks

Truncated(new_size) ==
    /\ writes < MaxWrites
    /\ IndexError \notin ToSet(Kept(new_size))
    /\ data' = Kept(new_size)
    /\ size' = Len(FlattenSeq(Kept(new_size)))
    /\ content' = SubSeq(content, 1, Min({new_size, Len(content)}))
    /\ writes' = writes + 1
    /\ UNCHANGED <<updated, grown>>

(* Mutant: the new inode keeps the offsets of the old one. *)
TruncateDownKeepsOffsets ==
    \E new_size \in 0..size - 1 : Truncated(new_size) /\ offsets' = KnownOffsets

TruncateDown ==
    \E new_size \in 0..size - 1 : Truncated(new_size) /\ offsets' = << >>

(* truncate_down: an exception is logged, and the file stays what it was. *)
TruncateFails ==
    /\ \E new_size \in 0..size - 1 : IndexError \in ToSet(Kept(new_size))
    /\ offsets' = KnownOffsets
    /\ UNCHANGED <<data, size, content, updated, grown, writes>>

Next == WriteEnd \/ WriteInside \/ Read \/ Extend \/ TruncateDown \/ TruncateFails

Spec == Init /\ [][Next]_vars

-----------------------------------------------------------------------------
(* Every read of at least one byte of the file gives what the file contains.*)
ReadsContent ==
    \A offset \in 0..size - 1, length \in 1..MaxSize :
        RetrieveData(offset, length) =
            SubSeq(content, offset + 1, Min({Len(content), offset + length}))

(* A file that was written from its start to its end before it was read     *)
(* has the size and the bytes written, for reads of any offset and length,  *)
(* wherever its blocks end; and still has after it is truncated.            *)
WrittenOnceReadsBack ==
    ~ updated /\ ~ grown => size = Len(content) /\ ReadsContent

(* README: "Data Read/Write: Working", the known issue of writes in the     *)
(* middle "ONLY happens on updates"; tst_unlink reads back what it wrote    *)
(* with one write after the other.                                          *)
AppendedReadsBack == ~ updated => ReadsContent
=============================================================================
