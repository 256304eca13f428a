---------------------------- MODULE StreamRanges ----------------------------
(***************************************************************************)
(* What the stream server sends for a range of a file, an encrypted file   *)
(* or a zip (stream/internal/server encrypted.go, zip.go, ziplayout.go,    *)
(* shared/crypto/stream.go, shared/storage fsutil.go, backend.go).         *)
(*                                                                         *)
(* A byte is named for what it is: <<"byte", f, i>> is byte i of file f.   *)
(* An encrypted file is a sequence of packages: Overhead cells that carry  *)
(* the number of the package, then up to Package bytes.  A zip is a local  *)
(* header and the bytes of each file, then the trailer.  A range header is *)
(* the record of its two numbers, either of which may be missing.          *)
(*                                                                         *)
(* One question is open at a time: Ask puts it, an Answer action answers.  *)
(***************************************************************************)
EXTENDS Integers, Sequences, SequencesExt, RowOffsets

CONSTANTS
    MaxSize,    \* the longest file
    RangeMost,  \* the largest number of a range header
    Package,    \* darePlainPkg
    Overhead,   \* what encryption adds to a package
    HeaderLen,  \* length of a zip header without its zip64 extra field
    ExtraLen,   \* length of a zip64 extra field
    Marker,     \* zip64Marker, 2^32 - 1: the largest 32-bit field
    Packed      \* the sizes of the files of a zip: a set of sequences

ASSUME RangeAssumption ==
    /\ {MaxSize, RangeMost, Package, Overhead, HeaderLen, ExtraLen, Marker} \subseteq Nat \ {0}
    /\ Packed \subseteq Seq(0..MaxSize)

VARIABLES question, rangeAnswer
rangeVars == <<question, rangeAnswer>>

Missing == -1
Bounds  == [lo : Missing..RangeMost, hi : Missing..RangeMost]
NoRange == [lo |-> -2, hi |-> -2]   \* the request has no range header
Refused == [from |-> 0, to |-> -2]

(***************************************************************************)
(* Bytes.                                                                  *)
(***************************************************************************)
RangeFile(f, size)   == [i \in 1..size |-> <<"byte", f, i - 1>>]
Slice(s, a, b)  == SubSeq(s, a + 1, b + 1)          \* offsets a to b, from 0

Suffix(h, total) == [from |-> total - Least(h.hi, total), to |-> total - 1]

(* ParseRange of shared/storage: an end that is not before the last byte   *)
(* is the last byte.                                                       *)
ParseRange(h, total) ==
    LET to == IF h.hi # Missing /\ h.hi < total - 1 THEN h.hi ELSE total - 1 IN
    CASE h.lo = Missing /\ h.hi <= 0 -> Refused
      [] h.lo = Missing /\ h.hi > 0  -> Suffix(h, total)
      [] h.lo # Missing -> IF h.lo >= total \/ to < h.lo THEN Refused
                           ELSE [from |-> h.lo, to |-> to]

(* parseByteRange of zips and usenet streams.                              *)
ParseByteRange(h, size) ==
    CASE size = 0 -> Refused
      [] size # 0 /\ h.lo = Missing /\ h.hi <= 0 -> Refused
      [] size # 0 /\ h.lo = Missing /\ h.hi > 0  -> Suffix(h, size)
      [] size # 0 /\ h.lo # Missing ->
           IF h.lo >= size \/ (h.hi # Missing /\ h.hi < h.lo) THEN Refused
           ELSE [from |-> h.lo, to |-> IF h.hi = Missing THEN size - 1 ELSE Least(h.hi, size - 1)]

(* fsBackend.get: a range that cannot be satisfied is the whole file, and  *)
(* is told by the Content-Range that is missing.                           *)
Get(bytes, h) ==
    LET p == IF h = NoRange THEN Refused ELSE ParseRange(h, Len(bytes)) IN
    IF p = Refused THEN [body |-> bytes, range |-> Refused]
    ELSE [body |-> Slice(bytes, p.from, p.to), range |-> p]

(***************************************************************************)
(* Encryption.                                                             *)
(***************************************************************************)
EncPkg           == Package + Overhead
Packages(size)   == (size + Package - 1) \div Package
EncryptedSize(n) == n + Overhead * Packages(n)

(* DecryptedSize: a rest no longer than the overhead is not a package.     *)
Undecodable  == -1
PlainSize(n) ==
    LET rest == n % EncPkg IN
    IF rest \in 1..Overhead THEN Undecodable
    ELSE (n \div EncPkg) * Package + (IF rest = 0 THEN 0 ELSE rest - Overhead)

Seal(k) == [i \in 1..Overhead |-> <<"package", k>>]

(* The packages of bytes, numbered from 0.                                 *)
Encrypt(bytes) ==
    FlattenSeq([k \in 1..Packages(Len(bytes)) |->
        Seal(k - 1) \o Slice(bytes, (k - 1) * Package, Least(k * Package, Len(bytes)) - 1)])

(* DecryptReader from package number seq: everything up to the first       *)
(* package that is not the next one, or is cut.                            *)
Decrypt(cells, seq) ==
    LET count  == (Len(cells) + EncPkg - 1) \div EncPkg
        Part(k) == Slice(cells, (k - 1) * EncPkg, Least(k * EncPkg, Len(cells)) - 1)
        Good(k) == Len(Part(k)) > Overhead /\ SubSeq(Part(k), 1, Overhead) = Seal(seq + k - 1)
        good    == {n \in 0..count : \A k \in 1..n : Good(k)}
        last    == CHOOSE n \in good : \A m \in good : m <= n
    IN FlattenSeq([k \in 1..last |-> SubSeq(Part(k), Overhead + 1, Len(Part(k)))])

(* Bug: a range that ends on a package's last byte stops a package early.  *)
PlanRangeShort(start, end, plainTotal) ==
    LET firstPkg == start \div Package
        ends     == Least((end \div Package) * Package, plainTotal)
    IN [encStart |-> firstPkg * EncPkg, encEnd |-> EncryptedSize(ends), seq |-> firstPkg,
        skip |-> start - firstPkg * Package, length |-> end - start]

(* PlanRange: the packages bytes start to end - 1 lie in.                  *)
PlanRange(start, end, plainTotal) ==
    LET firstPkg == start \div Package
        lastPkg  == (end - 1) \div Package
        ends     == Least((lastPkg + 1) * Package, plainTotal)
    IN [encStart |-> firstPkg * EncPkg, encEnd |-> EncryptedSize(ends), seq |-> firstPkg,
        skip |-> start - firstPkg * Package, length |-> end - start]

(* DecryptRange: skip into the first package, then length bytes.           *)
DecryptRange(cells, plan) ==
    LET plain == Decrypt(cells, plan.seq)
    IN SubSeq(plain, plan.skip + 1, Least(plan.skip + plan.length, Len(plain)))

(***************************************************************************)
(* The layout of a zip of the files of sizes p.                            *)
(***************************************************************************)
Zip64(n)   == n >= Marker
Field32(n) == IF Zip64(n) THEN Marker ELSE n % (Marker + 1)
Extra(size, off) == (IF Zip64(size) THEN <<size>> ELSE <<>>) \o (IF Zip64(off) THEN <<off>> ELSE <<>>)

LocalHeader(f, size) ==
    [i \in 1..(HeaderLen + IF Zip64(size) THEN ExtraLen ELSE 0) |-> <<"local", f>>]

(* Bug: a field of exactly the marker is written as it is.                 *)
CentralHeaderPast(size, off) ==
    [size |-> Field32(size), off |-> Field32(off),
     extra |-> (IF size > Marker THEN <<size>> ELSE <<>>) \o (IF off > Marker THEN <<off>> ELSE <<>>)]

(* A record of the central directory: a field that does not fit is the     *)
(* marker, and its value the next of the extra field.                      *)
CentralHeader(size, off) ==
    [size |-> Field32(size), off |-> Field32(off), extra |-> Extra(size, off)]

CentralLen(c) == HeaderLen + IF c.extra = <<>> THEN 0 ELSE ExtraLen

(* The end records: both fields are the marker when one does not fit.      *)
EndRecords(cdSize, cdOff) ==
    LET z64 == Zip64(cdSize) \/ Zip64(cdOff) IN
    [size |-> IF z64 THEN Marker ELSE cdSize, off |-> IF z64 THEN Marker ELSE cdOff,
     z64 |-> IF z64 THEN <<cdSize, cdOff>> ELSE <<>>]

EndLen(e) == HeaderLen + IF e.z64 = <<>> THEN 0 ELSE ExtraLen

(* Where the local header of file f begins.                                *)
LocalOff(p) == Offsets([f \in 1..Len(p) |-> Len(LocalHeader(f, p[f])) + p[f]])

BuildZipLayout(p) ==
    LET at      == LocalOff(p)
        central == [f \in 1..Len(p) |-> CentralHeader(p[f], at[f])]
        cdOff   == at[Len(p) + 1]
        cdSize  == Offsets([f \in 1..Len(p) |-> CentralLen(central[f])])[Len(p) + 1]
        end     == EndRecords(cdSize, cdOff)
        trailer == [i \in 1..(cdSize + EndLen(end)) |-> <<"trailer", i - 1>>]
        Segs(f) == LET hdr == LocalHeader(f, p[f]) IN
                   <<[off |-> at[f], size |-> Len(hdr), hdr |-> hdr, file |-> 0],
                     [off |-> at[f] + Len(hdr), size |-> p[f], hdr |-> <<>>, file |-> f]>>
    IN [segs |-> FlattenSeq([f \in 1..Len(p) |-> Segs(f)])
                   \o <<[off |-> cdOff, size |-> Len(trailer), hdr |-> trailer, file |-> 0]>>,
        central |-> central, end |-> end, cdSize |-> cdSize, cdOff |-> cdOff,
        total |-> cdOff + Len(trailer)]

(* writeRange: of every segment in the range, the part in it; of a file,   *)
(* through a ranged Get of the file.                                       *)
WriteRange(layout, p, start, end) ==
    LET Part(s) ==
          LET segEnd == s.off + s.size - 1
              a == IF start > s.off THEN start ELSE s.off
              b == Least(end, segEnd)
          IN CASE segEnd < start \/ s.off > end -> <<>>
               [] ~(segEnd < start \/ s.off > end) /\ s.file = 0 -> Slice(s.hdr, a - s.off, b - s.off)
               [] ~(segEnd < start \/ s.off > end) /\ s.file # 0 ->
                    Get(RangeFile(s.file, p[s.file]), [lo |-> a - s.off, hi |-> b - s.off]).body
    IN FlattenSeq([i \in 1..Len(layout.segs) |-> Part(layout.segs[i])])

(***************************************************************************)
(* The handlers.                                                           *)
(***************************************************************************)
RangeReply(status, body, range) == [status |-> status, body |-> body, range |-> range]
Unanswered == RangeReply(0, <<>>, Refused)
Questions  ==
    [kind : {"file", "enc"}, size : {<<n>> : n \in 0..MaxSize}, range : Bounds \cup {NoRange}]
        \cup [kind : {"zip"}, size : Packed, range : Bounds \cup {NoRange}]

NoQuestion == [kind |-> "none"]

RangeInit == question = NoQuestion /\ rangeAnswer = Unanswered

(* A request comes, and is over once it is answered.                       *)
RangeAsk(q) == question = NoQuestion /\ question' = q /\ UNCHANGED rangeAnswer
Sent   == rangeAnswer # Unanswered /\ question' = NoQuestion /\ rangeAnswer' = Unanswered

(* serveFile.                                                              *)
AnswerFile ==
    /\ question.kind = "file"
    /\ LET got == Get(RangeFile(1, question.size[1]), question.range) IN
       rangeAnswer' = RangeReply(IF got.range = Refused THEN 200 ELSE 206, got.body, got.range)
    /\ UNCHANGED question

(* serveEncrypted: its size and its range are those of the plain file.     *)
AnswerEncrypted ==
    /\ question.kind = "enc"
    /\ LET cells == Encrypt(RangeFile(1, question.size[1]))
           total == PlainSize(Len(cells))
           p     == IF question.range = NoRange THEN Refused ELSE ParseRange(question.range, total)
           plan  == PlanRange(p.from, p.to + 1, total)
       IN rangeAnswer' =
            IF total = Undecodable THEN RangeReply(500, <<>>, Refused)
            ELSE IF question.range = NoRange THEN RangeReply(200, Decrypt(cells, 0), Refused)
            ELSE IF p = Refused \/ p.from > p.to THEN RangeReply(416, <<>>, Refused)
            ELSE RangeReply(206, DecryptRange(Get(cells, [lo |-> plan.encStart, hi |-> plan.encEnd - 1]).body,
                                         plan), p)
    /\ UNCHANGED question

(* serveZip of files that all have a checksum and are not encrypted.       *)
AnswerZip ==
    /\ question.kind = "zip"
    /\ LET layout == BuildZipLayout(question.size)
           whole  == [from |-> 0, to |-> layout.total - 1]
           p      == IF question.range = NoRange THEN whole ELSE ParseByteRange(question.range, layout.total)
       IN rangeAnswer' = IF p = Refused THEN RangeReply(416, <<>>, Refused)
                    ELSE RangeReply(IF question.range = NoRange THEN 200 ELSE 206,
                               WriteRange(layout, question.size, p.from, p.to),
                               IF question.range = NoRange THEN Refused ELSE p)
    /\ UNCHANGED question

RangeNext == (\E q \in Questions : RangeAsk(q)) \/ Sent \/ AnswerFile \/ AnswerEncrypted \/ AnswerZip
RangeSpec == RangeInit /\ [][RangeNext]_rangeVars

-----------------------------------------------------------------------------
(* The types of the variables.                                             *)
RangeTypeOK ==
    /\ question \in Questions \cup {NoQuestion}
    /\ rangeAnswer.status \in {0, 200, 206, 416}

(* The whole of what is asked for, byte by byte.                           *)
WholeRange ==
    IF question.kind # "zip" THEN RangeFile(1, question.size[1])
    ELSE LET layout == BuildZipLayout(question.size)
             p      == question.size
         IN FlattenSeq([f \in 1..Len(p) |-> LocalHeader(f, p[f]) \o RangeFile(f, p[f])])
              \o layout.segs[Len(layout.segs)].hdr

(* The offsets a range header asks for.                                    *)
Wanted(h, total) ==
    {i \in 0..(total - 1) :
        IF h.lo = Missing THEN h.hi # Missing /\ i >= total - h.hi
        ELSE i >= h.lo /\ (h.hi = Missing \/ i <= h.hi)}

(* Whatever it is and wherever the range begins and ends in it, a partial  *)
(* answer is exactly the bytes asked for, under the offsets its header     *)
(* names, and a full one is all of it; a range is refused, or answered in  *)
(* full, only when no byte of the object is in it.                         *)
AnswerIsSlice ==
    rangeAnswer.status # 0 =>
      LET whole == WholeRange
          h == question.range
      IN CASE rangeAnswer.status = 200 ->
                /\ rangeAnswer.body = whole
                /\ h # NoRange => Wanted(h, Len(whole)) = {}
           [] rangeAnswer.status = 206 ->
                /\ h # NoRange
                /\ rangeAnswer.range.from..rangeAnswer.range.to = Wanted(h, Len(whole))
                /\ rangeAnswer.body = Slice(whole, rangeAnswer.range.from, rangeAnswer.range.to)
           [] rangeAnswer.status = 416 -> h # NoRange /\ Wanted(h, Len(whole)) = {}
           [] OTHER -> FALSE

(* What a reader of a central record makes of it: a field at the marker    *)
(* stands for the next value of the extra field.                           *)
ReadCentral(c) ==
    LET inSize == IF c.size = Marker THEN 1 ELSE 0 IN
    [size |-> IF c.size # Marker THEN c.size ELSE IF Len(c.extra) >= 1 THEN c.extra[1] ELSE Missing,
     off  |-> IF c.off # Marker THEN c.off
              ELSE IF Len(c.extra) > inSize THEN c.extra[inSize + 1] ELSE Missing]

(* The directory of a zip leads to its files: read with the rules of zip64 *)
(* each record gives the size of its file and the offset of its local      *)
(* header, and the end record the offset of the directory.                 *)
DirectoryLeads ==
    question.kind = "zip" =>
      LET p == question.size
          layout == BuildZipLayout(p)
          end == layout.end
      IN /\ \A f \in 1..Len(p) :
              LET r == ReadCentral(layout.central[f]) IN
              /\ r.size = p[f]
              /\ WholeRange[r.off + 1] = <<"local", f>>
              /\ r.off > 0 => WholeRange[r.off] # <<"local", f>>
         /\ WholeRange[(IF end.off = Marker /\ end.z64 # <<>> THEN end.z64[2] ELSE end.off) + 1]
              = <<"trailer", 0>>

=============================================================================
