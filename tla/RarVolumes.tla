----------------------------- MODULE RarVolumes -----------------------------
(***************************************************************************)
(* Streaming a file out of the volumes of a stored RAR archive             *)
(* (shared/usenet/download stream_direct.go, order.go; shared/usenet/rarfs):*)
(* the volumes of an NZB are put in order, their headers are walked, and   *)
(* reads of the file inside are pieced together from the volumes.          *)
(*                                                                         *)
(* A volume is a name and a sequence of blocks; a block is a header of     *)
(* HeadLen bytes and the next piece of a file.  A volume may be cut: its   *)
(* post lacks the last bytes its headers announce.                         *)
(***************************************************************************)
EXTENDS Naturals, Sequences, SequencesExt, RowOffsets

CONSTANTS
    HeadLen,    \* bytes of a block header, and of the signature
    Unnumbered, \* 1 << 20: the number of a volume whose name has none
    ReadMost,   \* the largest offset that is read to
    Archives    \* the NZBs that may be opened

(* An archive is [volumes, par2, sizes, videos]: its volumes as the NZB    *)
(* lists them, whether a par2 set names them, and of the files inside the  *)
(* sizes and which are videos.  A volume is [name, real, blocks, cut], a   *)
(* block [type, file, from, len, stored]: bytes from on of the file.       *)
RarName     == [style : {"part", "rar", "rNN", "obf"}, n : Nat]
RarBlock(a) == [type : {"file", "end", "other"}, file : DOMAIN a.sizes \cup {"none"},
                from : Nat, len : Nat, stored : BOOLEAN]
RarVolume(a) == [name : RarName, real : RarName, blocks : Seq(RarBlock(a)) \ {<<>>}, cut : Nat]

ASSUME RarAssumption ==
    /\ HeadLen \in Nat \ {0} /\ Unnumbered \in Nat /\ ReadMost \in Nat
    /\ \A a \in Archives :
         /\ a.volumes \in Seq(RarVolume(a)) \ {<<>>} /\ a.par2 \in BOOLEAN
         /\ IsFiniteSet(DOMAIN a.sizes) /\ \A f \in DOMAIN a.sizes : a.sizes[f] \in Nat
         /\ a.videos \subseteq DOMAIN a.sizes

VARIABLES
    rar,    \* what is open, or Closed
    entries,    \* what rarfs.Open made of its volumes
    reading     \* the read under way, or NoRead

rarVars == <<rar, entries, reading>>

Closed  == [volumes |-> <<>>, par2 |-> FALSE]
NoRead  == [on |-> FALSE, off |-> 0, stop |-> 0, got |-> <<>>]

(* The bytes of a volume: header bytes, and bytes of files by their name.  *)
BlockBytes(b) ==
    [i \in 1..HeadLen |-> <<"head", 0>>] \o [i \in 1..b.len |-> <<b.file, b.from + i - 1>>]
VolumeBytes(v) ==
    LET all == [i \in 1..HeadLen |-> <<"signature", 0>>]
                 \o FlattenSeq([i \in 1..Len(v.blocks) |-> BlockBytes(v.blocks[i])])
    IN SubSeq(all, 1, Len(all) - v.cut)

(***************************************************************************)
(* orderVolumes.                                                           *)
(***************************************************************************)
RarNamed(name) == name.style \in {"part", "rar", "rNN"}

(* needsDeobf and deobfuscate: when no name says RAR, the names the par2   *)
(* set has for the first 16k of each file.                                 *)
Deobfuscated(a) ==
    IF a.par2 /\ \A i \in 1..Len(a.volumes) : ~RarNamed(a.volumes[i].name)
    THEN [i \in 1..Len(a.volumes) |-> [a.volumes[i] EXCEPT !.name = a.volumes[i].real]]
    ELSE a.volumes

\* Bug: .r00 and .rar have the same number.
RarVolNumShifted(name) ==
    CASE name.style = "part" -> name.n
      [] name.style = "rar"  -> 0
      [] name.style = "rNN"  -> name.n
      [] OTHER               -> Unnumbered

(* rarVolNum: x.partN.rar is N, x.rar comes before x.r00.                  *)
RarVolNum(name) ==
    CASE name.style = "part" -> name.n
      [] name.style = "rar"  -> 0
      [] name.style = "rNN"  -> 1 + name.n
      [] OTHER               -> Unnumbered

(* A stable sort: of two volumes of one number the one listed first.       *)
OrderVolumes(a) ==
    LET vs == Deobfuscated(a)
        Before(i, j) == \/ RarVolNum(vs[i].name) < RarVolNum(vs[j].name)
                        \/ RarVolNum(vs[i].name) = RarVolNum(vs[j].name) /\ i < j
        Rank(i) == Cardinality({j \in 1..Len(vs) : Before(j, i)}) + 1
    IN [k \in 1..Len(vs) |-> vs[CHOOSE i \in 1..Len(vs) : Rank(i) = k]]

(***************************************************************************)
(* rarfs.Open: the walk over the headers of every volume.                  *)
(***************************************************************************)
HeaderOff(v, i) == HeadLen + Offsets([j \in 1..Len(v.blocks) |-> HeadLen + v.blocks[j].len])[i]

(* The blocks a walk reaches: up to the end block, or the end of the       *)
(* volume, wherever its headers say it is.                                 *)
Walked(v) ==
    {i \in 1..Len(v.blocks) :
        /\ HeaderOff(v, i) < Len(VolumeBytes(v))
        /\ \A j \in 1..(i - 1) : v.blocks[j].type # "end"}

(* The places of the blocks, volume after volume.                          *)
Places(vs)     == FlattenSeq([k \in 1..Len(vs) |-> [i \in 1..Len(vs[k].blocks) |-> <<k, i>>]])
BlockAt(vs, p) == vs[p[1]].blocks[p[2]]
IsPiece(b, f)  == b.type = "file" /\ b.len > 0 /\ b.file = f

(* parseRar4File, parseRar5File and addFrag: the pieces of each name, in   *)
(* the order of the volumes and, in a volume, of its blocks.               *)
FragsOf(vs, name) ==
    LET Frag(p) == IF p[2] \in Walked(vs[p[1]]) /\ IsPiece(BlockAt(vs, p), name)
                   THEN <<[vol |-> p[1], off |-> HeaderOff(vs[p[1]], p[2]) + HeadLen,
                           length |-> BlockAt(vs, p).len]>>
                   ELSE <<>>
    IN FlattenSeq([q \in 1..Len(Places(vs)) |-> Frag(Places(vs)[q])])

FileBlocks(vs) == {b \in UNION {{vs[k].blocks[i] : i \in Walked(vs[k])} : k \in 1..Len(vs)} :
                 b.type = "file" /\ b.len > 0}

Open(a) ==
    LET vs == OrderVolumes(a) IN
    {[name |-> f, frags |-> FragsOf(vs, f), size |-> a.sizes[f],
      streamable |-> \A b \in FileBlocks(vs) : b.file = f => b.stored]
       : f \in {b.file : b \in FileBlocks(vs)}}

(* pickInner: the longest video that is stored.                            *)
Inner(es) ==
    LET fit == {e \in es : e.streamable /\ e.name \in rar.videos} IN
    IF fit = {} THEN {} ELSE {CHOOSE e \in fit : \A d \in fit : d.size <= e.size}

(***************************************************************************)
(* What RAR packs: volumes numbered in one order, which their names tell   *)
(* when any says RAR (x.rar before x.r00); in that order the blocks of a   *)
(* file hold it from its start, each from where the one before ends.  The  *)
(* end block is the last; what a volume is cut of is in its last block.    *)
(***************************************************************************)
NamedBefore(x, y) ==
    \/ x.style = y.style /\ x.style \in {"part", "rNN"} /\ x.n < y.n
    \/ x.style = "rar" /\ y.style = "rNN"

Ascending(names) == \A k, m \in DOMAIN names : k < m => NamedBefore(names[k], names[m])

Consecutive(vs) ==
    LET at   == Places(vs)
        B(q) == BlockAt(vs, at[q])
    IN \A f \in UNION {{b.file : b \in ToSet(vs[k].blocks)} : k \in 1..Len(vs)} :
         LET before == Offsets([q \in 1..Len(at) |-> IF IsPiece(B(q), f) THEN B(q).len ELSE 0])
         IN \A q \in 1..Len(at) : IsPiece(B(q), f) => B(q).from = before[q]

WellMade(v) ==
    LET n == Len(v.blocks) IN
    v.cut <= v.blocks[n].len /\ \A i \in 1..n : v.blocks[i].type = "end" => i = n

RarPacked(a) ==
    LET vols == a.volumes
        n    == Len(vols)
    IN /\ \A i \in 1..n : WellMade(vols[i])
       /\ \E order \in Bijection(1..n, 1..n) :
            /\ Ascending([k \in 1..n |-> vols[order[k]].real])
            /\ (\E i \in 1..n : RarNamed(vols[i].name)) => Ascending([k \in 1..n |-> vols[order[k]].name])
            /\ Consecutive([k \in 1..n |-> vols[order[k]]])

ASSUME ArchivesPacked == \A a \in Archives : RarPacked(a)

-----------------------------------------------------------------------------
RarInit == rar = Closed /\ entries = {} /\ reading = NoRead

OpenArchive(a) ==
    /\ rar = Closed
    /\ rar' = a
    /\ entries' = Open(a)
    /\ UNCHANGED reading

(* ReadAt of the bytes off to stop - 1 of the file inside.                 *)
RarReadAt(off, stop) ==
    /\ ~reading.on
    /\ Inner(entries) # {}
    /\ reading' = [on |-> TRUE, off |-> off, stop |-> stop, got |-> <<>>]
    /\ UNCHANGED <<rar, entries>>

Picked == CHOOSE e \in Inner(entries) : TRUE

(* The piece offset o is in, and where the piece begins: 0 when none.      *)
FragBase(k) == Offsets([j \in 1..Len(Picked.frags) |-> Picked.frags[j].length])[k]
FragAt(o) == {k \in 1..Len(Picked.frags) : FragBase(k) <= o /\ o < FragBase(k + 1)}

Here == reading.off + Len(reading.got)

(* One round of entryReader.ReadAt.  The end of a volume is not an error:  *)
(* of a volume that ends before the piece does the round gets nothing, and *)
(* the next round is the same.                                             *)
ReadFragment ==
    /\ reading.on /\ Here < reading.stop
    /\ \E k \in FragAt(Here) :
         LET f     == Picked.frags[k]
             from  == f.off + (Here - FragBase(k))
             want  == Least(FragBase(k + 1) - Here, reading.stop - Here)
             bytes == VolumeBytes(OrderVolumes(rar)[f.vol])
         IN reading' = [reading EXCEPT !.got = @ \o SubSeq(bytes, from + 1, Least(from + want, Len(bytes)))]
    /\ UNCHANGED <<rar, entries>>

\* Bug: a read past the last piece waits for more.
RarReadOverFull ==
    /\ reading.on /\ Here = reading.stop
    /\ reading' = NoRead
    /\ UNCHANGED <<rar, entries>>

(* Every byte is there, or no piece has the next one: io.EOF.              *)
RarReadOver ==
    /\ reading.on /\ (Here = reading.stop \/ FragAt(Here) = {})
    /\ reading' = NoRead
    /\ UNCHANGED <<rar, entries>>

RarNext ==
    \/ \E a \in Archives : OpenArchive(a)
    \/ \E off, stop \in 0..ReadMost : off < stop /\ RarReadAt(off, stop)
    \/ ReadFragment \/ RarReadOver

RarSpec == RarInit /\ [][RarNext]_rarVars /\ WF_rarVars(ReadFragment) /\ WF_rarVars(RarReadOver)

-----------------------------------------------------------------------------
(* The types of the variables.                                             *)
RarTypeOK ==
    /\ rar \in Archives \cup {Closed}
    /\ \A e \in entries : e.streamable \in BOOLEAN /\ Len(e.frags) > 0
    /\ reading.on \in BOOLEAN

(* What is read is the file that was packed, from the offset that was      *)
(* asked for, whatever order the NZB lists the volumes in and however they *)
(* are named, as long as names or the par2 set tell their order.           *)
Orderly == rar.par2 \/ \E i \in 1..Len(rar.volumes) : RarNamed(rar.volumes[i].name)
RarReadIsFile ==
    (reading.on /\ Orderly) =>
        \A i \in 1..Len(reading.got) : reading.got[i] = <<Picked.name, reading.off + i - 1>>

(* A read of entryReader ends, unless a volume is shorter than its headers *)
(* say: then the loop at rar.go:89 gets nothing, for ever.                 *)
RarReadEnds == (reading.on /\ \A i \in 1..Len(rar.volumes) : rar.volumes[i].cut = 0)
                 ~> ~reading.on

=============================================================================
