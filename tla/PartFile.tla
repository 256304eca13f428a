------------------------------ MODULE PartFile ------------------------------
(***************************************************************************)
(* The download of one file by HTTP (shared/providers/parallel.go,         *)
(* download.go, ondisk.go): in parallel chunks where the server gives      *)
(* ranges, else in sequence from where the .part file ends, and again by   *)
(* its callers (downloadWithRenew in debrid.go, a repeated job).           *)
(*                                                                         *)
(* A parallel download makes the .part file as long as the file at once:   *)
(* what is stopped in the middle of one has its full length, and holes.    *)
(*                                                                         *)
(* Abstractions: a file is Size blocks, numbered; a response ends at any   *)
(* block; the probe of the range and the limit on the size are the choice  *)
(* between the two ways; a cancelled context is a stall or the end of the  *)
(* process; a server refuses a range beyond the end of the file (416).     *)
(***************************************************************************)
EXTENDS Integers, Sequences

CONSTANTS
  Size,          \* blocks of the file
  Chunk,         \* the chunks of a parallel download
  ChunkFrom,     \* Chunk -> first block
  ChunkTo,       \* Chunk -> last block
  MaxAttempts,   \* attempts of a chunk, and of a sequential download (6)
  MaxFetches     \* bound: FetchFile is called so often

ASSUME PartAssumption ==
  /\ Size \in Nat \ {0} /\ MaxAttempts \in Nat \ {0} /\ MaxFetches \in Nat
  /\ ChunkFrom \in [Chunk -> 1 .. Size] /\ ChunkTo \in [Chunk -> 1 .. Size]
  /\ \A i \in 1 .. Size : \E c \in Chunk : i \in ChunkFrom[c] .. ChunkTo[c]

VARIABLES
  way,        \* "idle", "parallel", "opening", "reading", "failed", "done"
  part,       \* the .part file: a sequence of block numbers, 0 a hole
  cursor,     \* Chunk -> its next block
  partTries,  \* Chunk -> failed attempts
  reach,      \* resilient's written
  serial,     \* failed attempts of the sequential download
  alive,      \* the context of this fetch
  fetches

partVars == <<way, part, cursor, partTries, reach, serial, alive, fetches>>

PartInit ==
  /\ way = "idle" /\ part = <<>>
  /\ cursor = [c \in Chunk |-> ChunkFrom[c]] /\ partTries = [c \in Chunk |-> 0]
  /\ reach = 0 /\ serial = 0 /\ alive = TRUE /\ fetches = 0

Resized(n) == [i \in 1 .. n |-> IF i <= Len(part) THEN part[i] ELSE 0]
Placed(b) == [part EXCEPT ![b] = b]

\* FetchFile, fetchToPart, probeRange; for the first time or after a failure.
FetchFile ==
  /\ way \in {"idle", "failed"} /\ fetches < MaxFetches
  /\ fetches' = fetches + 1 /\ alive' = TRUE /\ serial' = 0
  /\ \/ /\ way' = "parallel" /\ part' = Resized(Size)
        /\ cursor' = [c \in Chunk |-> ChunkFrom[c]] /\ partTries' = [c \in Chunk |-> 0]
        /\ UNCHANGED reach
     \/ /\ way' = "opening" /\ reach' = Len(part)
        /\ UNCHANGED <<part, cursor, partTries>>

ChunkOver(c) == cursor[c] > ChunkTo[c] \/ partTries[c] = MaxAttempts

\* fetchChunk, copyChunkAt: a block arrives, or the response ends, short or refused.
ChunkBlock(c) ==
  /\ way = "parallel" /\ alive /\ ~ChunkOver(c)
  /\ part' = Placed(cursor[c]) /\ cursor' = [cursor EXCEPT ![c] = @ + 1]
  /\ UNCHANGED <<way, partTries, reach, serial, alive, fetches>>

ChunkBreaks(c) ==
  /\ way = "parallel" /\ alive /\ ~ChunkOver(c)
  /\ partTries' = [partTries EXCEPT ![c] = @ + 1]
  /\ UNCHANGED <<way, part, cursor, reach, serial, alive, fetches>>

\* Bug: one chunk that has come to its end is enough.
ParallelOverEarly ==
  /\ way = "parallel" /\ alive
  /\ \E c \in Chunk : cursor[c] > ChunkTo[c]
  /\ way' = "done" /\ UNCHANGED <<part, cursor, partTries, reach, serial, alive, fetches>>

\* All chunks have ended.  A failure without a cancellation removes the file and goes on in
\* sequence.
ParallelOver ==
  /\ way = "parallel" /\ alive /\ \A c \in Chunk : ChunkOver(c)
  /\ IF \A c \in Chunk : cursor[c] > ChunkTo[c]
     THEN way' = "done" /\ UNCHANGED <<part, reach>>
     ELSE way' = "opening" /\ part' = <<>> /\ reach' = 0
  /\ UNCHANGED <<cursor, partTries, serial, alive, fetches>>

\* Bug: the attempts are not counted.
SerialFailsUncounted ==
  /\ way' = "opening" /\ UNCHANGED <<part, cursor, partTries, reach, serial, alive, fetches>>
\* A failed attempt; after the last one Download removes the file.
SerialFails ==
  /\ serial' = serial + 1
  /\ IF serial' = MaxAttempts THEN way' = "failed" /\ part' = <<>>
                              ELSE way' = "opening" /\ UNCHANGED part
  /\ UNCHANGED <<cursor, partTries, reach, alive, fetches>>

\* Bug: the whole file is appended to what there is.
OpenFullAppends ==
  /\ way = "opening" /\ alive /\ way' = "reading" /\ reach' = 0
  /\ UNCHANGED <<part, cursor, partTries, serial, alive, fetches>>

\* HTTPRange: no answer; 200, the whole file whatever was asked; 206 from there.
OpenFails == way = "opening" /\ alive /\ SerialFails

OpenFull ==
  /\ way = "opening" /\ alive /\ way' = "reading"
  /\ part' = <<>> /\ reach' = 0
  /\ UNCHANGED <<cursor, partTries, serial, alive, fetches>>

OpenPartial ==
  /\ way = "opening" /\ alive /\ reach > 0 /\ reach < Size /\ way' = "reading"
  /\ UNCHANGED <<part, cursor, partTries, reach, serial, alive, fetches>>

ReadBlock ==
  /\ way = "reading" /\ alive /\ reach < Size
  /\ part' = Append(part, reach + 1) /\ reach' = reach + 1
  /\ UNCHANGED <<way, cursor, partTries, serial, alive, fetches>>

\* Bug: a body that ends early is the end of the file.
ReadBreaksDone ==
  /\ way = "reading" /\ alive /\ reach < Size /\ way' = "done"
  /\ UNCHANGED <<part, cursor, partTries, reach, serial, alive, fetches>>

\* The body ends early, with an error or as if it were complete (truncated).
ReadBreaks == way = "reading" /\ alive /\ reach < Size /\ SerialFails

ReadOver ==
  /\ way = "reading" /\ alive /\ reach = Size /\ way' = "done"
  /\ UNCHANGED <<part, cursor, partTries, reach, serial, alive, fetches>>

\* FetchFileStalled's watchdog, or the process ends: the .part file stays.
Cancelled ==
  /\ way \in {"parallel", "opening", "reading"} /\ alive
  /\ alive' = FALSE /\ way' = "failed"
  /\ UNCHANGED <<part, cursor, partTries, reach, serial, fetches>>

PartStep ==
  \/ FetchFile
  \/ \E c \in Chunk : ChunkBlock(c) \/ ChunkBreaks(c)
  \/ ParallelOver \/ OpenFails \/ OpenFull \/ OpenPartial
  \/ ReadBlock \/ ReadBreaks \/ ReadOver
PartNext == PartStep \/ Cancelled

\* A response ends: FetchFileStalled cancels a download that makes no progress.
PartFairness == WF_partVars(PartStep)
PartSpec == PartInit /\ [][PartNext]_partVars /\ PartFairness

----------------------------------------------------------------------------
\* The variables have the types the code gives them.
PartTypeOK ==
  /\ way \in {"idle", "parallel", "opening", "reading", "failed", "done"}
  /\ part \in Seq(0 .. Size) /\ Len(part) <= Size
  /\ cursor \in [Chunk -> 1 .. Size + 1] /\ partTries \in [Chunk -> 0 .. MaxAttempts]
  /\ reach \in 0 .. Size /\ serial \in 0 .. MaxAttempts
  /\ alive \in BOOLEAN /\ fetches \in 0 .. MaxFetches

\* A file that is renamed from .part is the remote file, block by block, whatever way it was
\* fetched, however often it was resumed, and whatever an earlier fetch had left
\* (OnDisk and the size check after the download cannot see a hole).
DoneIsWhole == way = "done" => part = [i \in 1 .. Size |-> i]

\* In sequence, the next block goes where the last one ended: nothing is written over or
\* behind a hole of a parallel download that was stopped (resilient's written).
ReadsInPlace ==
  way = "reading" => Len(part) = reach /\ \A i \in 1 .. reach : part[i] = i

\* A fetch ends, with servers that break off every response too.
FetchFileEnds == way \in {"parallel", "opening", "reading"} ~> way \in {"failed", "done"}
=============================================================================
