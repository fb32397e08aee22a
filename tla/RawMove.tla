------------------------------ MODULE RawMove ------------------------------
(***************************************************************************)
(* The raw relocation of a partition's bytes on a physical disk            *)
(* (PE end, core/expand_move.rs): plan_raw_move_io decides whether a move  *)
(* may start, raw_move_right copies a range towards the end of the disk    *)
(* from its tail to its head, raw_move_left copies it towards the start    *)
(* from its head to its tail, one chunk after the other.  Source and       *)
(* destination may overlap.                                                *)
(*                                                                         *)
(* The disk is a function from addresses to contents.  A write is durable  *)
(* when it returns (FILE_FLAG_WRITE_THROUGH) and may be cut anywhere: a    *)
(* short write or a power loss leaves any part of the chunk written.       *)
(***************************************************************************)
EXTENDS Integers

CONSTANTS
    disk_size_bytes,    \* length of the disk
    Content,            \* what one address can hold
    Logical,            \* logical sector size
    COPY_CHUNK,         \* preferred chunk length
    MaxPointer          \* i64::MAX, the last position SetFilePointerEx accepts

Addresses == 0 .. (disk_size_bytes - 1)

Directions == {"left", "right"}

\* The moves callers may ask for.
Moves == [direction : Directions, src : Nat, len : Nat, delta : Nat]

ASSUME DiskAssumption == disk_size_bytes \in Nat /\ MaxPointer \in Nat

ASSUME ChunkAssumption == Logical \in Nat \ {0} /\ COPY_CHUNK \in Nat \ {0}

VARIABLES
    disk,       \* contents of the physical disk
    pc,         \* where the move stands
    move,       \* the requested move
    pos,        \* the loop variable: `pos` to the right, `position` to the left
    buffer,     \* the I/O buffer, indexed by the address the bytes came from
    before      \* the disk as the move found it; for the properties only

vars == <<disk, pc, move, pos, buffer, before>>

Terminal == {"refused", "done", "failed", "lost"}

-----------------------------------------------------------------------------
(***************************************************************************)
(* Planning.                                                               *)
(***************************************************************************)

\* The chunk is a multiple of the logical sector; it does not depend on delta.
chunk_bytes ==
    LET preferred == IF COPY_CHUNK > Logical THEN COPY_CHUNK ELSE Logical
    IN  preferred - (preferred % Logical)

\* The address at which byte i of the moved range ends up.
Destination(m, i) == IF m.direction = "right" THEN m.src + m.delta + i
                                              ELSE m.src - m.delta + i

plan_raw_move_io(m) ==
    /\ m.len # 0 /\ m.delta # 0
    /\ m.src % Logical = 0 /\ m.len % Logical = 0 /\ m.delta % Logical = 0
    /\ Destination(m, 0) >= 0
    /\ m.src + m.len <= disk_size_bytes
    /\ Destination(m, m.len) <= disk_size_bytes
    /\ m.src + m.len <= MaxPointer
    /\ Destination(m, m.len) <= MaxPointer

-----------------------------------------------------------------------------
(***************************************************************************)
(* The copy loop.                                                          *)
(***************************************************************************)

\* Bytes the loop still has to move.
Left(m, p) == IF m.direction = "right" THEN p ELSE m.len - p

\* Length of the next chunk.
this(m, p) == IF chunk_bytes < Left(m, p) THEN chunk_bytes ELSE Left(m, p)

rel_Forwards(m, p) == IF m.direction = "right" THEN m.len - p ELSE p

\* Start of the next chunk within the moved range.
rel(m, p) == IF m.direction = "right" THEN p - this(m, p) ELSE p

\* The offsets of the next chunk within the moved range.
ChunkOf(m, p) == rel(m, p) .. (rel(m, p) + this(m, p) - 1)

\* The disk after the offsets in S of the moved range were written.
Written(d, m, b, S) ==
    [a \in Addresses |-> IF \E i \in S : a = Destination(m, i)
                         THEN b[a - Destination(m, 0) + m.src]
                         ELSE d[a]]

Init == /\ disk \in [Addresses -> Content]
        /\ pc = "idle"
        /\ move \in Moves
        /\ pos = 0
        /\ buffer = disk
        /\ before = disk

\* raw_move_right / raw_move_left up to the first check of the request.
Request == /\ pc = "idle"
           /\ pc' = IF plan_raw_move_io(move) THEN "verify" ELSE "refused"
           /\ before' = disk
           /\ UNCHANGED <<disk, move, pos, buffer>>

\* The disk is opened and its layout compared with the expected snapshot.
verify_disk_layout_snapshot ==
    /\ pc = "verify"
    /\ \/ /\ pc' = "read"
          /\ pos' = IF move.direction = "right" THEN move.len ELSE 0
       \/ /\ pc' = "refused"
          /\ UNCHANGED pos
    /\ UNCHANGED <<disk, move, buffer, before>>

read_exact_FullChunksOnly ==
    /\ pc = "read"
    /\ Left(move, pos) >= chunk_bytes
    /\ buffer' = [a \in Addresses |->
                     IF \E i \in ChunkOf(move, pos) : a = move.src + i
                     THEN disk[a] ELSE buffer[a]]
    /\ pc' = "write"
    /\ UNCHANGED <<disk, move, pos, before>>

read_exact == /\ pc = "read"
              /\ Left(move, pos) > 0
              /\ buffer' = [a \in Addresses |->
                              IF \E i \in ChunkOf(move, pos) : a = move.src + i
                              THEN disk[a] ELSE buffer[a]]
              /\ pc' = "write"
              /\ UNCHANGED <<disk, move, pos, before>>

write_exact ==
    /\ pc = "write"
    /\ disk' = Written(disk, move, buffer, ChunkOf(move, pos))
    /\ pos' = IF move.direction = "right" THEN pos - this(move, pos)
                                          ELSE pos + this(move, pos)
    /\ pc' = "read"
    /\ UNCHANGED <<move, buffer, before>>

FlushFileBuffers_TooEarly ==
    /\ pc = "read"
    /\ Left(move, pos) < chunk_bytes
    /\ pc' = "done"
    /\ UNCHANGED <<disk, move, pos, buffer, before>>

FlushFileBuffers == /\ pc = "read"
                    /\ Left(move, pos) = 0
                    /\ pc' = "done"
                    /\ UNCHANGED <<disk, move, pos, buffer, before>>

\* A seek, a read, the flush or a short read fails, or a write fails or is
\* short: any part of the chunk may have reached the disk.
IoFails == /\ \/ pc = "read" /\ UNCHANGED disk
              \/ /\ pc = "write"
                 /\ \E S \in SUBSET ChunkOf(move, pos) :
                       disk' = Written(disk, move, buffer, S)
           /\ pc' = "failed"
           /\ UNCHANGED <<move, pos, buffer, before>>

\* Power is lost during the copy; a write under way may have been carried out
\* in part.  (A loss before the copy leaves what a refusal leaves.)
PowerLoss == /\ \/ pc = "read" /\ UNCHANGED disk
                \/ /\ pc = "write"
                   /\ \E S \in SUBSET ChunkOf(move, pos) :
                         disk' = Written(disk, move, buffer, S)
             /\ pc' = "lost"
             /\ UNCHANGED <<move, pos, buffer, before>>

Copy == read_exact \/ write_exact \/ FlushFileBuffers

Next == \/ Request \/ verify_disk_layout_snapshot
        \/ Copy \/ IoFails \/ PowerLoss

Spec == Init /\ [][Next]_vars

\* The moving thread keeps running while power and disk last.
Fairness == WF_vars(Request \/ verify_disk_layout_snapshot \/ Copy)

-----------------------------------------------------------------------------
(***************************************************************************)
(* Properties.                                                             *)
(***************************************************************************)

\* The loop variable stays inside the moved range and the disk keeps its
\* shape: no index expression of the copy loop underflows.
TypeOK == /\ disk \in [Addresses -> Content]
          /\ pc \in {"idle", "verify", "read", "write"} \union Terminal
          /\ move \in Moves
          /\ pos \in 0 .. move.len
          /\ buffer \in [Addresses -> Content]
          /\ before \in [Addresses -> Content]

\* Byte i of the moved range is where the move puts it, or still where it was.
Arrived(i) == disk[Destination(move, i)] = before[move.src + i]
AtSource(i) == disk[move.src + i] = before[move.src + i]

\* A move that reports success has put every byte of the range at its new
\* place, although the ranges may overlap by any amount: the copying order
\* never reads an address that an earlier chunk has overwritten.
MoveExact == pc = "done" => \A i \in 0 .. (move.len - 1) : Arrived(i)

\* However a move ends, it changes nothing outside the destination range, and
\* nothing at all when it is refused.
Confined == \A a \in Addresses :
               disk[a] # before[a] =>
                  /\ pc \notin {"idle", "verify", "refused"}
                  /\ a \in Destination(move, 0) .. (Destination(move, move.len) - 1)

\* A boundary below which (to the right; above which to the left) the bytes
\* are still at their source and beyond which they have arrived.
SplitAt(k) == \A i \in 0 .. (move.len - 1) :
                 IF (i < k) <=> (move.direction = "right") THEN AtSource(i)
                                                         ELSE Arrived(i)

\* An interrupted move loses no byte as long as the distance is at least one
\* chunk: what has not arrived is still at its source, separated by a single
\* boundary.  (With a shorter distance a write that is cut short can overwrite
\* bytes of its own chunk whose only other copy was in memory.)
Salvageable == /\ pc \in {"read", "write", "done", "failed", "lost"}
               /\ move.delta >= chunk_bytes \/ pc \notin {"failed", "lost"}
               => \E k \in 0 .. move.len : SplitAt(k)

\* Every accepted move ends: each round moves at least one byte.
Terminates == pc = "verify" ~> pc \in Terminal

-----------------------------------------------------------------------------
(***************************************************************************)
(* The inductive invariant behind the proofs of ExpandMoveProofs.          *)
(***************************************************************************)

Copying == {"read", "write", "done", "failed", "lost"}

\* The loop has passed offset i of the moved range.
Passed(i) == IF move.direction = "right" THEN i >= pos ELSE i < pos

Offsets == 0 .. (move.len - 1)

PassedArrived == \A i \in Offsets : Passed(i) => Arrived(i)

\* Only destinations of passed bytes, and of the current chunk when its write
\* was cut short, have changed.
OthersKept ==
    \A a \in Addresses :
       (\A i \in Offsets : Passed(i) \/ (pc \in {"failed", "lost"} /\ i \in ChunkOf(move, pos))
                              => a # Destination(move, i))
          => disk[a] = before[a]

ChunkBuffered == \A i \in ChunkOf(move, pos) : buffer[move.src + i] = before[move.src + i]

IInv == /\ TypeOK
        /\ pc \in {"idle", "verify", "refused"} => disk = before
        /\ pc \in Copying \union {"verify"} => plan_raw_move_io(move)
        /\ pc \in Copying => PassedArrived /\ OthersKept
        /\ pc = "write" => Left(move, pos) > 0 /\ ChunkBuffered
        /\ pc = "done" => Left(move, pos) = 0
=============================================================================
