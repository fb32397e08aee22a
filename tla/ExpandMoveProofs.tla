-------------------------- MODULE ExpandMoveProofs --------------------------
(***************************************************************************)
(* Proofs about the raw move and the expansion of the system partition.    *)
(*                                                                         *)
(* The raw move of RawMove, for every disk, every chunk length and every   *)
(* request: it is exact when it succeeds, it never writes outside the      *)
(* destination, and an interrupted move can be salvaged.  The inductive    *)
(* invariant says which bytes have moved (those the loop variable has      *)
(* passed), that nothing else has been written, and that the buffer of a   *)
(* pending write holds the original bytes of its chunk.                    *)
(*                                                                         *)
(* The expansion of ExpandMove, for every disk, every set of layouts and   *)
(* any number of starts: the table stays sound, what was not confirmed     *)
(* stays whole, and a start that finds every partition whole and completes *)
(* has lost nothing.  Its invariant says where the partitions still to be  *)
(* moved lie, that there is room for the one in hand, and whose data is    *)
(* where.                                                                  *)
(***************************************************************************)
EXTENDS ExpandMove, WellFoundedInduction, TLAPS

\* A chunk holds at least one byte, whatever the sector size: the copy loop
\* makes progress.
LEMMA ChunkPositive == chunk_bytes \in Nat \ {0}
<1> DEFINE preferred == IF COPY_CHUNK > Logical THEN COPY_CHUNK ELSE Logical
<1>1. preferred \in Nat /\ preferred >= Logical /\ Logical \in Nat /\ Logical > 0
  BY ChunkAssumption
<1>2. preferred % Logical \in 0 .. (Logical - 1)
  BY <1>1
<1>3. chunk_bytes = preferred - (preferred % Logical)
  BY DEF chunk_bytes
<1> HIDE DEF preferred
<1> QED
  BY <1>1, <1>2, <1>3

\* The next chunk is a non-empty part of what the loop has not passed, next to
\* what it has passed.
LEMMA ChunkShape ==
  ASSUME TypeOK, Left(move, pos) > 0
  PROVE  /\ this(move, pos) \in 1 .. Left(move, pos)
         /\ this(move, pos) <= chunk_bytes
         /\ rel(move, pos) \in Nat
         /\ rel(move, pos) + this(move, pos) <= move.len
         /\ \A i \in ChunkOf(move, pos) : i \in Offsets /\ ~Passed(i)
<1>1. move \in Moves /\ pos \in 0 .. move.len
  BY DiskAssumption DEF TypeOK
<1>2. move.len \in Nat /\ pos \in Nat /\ pos <= move.len /\ move.direction \in Directions
  BY <1>1 DEF Moves
<1>3. Left(move, pos) \in Nat
  BY <1>2 DEF Left
<1>4. this(move, pos) \in 1 .. Left(move, pos) /\ this(move, pos) <= chunk_bytes
  BY <1>3, ChunkPositive DEF this
<1>5. rel(move, pos) \in Nat /\ rel(move, pos) + this(move, pos) <= move.len
  BY <1>2, <1>4 DEF rel, Left
<1>6. \A i \in ChunkOf(move, pos) : i \in Offsets /\ ~Passed(i)
  BY <1>2, <1>4, <1>5 DEF ChunkOf, Offsets, Passed, rel, Left
<1> QED
  BY <1>4, <1>5, <1>6

\* Where bytes of an accepted move come from and go to.
LEMMA InsideDisk ==
  ASSUME TypeOK, plan_raw_move_io(move)
  PROVE  \A i \in Offsets : /\ move.src + i \in Addresses
                            /\ Destination(move, i) \in Addresses
                            /\ Destination(move, i) - Destination(move, 0) + move.src
                                  = move.src + i
<1>1. move \in Moves
  BY DiskAssumption DEF TypeOK
<1>2. /\ move.src \in Nat /\ move.len \in Nat /\ move.delta \in Nat
      /\ move.direction \in Directions
  BY <1>1 DEF Moves
<1>3. /\ Destination(move, 0) >= 0
      /\ move.src + move.len <= disk_size_bytes
      /\ Destination(move, move.len) <= disk_size_bytes
  BY DEF plan_raw_move_io
<1>4. disk_size_bytes \in Nat
  BY DiskAssumption
<1> QED
  BY <1>2, <1>3, <1>4 DEF Offsets, Destination, Addresses

\* What writing the offsets S of a chunk does to the disk.
LEMMA WriteEffect ==
  ASSUME TypeOK, plan_raw_move_io(move), NEW S, S \subseteq Offsets
  PROVE  /\ Written(disk, move, buffer, S) \in [Addresses -> Content]
         /\ \A i \in S : Written(disk, move, buffer, S)[Destination(move, i)]
                            = buffer[move.src + i]
         /\ \A a \in Addresses : (\A i \in S : a # Destination(move, i))
                                    => Written(disk, move, buffer, S)[a] = disk[a]
<1>1. \A i \in Offsets : /\ move.src + i \in Addresses
                         /\ Destination(move, i) \in Addresses
                         /\ Destination(move, i) - Destination(move, 0) + move.src = move.src + i
  BY InsideDisk
<1> DEFINE W == Written(disk, move, buffer, S)
<1>2. W = [a \in Addresses |-> IF \E i \in S : a = Destination(move, i)
                               THEN buffer[a - Destination(move, 0) + move.src]
                               ELSE disk[a]]
  BY DEF Written
<1>3. disk \in [Addresses -> Content] /\ buffer \in [Addresses -> Content]
  BY DEF TypeOK
<1>4. \A i \in S : /\ Destination(move, i) \in Addresses
                   /\ Destination(move, i) - Destination(move, 0) + move.src = move.src + i
                   /\ move.src + i \in Addresses
  BY <1>1
<1>5. \A i \in S : W[Destination(move, i)] = buffer[move.src + i]
  <2> TAKE i \in S
  <2>1. W[Destination(move, i)] = buffer[Destination(move, i) - Destination(move, 0) + move.src]
    BY <1>2, <1>4
  <2> QED
    BY <2>1, <1>4
<1>6. \A a \in Addresses : (\A i \in S : a # Destination(move, i)) => W[a] = disk[a]
  BY <1>2
<1>7. W \in [Addresses -> Content]
  <2>1. \A a \in Addresses : (\E i \in S : a = Destination(move, i))
            => buffer[a - Destination(move, 0) + move.src] \in Content
    <3> SUFFICES ASSUME NEW a \in Addresses, NEW i \in S, a = Destination(move, i)
                 PROVE  buffer[a - Destination(move, 0) + move.src] \in Content
      OBVIOUS
    <3>1. a - Destination(move, 0) + move.src \in Addresses
      BY <1>4
    <3> QED
      BY <3>1, <1>3
  <2> QED
    BY <1>2, <1>3, <2>1
<1> QED
  BY <1>5, <1>6, <1>7

\* The types of the fields of an admissible request.
LEMMA MoveTyped ==
  ASSUME TypeOK
  PROVE  /\ move.src \in Nat /\ move.len \in Nat /\ move.delta \in Nat
         /\ move.direction \in Directions
         /\ pos \in Nat /\ pos <= move.len
<1>1. move \in Moves /\ pos \in 0 .. move.len
  BY DiskAssumption DEF TypeOK
<1> QED
  BY <1>1 DEF Moves

\* Reading a chunk that the loop has not passed reads original bytes.
LEMMA ReadKeeps ==
  ASSUME IInv, read_exact
  PROVE  IInv'
<1>1. /\ TypeOK /\ pc = "read" /\ Left(move, pos) > 0 /\ plan_raw_move_io(move)
      /\ PassedArrived /\ OthersKept
  BY DEF IInv, read_exact, Copying
<1>2. /\ pc' = "write" /\ disk' = disk /\ move' = move /\ pos' = pos /\ before' = before
      /\ buffer' = [a \in Addresses |-> IF \E i \in ChunkOf(move, pos) : a = move.src + i
                                        THEN disk[a] ELSE buffer[a]]
  BY DEF read_exact
<1>3. TypeOK'
  BY <1>1, <1>2 DEF TypeOK
<1>4. \A i \in ChunkOf(move, pos) : i \in Offsets /\ ~Passed(i)
  BY <1>1, ChunkShape
<1>5. \A i \in ChunkOf(move, pos) : disk[move.src + i] = before[move.src + i]
  <2> TAKE i \in ChunkOf(move, pos)
  <2>1. i \in Offsets /\ ~Passed(i) /\ move.src + i \in Addresses
    BY <1>1, <1>4, InsideDisk
  <2>2. \A j \in Offsets : Passed(j) => move.src + i # Destination(move, j)
    <3>1. move.delta # 0
      BY <1>1 DEF plan_raw_move_io
    <3> QED
      BY <1>1, <2>1, <3>1, MoveTyped DEF Passed, Destination, Offsets
  <2> QED
    BY <1>1, <2>1, <2>2 DEF OthersKept
<1>6. ChunkBuffered'
  <2>1. \A i \in ChunkOf(move, pos) : buffer'[move.src + i] = before[move.src + i]
    <3> TAKE i \in ChunkOf(move, pos)
    <3>1. move.src + i \in Addresses
      BY <1>1, <1>4, InsideDisk
    <3>2. buffer'[move.src + i] = disk[move.src + i]
      BY <1>2, <3>1
    <3> QED
      BY <3>2, <1>5
  <2> QED
    BY <1>2, <2>1 DEF ChunkBuffered, ChunkOf, rel, this, Left
<1>7. PassedArrived' /\ OthersKept' /\ plan_raw_move_io(move)' /\ (Left(move, pos) > 0)'
  BY <1>1, <1>2 DEF PassedArrived, OthersKept, Passed, Offsets, Arrived, Destination,
                    plan_raw_move_io, Left
<1> QED
  BY <1>2, <1>3, <1>6, <1>7 DEF IInv

\* Writing a chunk: the loop passes exactly the offsets of that chunk.
LEMMA WriteKeeps ==
  ASSUME IInv, write_exact
  PROVE  IInv'
<1>1. /\ TypeOK /\ pc = "write" /\ Left(move, pos) > 0 /\ plan_raw_move_io(move)
      /\ PassedArrived /\ OthersKept /\ ChunkBuffered
  BY DEF IInv, write_exact, Copying
<1>2. /\ pc' = "read" /\ move' = move /\ buffer' = buffer /\ before' = before
      /\ disk' = Written(disk, move, buffer, ChunkOf(move, pos))
      /\ pos' = IF move.direction = "right" THEN pos - this(move, pos) ELSE pos + this(move, pos)
  BY DEF write_exact
<1>3. /\ this(move, pos) \in 1 .. Left(move, pos)
      /\ \A i \in ChunkOf(move, pos) : i \in Offsets /\ ~Passed(i)
  BY <1>1, ChunkShape
<1>4. pos' \in 0 .. move.len
  BY <1>1, <1>2, <1>3, MoveTyped DEF Left
<1>5. \A i \in Offsets : Passed(i)' <=> (Passed(i) \/ i \in ChunkOf(move, pos))
  BY <1>1, <1>2, <1>3, MoveTyped DEF Passed, ChunkOf, rel, Left, Offsets
<1>6. /\ disk' \in [Addresses -> Content]
      /\ \A i \in ChunkOf(move, pos) : disk'[Destination(move, i)] = buffer[move.src + i]
      /\ \A a \in Addresses : (\A i \in ChunkOf(move, pos) : a # Destination(move, i))
                                 => disk'[a] = disk[a]
  <2>1. ChunkOf(move, pos) \subseteq Offsets
    BY <1>3
  <2> QED
    BY <1>1, <1>2, <2>1, WriteEffect
<1>7. TypeOK'
  BY <1>1, <1>2, <1>4, <1>6 DEF TypeOK
<1>8. \A i \in Offsets : Passed(i)' => disk'[Destination(move, i)] = before[move.src + i]
  <2> SUFFICES ASSUME NEW i \in Offsets, Passed(i)'
               PROVE  disk'[Destination(move, i)] = before[move.src + i]
    OBVIOUS
  <2>1. CASE i \in ChunkOf(move, pos)
    BY <2>1, <1>1, <1>6 DEF ChunkBuffered
  <2>2. CASE i \notin ChunkOf(move, pos)
    <3>1. Passed(i) /\ Destination(move, i) \in Addresses
      BY <2>2, <1>1, <1>5, InsideDisk
    <3>2. \A j \in ChunkOf(move, pos) : Destination(move, i) # Destination(move, j)
      BY <2>2, <1>1, <1>3, MoveTyped DEF Destination, Offsets
    <3>3. disk'[Destination(move, i)] = disk[Destination(move, i)]
      BY <3>1, <3>2, <1>6
    <3> QED
      BY <3>1, <3>3, <1>1 DEF PassedArrived, Arrived
  <2> QED
    BY <2>1, <2>2
<1>9. PassedArrived'
  BY <1>2, <1>8 DEF PassedArrived, Arrived, Offsets, Destination
<1>10. \A a \in Addresses : (\A i \in Offsets : Passed(i)' => a # Destination(move, i))
                               => disk'[a] = before[a]
  <2> SUFFICES ASSUME NEW a \in Addresses,
                      \A i \in Offsets : Passed(i)' => a # Destination(move, i)
               PROVE  disk'[a] = before[a]
    OBVIOUS
  <2>1. \A i \in ChunkOf(move, pos) : a # Destination(move, i)
    BY <1>3, <1>5
  <2>2. \A i \in Offsets : Passed(i) => a # Destination(move, i)
    BY <1>5
  <2>3. disk[a] = before[a]
    BY <1>1, <2>2 DEF OthersKept
  <2> QED
    BY <1>6, <2>1, <2>3
<1>11. OthersKept'
  BY <1>2, <1>10 DEF OthersKept, Offsets, Destination
<1>12. plan_raw_move_io(move)'
  BY <1>1, <1>2
<1> QED
  BY <1>2, <1>7, <1>9, <1>11, <1>12 DEF IInv

\* A copy that stops, possibly within a write, has disturbed its chunk at most.
LEMMA StopKeeps ==
  ASSUME IInv, IoFails \/ PowerLoss
  PROVE  IInv'
<1>1. /\ TypeOK /\ pc \in {"read", "write"} /\ plan_raw_move_io(move)
      /\ PassedArrived /\ OthersKept
      /\ pc = "write" => Left(move, pos) > 0
  BY DEF IInv, IoFails, PowerLoss, Copying
<1>2. /\ pc' \in {"failed", "lost"} /\ move' = move /\ pos' = pos
      /\ buffer' = buffer /\ before' = before
  BY DEF IoFails, PowerLoss
<1>3. PICK S \in SUBSET Offsets :
        /\ \A i \in S : i \in ChunkOf(move, pos) /\ ~Passed(i)
        /\ disk' \in [Addresses -> Content]
        /\ \A a \in Addresses : (\A i \in S : a # Destination(move, i)) => disk'[a] = disk[a]
  <2>1. CASE disk' = disk
    <3>1. {} \in SUBSET Offsets /\ disk \in [Addresses -> Content]
      BY <1>1 DEF TypeOK
    <3> QED
      BY <2>1, <3>1
  <2>2. CASE /\ pc = "write"
             /\ \E S \in SUBSET ChunkOf(move, pos) : disk' = Written(disk, move, buffer, S)
    <3>1. PICK S \in SUBSET ChunkOf(move, pos) : disk' = Written(disk, move, buffer, S)
      BY <2>2
    <3>2. \A i \in S : i \in Offsets /\ i \in ChunkOf(move, pos) /\ ~Passed(i)
      BY <1>1, <2>2, <3>1, ChunkShape
    <3>3. S \subseteq Offsets
      BY <3>2
    <3> QED
      BY <1>1, <3>1, <3>2, <3>3, WriteEffect
  <2> QED
    BY <2>1, <2>2 DEF IoFails, PowerLoss
<1>4. TypeOK'
  BY <1>1, <1>2, <1>3 DEF TypeOK, Terminal
<1>5. \A i \in Offsets : Passed(i) => disk'[Destination(move, i)] = before[move.src + i]
  <2> SUFFICES ASSUME NEW i \in Offsets, Passed(i)
               PROVE  disk'[Destination(move, i)] = before[move.src + i]
    OBVIOUS
  <2>1. \A j \in S : j \in Offsets /\ i # j
    BY <1>3
  <2>2. \A j \in S : Destination(move, i) # Destination(move, j)
    BY <2>1, <1>1, MoveTyped DEF Destination, Offsets
  <2>3. Destination(move, i) \in Addresses
    BY <1>1, InsideDisk
  <2>4. disk'[Destination(move, i)] = disk[Destination(move, i)]
    BY <1>3, <2>2, <2>3
  <2> QED
    BY <2>4, <1>1 DEF PassedArrived, Arrived
<1>6. PassedArrived'
  BY <1>2, <1>5 DEF PassedArrived, Arrived, Offsets, Destination, Passed
<1>7. \A a \in Addresses :
         (\A i \in Offsets : Passed(i) \/ i \in ChunkOf(move, pos) => a # Destination(move, i))
            => disk'[a] = before[a]
  <2> SUFFICES ASSUME NEW a \in Addresses,
                      \A i \in Offsets : Passed(i) \/ i \in ChunkOf(move, pos)
                                            => a # Destination(move, i)
               PROVE  disk'[a] = before[a]
    OBVIOUS
  <2>1. \A i \in S : a # Destination(move, i)
    BY <1>3
  <2>2. disk[a] = before[a]
    BY <1>1 DEF OthersKept
  <2> QED
    BY <1>3, <2>1, <2>2
<1>8. OthersKept'
  <2>1. /\ Offsets' = Offsets /\ ChunkOf(move, pos)' = ChunkOf(move, pos)
        /\ \A i : Passed(i)' <=> Passed(i)
        /\ \A i : Destination(move, i)' = Destination(move, i)
    BY <1>2 DEF Offsets, ChunkOf, rel, this, Left, Passed, Destination
  <2> QED
    BY <1>2, <1>7, <2>1 DEF OthersKept
<1>9. plan_raw_move_io(move)'
  BY <1>1, <1>2
<1> QED
  BY <1>2, <1>4, <1>6, <1>8, <1>9 DEF IInv

\* Every step of a move preserves the invariant.
LEMMA StepKeeps ==
  ASSUME IInv, [Next]_vars
  PROVE  IInv'
<1> USE DEF IInv
<1>1. CASE Request
  <2>1. TypeOK'
    BY <1>1 DEF Request, TypeOK, Terminal
  <2> QED
    BY <1>1, <2>1 DEF Request, Copying
<1>2. CASE verify_disk_layout_snapshot
  <2>0. /\ TypeOK /\ pc = "verify" /\ plan_raw_move_io(move) /\ disk = before
        /\ disk' = disk /\ move' = move /\ buffer' = buffer /\ before' = before
    BY <1>2 DEF verify_disk_layout_snapshot
  <2>1. CASE pc' = "read" /\ pos' = IF move.direction = "right" THEN move.len ELSE 0
    <3>1. TypeOK'
      BY <2>0, <2>1, MoveTyped DEF TypeOK
    <3>2. \A i \in Offsets : ~(Passed(i)')
      BY <2>0, <2>1, MoveTyped DEF Offsets, Passed
    <3>3. Offsets' = Offsets
      BY <2>0 DEF Offsets
    <3>4. PassedArrived'
      BY <3>2, <3>3 DEF PassedArrived
    <3>5. OthersKept'
      BY <2>0 DEF OthersKept
    <3> QED
      BY <2>0, <2>1, <3>1, <3>4, <3>5 DEF Copying
  <2>2. CASE pc' = "refused" /\ pos' = pos
    <3>1. TypeOK'
      BY <2>0, <2>2 DEF TypeOK, Terminal
    <3> QED
      BY <2>0, <2>2, <3>1 DEF Copying
  <2> QED
    BY <1>2, <2>1, <2>2 DEF verify_disk_layout_snapshot
<1>3. CASE read_exact
  BY <1>3, ReadKeeps
<1>4. CASE write_exact
  BY <1>4, WriteKeeps
<1>5. CASE FlushFileBuffers
  <2>1. TypeOK'
    BY <1>5 DEF FlushFileBuffers, TypeOK, Terminal
  <2>2. PassedArrived' /\ OthersKept' /\ plan_raw_move_io(move)' /\ (Left(move, pos) = 0)'
    BY <1>5 DEF FlushFileBuffers, PassedArrived, OthersKept, Passed, Offsets, Arrived,
                Destination, plan_raw_move_io, Left, Copying
  <2> QED
    BY <1>5, <2>1, <2>2 DEF FlushFileBuffers
<1>6. CASE IoFails \/ PowerLoss
  BY <1>6, StopKeeps
<1>7. CASE UNCHANGED vars
  BY <1>7 DEF vars, TypeOK, PassedArrived, OthersKept, ChunkBuffered, Passed, Offsets, Arrived,
              Destination, plan_raw_move_io, Left, ChunkOf, rel, this
<1> QED
  BY <1>1, <1>2, <1>3, <1>4, <1>5, <1>6, <1>7 DEF Next, Copy

\* For every disk, sector size, chunk length and set of requests, the bytes the
\* copy loop has passed are at their destination, nothing else has changed, and
\* the buffer of a pending write holds original bytes.
THEOREM MoveInvariant == Spec => []IInv
<1>1. Init => IInv
  <2> SUFFICES ASSUME Init PROVE IInv
    OBVIOUS
  <2>1. move.len \in Nat
    BY DiskAssumption DEF Init, Moves
  <2>2. TypeOK
    BY <2>1, DiskAssumption DEF Init, TypeOK
  <2> QED
    BY <2>2 DEF Init, IInv, Copying
<1>2. IInv /\ [Next]_vars => IInv'
  BY StepKeeps
<1> QED
  BY <1>1, <1>2, PTL DEF Spec

\* The loop variable of the copy never leaves the moved range and every access
\* stays on the disk.
THEOREM MoveTypeCorrect == Spec => []TypeOK
<1>1. IInv => TypeOK
  BY DEF IInv
<1> QED
  BY <1>1, MoveInvariant, PTL

\* A raw move that reports success has relocated every byte, for every overlap
\* of source and destination and in both directions.
THEOREM MoveExactHolds == Spec => []MoveExact
<1>1. IInv => MoveExact
  <2> SUFFICES ASSUME IInv, pc = "done", NEW i \in 0 .. (move.len - 1)
               PROVE  Arrived(i)
    BY DEF MoveExact
  <2>1. TypeOK /\ PassedArrived /\ Left(move, pos) = 0 /\ i \in Offsets
    BY DEF IInv, Copying, Offsets
  <2>2. Passed(i)
    BY <2>1, MoveTyped DEF Passed, Left, Offsets
  <2> QED
    BY <2>1, <2>2 DEF PassedArrived
<1> QED
  BY <1>1, MoveInvariant, PTL

\* However it ends, a raw move changes nothing outside its destination range,
\* so no neighbouring partition.
THEOREM ConfinedHolds == Spec => []Confined
<1>1. IInv => Confined
  <2> SUFFICES ASSUME IInv, NEW a \in Addresses, disk[a] # before[a]
               PROVE  /\ pc \notin {"idle", "verify", "refused"}
                      /\ a \in Destination(move, 0) .. (Destination(move, move.len) - 1)
    BY DEF Confined
  <2>1. TypeOK /\ pc \in Copying /\ pc \notin {"idle", "verify", "refused"}
    BY DEF IInv, Copying, TypeOK, Terminal
  <2>2. PICK i \in Offsets : a = Destination(move, i)
    BY <2>1 DEF IInv, OthersKept
  <2> QED
    BY <2>1, <2>2, MoveTyped DEF Offsets, Destination
<1> QED
  BY <1>1, MoveInvariant, PTL

\* A raw move over at least one chunk can be salvaged wherever it is
\* interrupted: one boundary separates the bytes that have arrived from those
\* still at their source.
THEOREM SalvageableHolds == Spec => []Salvageable
<1>1. IInv => Salvageable
  <2> SUFFICES ASSUME IInv, pc \in Copying,
                      move.delta >= chunk_bytes \/ pc \notin {"failed", "lost"}
               PROVE  \E k \in 0 .. move.len : SplitAt(k)
    BY DEF Salvageable, Copying
  <2>1. TypeOK /\ plan_raw_move_io(move) /\ PassedArrived /\ OthersKept
    BY DEF IInv
  <2>2. /\ pos \in 0 .. move.len /\ move.len \in Nat /\ move.delta \in Nat /\ move.src \in Nat
        /\ move.direction \in Directions
    BY <2>1, MoveTyped
  <2>3. chunk_bytes \in Nat \ {0}
    BY ChunkPositive
  <2>4. \A i \in Offsets : ~Passed(i) => AtSource(i)
    <3> SUFFICES ASSUME NEW i \in Offsets, ~Passed(i)
                 PROVE  disk[move.src + i] = before[move.src + i]
      BY DEF AtSource
    <3>1. move.delta # 0
      BY <2>1 DEF plan_raw_move_io
    <3>2. \A j \in Offsets : Passed(j) => move.src + i # Destination(move, j)
      BY <2>2, <3>1 DEF Passed, Destination, Offsets
    <3>3. ASSUME NEW j \in Offsets, pc \in {"failed", "lost"}, j \in ChunkOf(move, pos)
          PROVE  move.src + i # Destination(move, j)
      <4>1. move.delta >= chunk_bytes
        BY <3>3
      <4>2. this(move, pos) \in Nat /\ this(move, pos) <= chunk_bytes
        BY <2>2, <2>3 DEF this, Left
      <4>3. /\ j \in Nat /\ j >= rel(move, pos) /\ j < rel(move, pos) + this(move, pos)
            /\ rel(move, pos) = IF move.direction = "right" THEN pos - this(move, pos) ELSE pos
        BY <2>2, <3>3, <4>2 DEF ChunkOf, rel, Offsets
      <4> QED
        BY <2>2, <2>3, <4>1, <4>2, <4>3 DEF Passed, Destination, Offsets
    <3>4. move.src + i \in Addresses
      BY <2>1, InsideDisk
    <3> QED
      BY <2>1, <3>2, <3>3, <3>4 DEF OthersKept
  <2>5. SplitAt(pos)
    <3> SUFFICES ASSUME NEW i \in Offsets
                 PROVE  IF (i < pos) <=> (move.direction = "right")
                        THEN AtSource(i) ELSE Arrived(i)
      BY DEF SplitAt, Offsets
    <3>1. CASE Passed(i)
      <4>1. Arrived(i)
        BY <2>1, <3>1 DEF PassedArrived
      <4>2. ~((i < pos) <=> (move.direction = "right"))
        BY <2>2, <3>1 DEF Passed, Offsets
      <4> QED
        BY <4>1, <4>2
    <3>2. CASE ~Passed(i)
      <4>1. AtSource(i)
        BY <2>4, <3>2
      <4>2. (i < pos) <=> (move.direction = "right")
        BY <2>2, <3>2 DEF Passed, Offsets, Directions
      <4> QED
        BY <4>1, <4>2
    <3> QED
      BY <3>1, <3>2
  <2> QED
    BY <2>2, <2>5
<1> QED
  BY <1>1, MoveInvariant, PTL

-----------------------------------------------------------------------------
(***************************************************************************)
(* Reading a layout.                                                       *)
(***************************************************************************)

\* Every set of natural numbers that is not empty has a least member.
LEMMA LeastNumber ==
  ASSUME NEW T, T \subseteq Nat, T # {}
  PROVE  \E n \in T : \A m \in T : n <= m
<1> DEFINE R == OpToRel(<, Nat)
<1>1. PICK n \in T : \A m \in T : ~(<<m, n>> \in R)
  <2>1. IsWellFoundedOn(R, Nat)
    BY NatLessThanWellFounded
  <2> HIDE DEF R
  <2> QED
    BY <2>1, WFMin
<1>2. \A m \in T : ~(m < n)
  BY <1>1 DEF OpToRel
<1> QED
  BY <1>2

\* The lesser of two numbers.
LEMMA MinPair ==
  ASSUME NEW m \in Nat, NEW n \in Nat
  PROVE  Min({m, n}) \in Nat /\ Min({m, n}) <= m /\ Min({m, n}) <= n
<1>1. \E x \in {m, n} : \A y \in {m, n} : x <= y
  OBVIOUS
<1>2. Min({m, n}) \in {m, n} /\ \A y \in {m, n} : Min({m, n}) <= y
  BY <1>1 DEF Min
<1> QED
  BY <1>2

\* The fields of a table entry.
LEMMA PartitionFields ==
  ASSUME NEW p \in Partitions
  PROVE  /\ p.id \in Ids /\ p.off \in Nat /\ p.len \in Nat /\ p.len > 0
         /\ End(p) = p.off + p.len /\ End(p) \in Nat /\ p # None
  BY DEF Partitions, End, None

\* The first offset of a set of partitions is the least one, or the end of the
\* disk.
LEMMA FirstOffsetFacts ==
  ASSUME NEW S, S \subseteq Partitions
  PROVE  /\ FirstOffset(S) \in Nat /\ FirstOffset(S) <= disk_size_bytes
         /\ \A p \in S : FirstOffset(S) <= p.off
         /\ FirstOffset(S) = disk_size_bytes \/ \E p \in S : p.off = FirstOffset(S)
<1> DEFINE T == {p.off : p \in S} \union {disk_size_bytes}
<1>1. T \subseteq Nat /\ T # {}
  BY DiskAssumption, PartitionFields
<1>2. \E n \in T : \A m \in T : n <= m
  BY <1>1, LeastNumber
<1>3. FirstOffset(S) \in T /\ \A m \in T : FirstOffset(S) <= m
  <2> HIDE DEF T
  <2>1. FirstOffset(S) = Min(T)
    BY DEF FirstOffset, T
  <2> QED
    BY <1>2, <2>1 DEF Min
<1> QED
  BY <1>1, <1>3

\* The nearest of some partitions is one of them.
LEMMA NearestFacts ==
  ASSUME NEW S, S \subseteq Partitions, S # {}
  PROVE  Nearest(S) \in S
<1> DEFINE T == {p.off : p \in S}
<1>1. T \subseteq Nat /\ T # {}
  BY PartitionFields
<1>2. \E n \in T : \A m \in T : n <= m
  BY <1>1, LeastNumber
<1>3. \E p \in S : \A q \in S : p.off <= q.off
  BY <1>2
<1> QED
  BY <1>3 DEF Nearest

\* The rearmost of some partitions on the disk is one of them and none lies
\* behind it.
LEMMA RearmostFacts ==
  ASSUME NEW S, S \subseteq Partitions, S # {}, \A p \in S : End(p) <= disk_size_bytes
  PROVE  Rearmost(S) \in S /\ \A q \in S : q.off <= Rearmost(S).off
<1> DEFINE T == {disk_size_bytes - p.off : p \in S}
<1>0. ASSUME NEW p \in S PROVE p.off \in Nat /\ p.off <= disk_size_bytes
  <2>1. p \in Partitions /\ End(p) <= disk_size_bytes
    OBVIOUS
  <2> QED
    BY <2>1, PartitionFields, DiskAssumption
<1>1. T \subseteq Nat /\ T # {}
  BY <1>0, DiskAssumption
<1>2. \E n \in T : \A m \in T : n <= m
  BY <1>1, LeastNumber
<1>3. \E p \in S : \A q \in S : q.off <= p.off
  <2>1. PICK p \in S : \A m \in T : disk_size_bytes - p.off <= m
    BY <1>2
  <2>2. ASSUME NEW q \in S PROVE q.off <= p.off
    <3>1. disk_size_bytes - q.off \in T
      OBVIOUS
    <3>2. disk_size_bytes - p.off <= disk_size_bytes - q.off
      BY <2>1, <3>1
    <3> QED
      BY <1>0, <3>2, DiskAssumption
  <2> QED
    BY <2>2
<1> QED
  BY <1>3 DEF Rearmost

\* A partition behind all others of a set is the rearmost.
LEMMA RearmostIs ==
  ASSUME NEW S, S \subseteq Partitions, NEW p \in S, \A q \in S \ {p} : q.off < p.off,
         \A q \in S : End(q) <= disk_size_bytes
  PROVE  Rearmost(S) = p
<1>1. Rearmost(S) \in S /\ p.off <= Rearmost(S).off
  BY RearmostFacts
<1> QED
  BY <1>1, PartitionFields

\* Partitions of a sound table lie one behind the other.
LEMMA SoundFacts ==
  ASSUME NEW t, t \subseteq Partitions, Sound(t), NEW p \in t, NEW q \in t
  PROVE  /\ End(p) <= disk_size_bytes
         /\ p = q \/ End(p) <= q.off \/ End(q) <= p.off
         /\ p.off < q.off => End(p) <= q.off
         /\ p.off = q.off => p = q
<1>1. End(p) <= disk_size_bytes /\ (p = q \/ End(p) <= q.off \/ End(q) <= p.off)
  BY DEF Sound
<1> QED
  BY <1>1, PartitionFields

\* A part of a sound table is sound.
LEMMA SoundPart ==
  ASSUME NEW t, Sound(t), NEW s, s \subseteq t
  PROVE  Sound(s)
  BY DEF Sound

\* A sound table stays sound when an entry is added that overlaps none.
LEMMA SoundAdd ==
  ASSUME NEW t, Sound(t), NEW q, End(q) <= disk_size_bytes,
         \A p \in t : End(p) <= q.off \/ End(q) <= p.off
  PROVE  Sound(t \union {q})
  BY DEF Sound

\* A table with one target has it where Target looks for it.
LEMMA TargetFacts ==
  ASSUME NEW t, \E p \in t : \A q \in t : Kind[q.id] = "target" <=> q = p
  PROVE  /\ Target(t) \in t
         /\ \A q \in t : Kind[q.id] = "target" <=> q = Target(t)
<1>1. PICK p \in t : \A q \in t : Kind[q.id] = "target" <=> q = p
  OBVIOUS
<1>2. Target(t) \in t /\ Kind[Target(t).id] = "target"
  BY <1>1 DEF Target
<1> QED
  BY <1>1, <1>2

\* The only target of a table is what Target finds.
LEMMA TargetIs ==
  ASSUME NEW t, NEW p \in t, \A q \in t : Kind[q.id] = "target" <=> q = p
  PROVE  Target(t) = p
<1>1. \E r \in t : \A q \in t : Kind[q.id] = "target" <=> q = r
  OBVIOUS
<1> QED
  BY <1>1, TargetFacts

\* The space behind the target ends where the first partition that is carried,
\* or the donor itself, begins.
LEMMA CarriedFirst ==
  ASSUME NEW t, t \subseteq Partitions, NEW d \in following(t)
  PROVE  FirstOffset(following(t)) = FirstOffset(carried(t, d) \union {d})
<1> DEFINE S == following(t)
           C == carried(t, d) \union {d}
<1>1. C \subseteq S /\ S \subseteq Partitions /\ \A p \in S : p.off < d.off => p \in C
  BY DEF following, carried
<1>2. d \in C
  OBVIOUS
<1> HIDE DEF S, C
<1>3. /\ FirstOffset(S) \in Nat /\ FirstOffset(S) <= disk_size_bytes
      /\ \A p \in S : FirstOffset(S) <= p.off
      /\ FirstOffset(S) = disk_size_bytes \/ \E p \in S : p.off = FirstOffset(S)
  BY <1>1, FirstOffsetFacts
<1>4. /\ FirstOffset(C) \in Nat /\ FirstOffset(C) <= disk_size_bytes
      /\ \A p \in C : FirstOffset(C) <= p.off
      /\ FirstOffset(C) = disk_size_bytes \/ \E p \in C : p.off = FirstOffset(C)
  <2>1. C \subseteq Partitions
    BY <1>1
  <2> QED
    BY <2>1, FirstOffsetFacts
<1>5. FirstOffset(S) <= FirstOffset(C)
  BY <1>1, <1>3, <1>4
<1>6. FirstOffset(C) <= FirstOffset(S)
  <2>1. CASE FirstOffset(S) = disk_size_bytes
    BY <1>4, <2>1
  <2>2. ASSUME NEW p \in S, p.off = FirstOffset(S) PROVE FirstOffset(C) <= FirstOffset(S)
    <3>1. CASE p \in C
      BY <1>4, <2>2, <3>1
    <3>2. CASE p \notin C
      <4>1. p.off \in Nat /\ d.off \in Nat /\ ~(p.off < d.off)
        BY <1>1, <1>2, <3>2, PartitionFields
      <4> QED
        BY <1>2, <1>4, <2>2, <4>1
    <3> QED
      BY <3>1, <3>2
  <2> QED
    BY <1>3, <2>1, <2>2
<1> QED
  BY <1>3, <1>4, <1>5, <1>6 DEF S, C

\* What shortening and shifting an entry does to its fields.
LEMMA ShortenedFacts ==
  ASSUME NEW p \in Partitions, NEW by \in Int
  PROVE  /\ Shortened(p, by).id = p.id /\ Shortened(p, by).off = p.off
         /\ Shortened(p, by).len = p.len - by
         /\ by < p.len => Shortened(p, by) \in Partitions
  BY DEF Partitions, Shortened

\* A partition moved to the right keeps its identity and its length.
LEMMA ShiftedFacts ==
  ASSUME NEW p \in Partitions, NEW d \in Nat
  PROVE  /\ [p EXCEPT !.off = @ + d].id = p.id /\ [p EXCEPT !.off = @ + d].off = p.off + d
         /\ [p EXCEPT !.off = @ + d].len = p.len
         /\ [p EXCEPT !.off = @ + d] \in Partitions
  BY DEF Partitions

\* An extended partition keeps its identity and its place.
LEMMA LengthenedFacts ==
  ASSUME NEW p \in Partitions, NEW by \in Nat
  PROVE  /\ [p EXCEPT !.len = @ + by].id = p.id /\ [p EXCEPT !.len = @ + by].off = p.off
         /\ [p EXCEPT !.len = @ + by].len = p.len + by
         /\ [p EXCEPT !.len = @ + by] \in Partitions
  BY DEF Partitions

-----------------------------------------------------------------------------
(***************************************************************************)
(* The inductive invariant of the expansion.                               *)
(***************************************************************************)

\* The stages of a task before WinPE, and those with a partition in hand.
Windows == {"windows", "confirmed", "staged", "refused"}
Moving  == {"shrink", "lock", "move", "delete", "create"}

Stages == Windows \union Moving \union {"plan", "extend", "cleanup", "done", "failed", "off"}

\* All partitions the task knows of: between the deletion of an old entry and
\* the creation of the new one the partition in hand is not in the table.
Known == table \union todo

TypeInv ==
    /\ at \in Stages
    /\ Known \subseteq Partitions /\ origin \subseteq Partitions /\ placed \subseteq Partitions
    /\ need \in [Ids -> Nat] /\ shift \in Nat /\ runs \in Nat
    /\ shrunk \in Partitions \union {None}
    /\ config \in [target : Nat, part : Partitions \union {None},
                   donor : Partitions \union {None}, moved : SUBSET Partitions]
    /\ request \in [target : Nat, current : Nat, no_move : Int,
                    donor : Partitions \union {None}, moved : SUBSET Partitions]

\* A raw move is under way only in its stage, and it is of the partition in
\* hand.
RawInv ==
    /\ IInv
    /\ at # "move" => pc = "idle" /\ pos = 0 /\ disk = before
    /\ at = "move" => move = Right(hand, shift)

\* Ids are unique, nothing overlaps, and exactly one partition is the target.
TableInv ==
    /\ \A p, q \in Known : p.id = q.id => p = q
    /\ Sound(Known)
    /\ \E p \in table : \A q \in table : Kind[q.id] = "target" <=> q = p

\* The plan in the boot payload is the one the user confirmed, and the size
\* reached without a move is the distance from the target's start to the first
\* partition that moves.
ConfigInv ==
    /\ at \in {"windows", "confirmed", "refused"} => config.donor = None
    /\ config.donor # None =>
          /\ config.donor = request.donor /\ config.moved = request.moved
          /\ config.target = request.target
          /\ request.no_move = FirstOffset(config.moved \union {config.donor}) - config.part.off
          /\ config.donor.off >= End(config.part)

\* What is still to be moved was confirmed, lies behind the target and is
\* moved over the confirmed distance; only the donor may have been shrunk.
TodoInv ==
    /\ todo # {} <=> at \in Moving
    /\ at # "create" => todo \subseteq table
    /\ at = "create" => hand \notin table /\ todo \ {hand} \subseteq table
    /\ \A p \in todo : /\ Kind[p.id] \in {"data", "recovery"}
                       /\ End(Target(table)) <= p.off
                       /\ \/ p \in Confirmed
                          \/ p = hand /\ shrunk \in Confirmed
                                      /\ p.id = shrunk.id /\ p.off = shrunk.off
                       /\ shrunk # None /\ p.id = shrunk.id => p = hand
    /\ todo # {} => shift > 0 /\ shift = request.target - request.no_move
    /\ at \in Windows \union {"plan", "shrink", "failed", "off"} => shrunk = None

\* No other partition lies between those to be moved, and there is room for
\* the one in hand; a shrink that is to be undone leaves room for that.
RoomInv ==
    /\ \A p \in todo, q \in table \ todo : q.off < p.off \/ q.off > hand.off
    /\ at \in {"move", "delete", "create"} \/ (at = "lock" /\ shrunk = None) =>
          /\ End(hand) + shift <= disk_size_bytes
          /\ \A q \in table : q.off > hand.off => End(hand) + shift <= q.off
    /\ at = "lock" /\ shrunk # None /\ hand.id = shrunk.id
          => Sound((table \ {hand}) \union {shrunk})

\* Before the first start every partition is whole, and while it plans and
\* shrinks a start has moved nothing.
RunInv ==
    /\ runs = 0 <=> at \in Windows
    /\ runs = 0 => ~clean /\ origin = {} /\ placed = {} /\ \A p \in table : Intact(p)
    /\ clean /\ at \in {"plan", "shrink"} => placed = {} /\ \A p \in table : Intact(p)

\* In a start that found everything whole every partition is known and whole,
\* but for the one in hand, whose data is what the move found at its old place.
CleanInv ==
    clean /\ at \notin {"failed", "off"} =>
       /\ \A p \in origin : \E q \in Known : q.id = p.id
       /\ \A q \in table : Intact(q) \/ (at \in {"move", "delete"} /\ q = hand)
       /\ placed \subseteq table \union (IF at \in {"delete", "create"} THEN {Recreated} ELSE {})
       /\ at \in {"delete", "create"} => Recreated \in placed
       /\ \A q \in placed, p \in todo : p.off < q.off
       /\ at = "move" =>
             /\ hand.len >= need[hand.id]
             /\ \A i \in 0 .. (need[hand.id] - 1) : before[hand.off + i] = <<hand.id, i>>

PlacedInv == clean => \A q \in placed : Intact(q) /\ End(Target(table)) <= q.off

SizeInv == at \in {"cleanup", "done"} => Target(table).len >= config.target

ExpandIInv ==
    /\ TypeInv /\ RawInv /\ TableInv /\ ConfigInv /\ TodoInv /\ RoomInv /\ RunInv
    /\ CleanInv /\ PlacedInv /\ SizeInv /\ BystandersIntact

-----------------------------------------------------------------------------

\* What the invariant says of the table, the target and the partition in hand.
LEMMA Basics ==
  ASSUME TypeInv, TableInv, TodoInv
  PROVE  /\ table \subseteq Partitions /\ todo \subseteq Partitions /\ Sound(table)
         /\ Target(table) \in table
         /\ \A q \in table : Kind[q.id] = "target" <=> q = Target(table)
         /\ todo # {} => hand \in todo /\ \A q \in todo : q = hand \/ q.off < hand.off
<1>1. table \subseteq Partitions /\ todo \subseteq Partitions /\ Known \subseteq Partitions
  BY DEF TypeInv, Known
<1>2. Sound(Known) /\ table \subseteq Known /\ todo \subseteq Known
  BY DEF TableInv, Known
<1>3. Sound(table)
  BY <1>2, SoundPart
<1>4. Target(table) \in table /\ \A q \in table : Kind[q.id] = "target" <=> q = Target(table)
  <2>1. \E p \in table : \A q \in table : Kind[q.id] = "target" <=> q = p
    BY DEF TableInv
  <2> QED
    BY <2>1, TargetFacts
<1>5. ASSUME todo # {} PROVE hand \in todo /\ \A q \in todo : q = hand \/ q.off < hand.off
  <2>1. \A p \in todo : End(p) <= disk_size_bytes
    BY <1>1, <1>2, SoundFacts
  <2>2. hand \in todo /\ \A q \in todo : q.off <= hand.off
    BY <1>1, <1>5, <2>1, RearmostFacts DEF hand
  <2>3. ASSUME NEW q \in todo PROVE q = hand \/ q.off < hand.off
    <3>1. q.off \in Nat /\ hand.off \in Nat /\ q.off <= hand.off
      BY <1>1, <2>2, PartitionFields
    <3>2. q.off = hand.off => q = hand
      BY <1>1, <1>2, <2>2, SoundFacts
    <3> QED
      BY <3>1, <3>2
  <2> QED
    BY <2>2, <2>3
<1> QED
  BY <1>1, <1>3, <1>4, <1>5

\* Outside a raw move nothing writes the disk.
LEMMA RawQuiet ==
  ASSUME RawInv, at # "move", at' # "move", UNCHANGED vars
  PROVE  RawInv'
<1>1. IInv'
  BY StepKeeps DEF RawInv
<1>2. pc' = "idle" /\ pos' = 0 /\ disk' = before'
  BY DEF RawInv, vars
<1> QED
  BY <1>1, <1>2 DEF RawInv

\* A raw move that is over leaves nothing behind but the disk.
LEMMA RawIdle ==
  ASSUME IInv, at' # "move", disk' \in [Addresses -> Content], MoveIdle
  PROVE  RawInv'
<1>1. move \in Moves /\ move.len \in Nat
  BY DEF IInv, TypeOK, Moves
<1>2. /\ pc' = "idle" /\ pos' = 0 /\ buffer' = disk' /\ before' = disk' /\ move' = move
  BY DEF MoveIdle
<1>3. TypeOK'
  BY <1>1, <1>2 DEF TypeOK
<1>4. IInv'
  BY <1>2, <1>3 DEF IInv, Copying
<1> QED
  BY <1>2, <1>4 DEF RawInv

\* A bystander is safe as long as its entry and its data stay, and the target
\* may grow.
LEMMA BystandersKept ==
  ASSUME BystandersIntact, TypeInv, UNCHANGED <<origin, request>>, table' \subseteq Partitions,
         \A q \in table : q.id \notin {c.id : c \in Confirmed} =>
            \E r \in table' : /\ r.id = q.id /\ r.off = q.off /\ r.len >= q.len
                              /\ Kind[q.id] # "target" => r = q
                              /\ Intact(q) => Intact(r)'
  PROVE  BystandersIntact'
<1>1. Confirmed' = Confirmed
  BY DEF Confirmed
<1>2. ASSUME NEW p \in origin, p.id \notin {c.id : c \in Confirmed}
      PROVE  \E r \in table' : /\ r.id = p.id /\ r.off = p.off /\ r.len >= p.len
                               /\ Kind[p.id] # "target" => r = p
                               /\ Intact(r)'
  <2>1. PICK q \in table : /\ q.id = p.id /\ q.off = p.off /\ q.len >= p.len
                           /\ Kind[p.id] # "target" => q = p
                           /\ Intact(q)
    BY <1>2 DEF BystandersIntact
  <2>2. PICK r \in table' : /\ r.id = q.id /\ r.off = q.off /\ r.len >= q.len
                            /\ Kind[q.id] # "target" => r = q
                            /\ Intact(q) => Intact(r)'
    BY <1>2, <2>1
  <2>3. p.len \in Nat /\ q.len \in Nat /\ r.len \in Nat
    <3>1. p \in Partitions /\ q \in Partitions /\ r \in Partitions
      BY DEF TypeInv, Known
    <3> QED
      BY <3>1, PartitionFields
  <2> QED
    BY <2>1, <2>2, <2>3
<1> QED
  BY <1>1, <1>2 DEF BystandersIntact

\* The table facts of the invariant, as a condition on a table.
TableOK(t) ==
    /\ t \subseteq Partitions /\ Sound(t)
    /\ \A p, q \in t : p.id = q.id => p = q
    /\ \E p \in t : \A q \in t : Kind[q.id] = "target" <=> q = p

\* A task that stops leaves only the table, the disk and the receipts of its
\* moves to be accounted for.
LEMMA FailKeeps ==
  ASSUME ExpandIInv, at \notin Windows, at' \in {"failed", "off"},
         todo' = {}, shift' = 0, shrunk' = None,
         UNCHANGED <<request, config, runs, clean, origin, placed>>,
         RawInv', TableOK(table'), need' \in [Ids -> Nat], BystandersIntact', PlacedInv'
  PROVE  ExpandIInv'
<1>1. Known' = table'
  BY DEF Known
<1>2. TypeInv'
  BY <1>1 DEF ExpandIInv, TypeInv, TableOK, Stages
<1>3. TableInv'
  BY <1>1 DEF TableInv, TableOK
<1>4. ConfigInv'
  BY DEF ExpandIInv, ConfigInv
<1>5. TodoInv'
  BY DEF TodoInv, Moving
<1>6. RoomInv'
  BY DEF RoomInv
<1>7. RunInv' /\ CleanInv' /\ SizeInv'
  <2>1. runs # 0
    BY DEF ExpandIInv, RunInv
  <2> QED
    BY <2>1 DEF RunInv, CleanInv, SizeInv, Windows
<1> QED
  BY <1>2, <1>3, <1>4, <1>5, <1>6, <1>7 DEF ExpandIInv

\* The table of a state that satisfies the invariant.
LEMMA TableIsOK ==
  ASSUME ExpandIInv
  PROVE  TableOK(table)
<1>1. table \subseteq Partitions /\ Sound(table)
  BY Basics DEF ExpandIInv
<1> QED
  BY <1>1 DEF ExpandIInv, TableInv, TableOK, Known

-----------------------------------------------------------------------------
(***************************************************************************)
(* Windows.                                                                *)
(***************************************************************************)

\* A layout is a sound table, and formatting it fills every partition with its
\* own data.
LEMMA LayoutFacts ==
  ASSUME NEW t \in Layouts
  PROVE  /\ TableOK(t)
         /\ Formatted(t) \in [Addresses -> Content]
         /\ NeedOf(t) \in [Ids -> Nat]
         /\ \A p \in t : /\ NeedOf(t)[p.id] = p.len
                         /\ \A i \in 0 .. (p.len - 1) : Formatted(t)[p.off + i] = <<p.id, i>>
<1>1. TableOK(t)
  BY LayoutAssumption DEF TableOK
<1>2. t \subseteq Partitions /\ Sound(t) /\ \A p, q \in t : p.id = q.id => p = q
  BY <1>1 DEF TableOK
<1>3. \A p \in t : p.id \in Ids /\ p.off \in Nat /\ p.len \in Nat /\ End(p) = p.off + p.len
  BY <1>2, PartitionFields
<1> DEFINE Holds(p, a) == a \in p.off .. (End(p) - 1)
           At(a) == CHOOSE q \in t : Holds(q, a)
<1>4. Formatted(t) = [a \in Addresses |-> IF \E p \in t : Holds(p, a)
                                          THEN <<At(a).id, a - At(a).off>>
                                          ELSE <<"free", 0>>]
  BY DEF Formatted
<1>5. ASSUME NEW a \in Addresses, NEW p \in t, Holds(p, a) PROVE At(a) = p
  <2>1. At(a) \in t /\ Holds(At(a), a)
    BY <1>5
  <2>2. ASSUME NEW q \in t, Holds(q, a) PROVE q = p
    <3>1. q = p \/ End(p) <= q.off \/ End(q) <= p.off
      BY <1>2, SoundFacts
    <3> QED
      BY <1>3, <1>5, <2>2, <3>1
  <2> HIDE DEF At, Holds
  <2> QED
    BY <2>1, <2>2
<1>6. ASSUME NEW p \in t, NEW i \in 0 .. (p.len - 1)
      PROVE  p.off + i \in Addresses /\ Holds(p, p.off + i) /\ (p.off + i) - p.off = i
  <2>1. End(p) <= disk_size_bytes
    BY <1>2, SoundFacts
  <2> QED
    BY <1>3, <2>1, DiskAssumption DEF Addresses
<1>7. ASSUME NEW p \in t, NEW i \in 0 .. (p.len - 1)
      PROVE  Formatted(t)[p.off + i] = <<p.id, i>>
  <2> DEFINE a == p.off + i
  <2>1. a \in Addresses /\ Holds(p, a) /\ a - p.off = i /\ At(a) = p
    BY <1>5, <1>6
  <2> HIDE DEF a, At, Holds
  <2>2. Formatted(t)[a] = <<At(a).id, a - At(a).off>>
    BY <1>4, <2>1
  <2> QED
    BY <2>1, <2>2 DEF a
<1>8. Formatted(t) \in [Addresses -> Content]
  <2>1. ASSUME NEW a \in Addresses, NEW p \in t, Holds(p, a)
        PROVE  <<At(a).id, a - At(a).off>> \in Content
    <3>1. At(a) = p
      BY <1>5, <2>1
    <3>2. a - p.off \in Addresses /\ p.id \in Ids
      BY <1>3, <2>1, DiskAssumption DEF Addresses
    <3> HIDE DEF At
    <3> QED
      BY <3>1, <3>2, ContentAssumption
  <2>2. <<"free", 0>> \in Content
    BY ContentAssumption
  <2> HIDE DEF At, Holds
  <2> QED
    BY <1>4, <2>1, <2>2
<1>9. ASSUME NEW p \in t PROVE NeedOf(t)[p.id] = p.len
  <2>1. (CHOOSE q \in t : q.id = p.id) = p
    BY <1>2
  <2> QED
    BY <1>3, <2>1 DEF NeedOf
<1>10. NeedOf(t) \in [Ids -> Nat]
  <2>1. ASSUME NEW i \in Ids, \E p \in t : p.id = i
        PROVE  (CHOOSE p \in t : p.id = i).len \in Nat
    BY <1>3, <2>1
  <2> QED
    BY <2>1 DEF NeedOf
<1> QED
  BY <1>1, <1>7, <1>8, <1>9, <1>10

\* Every partition of the table is whole.
Whole == \A p \in table : Intact(p)

\* The invariant holds on a disk as some layout formatted it.
LEMMA InitExpand == ExpandInit => ExpandIInv
<1> SUFFICES ASSUME ExpandInit PROVE ExpandIInv
  OBVIOUS
<1>1. /\ table \in Layouts /\ todo = {} /\ origin = {} /\ placed = {} /\ runs = 0 /\ shift = 0
      /\ clean = FALSE /\ disk = Formatted(table) /\ need = NeedOf(table)
      /\ at = "windows" /\ shrunk = None
  BY DEF ExpandInit
<1>2. /\ TableOK(table) /\ disk \in [Addresses -> Content] /\ need \in [Ids -> Nat]
      /\ \A p \in table : /\ need[p.id] = p.len
                          /\ \A i \in 0 .. (p.len - 1) : disk[p.off + i] = <<p.id, i>>
  BY <1>1, LayoutFacts
<1>3. Known = table /\ table \subseteq Partitions
  BY <1>1, <1>2 DEF Known, TableOK
<1>4. Whole
  <2>1. \A p \in table : p.len \in Nat
    BY <1>3, PartitionFields
  <2> QED
    BY <1>2, <2>1 DEF Whole, Intact
<1>5. TypeInv
  <2>1. request = NoRequest /\ config.target = 0
        /\ config = [target |-> 0, part |-> None, donor |-> None, moved |-> {}]
    BY DEF ExpandInit
  <2> QED
    BY <1>1, <1>2, <1>3, <2>1 DEF TypeInv, Stages, Windows, NoRequest
<1>6. RawInv
  <2>1. pc = "idle" /\ pos = 0 /\ buffer = disk /\ before = disk
    BY DEF ExpandInit
  <2>2. move \in Moves /\ move.len = 0
    BY DEF ExpandInit, Moves, Directions
  <2>3. TypeOK
    BY <1>2, <2>1, <2>2 DEF TypeOK
  <2> QED
    BY <1>1, <2>1, <2>3 DEF RawInv, IInv, Copying
<1>7. TableInv
  BY <1>2, <1>3 DEF TableInv, TableOK
<1>8. ConfigInv
  BY DEF ExpandInit, ConfigInv
<1>9. TodoInv /\ RoomInv
  BY <1>1 DEF TodoInv, RoomInv, Moving
<1>10. RunInv /\ CleanInv /\ PlacedInv /\ SizeInv
  BY <1>1, <1>4 DEF RunInv, CleanInv, PlacedInv, SizeInv, Windows, Whole
<1>11. BystandersIntact
  BY <1>1 DEF BystandersIntact
<1> QED
  BY <1>5, <1>6, <1>7, <1>8, <1>9, <1>10, <1>11 DEF ExpandIInv

\* In Windows nothing is moved: the plan and the layout are all there is.
LEMMA WindowsKeeps ==
  ASSUME ExpandIInv, at \in Windows, at' \in Windows,
         UNCHANGED <<todo, shift, shrunk, runs, clean, origin, placed>>,
         RawInv', TableOK(table'), need' \in [Ids -> Nat], Whole', ConfigInv',
         config' \in [target : Nat, part : Partitions \union {None},
                      donor : Partitions \union {None}, moved : SUBSET Partitions],
         request' \in [target : Nat, current : Nat, no_move : Int,
                       donor : Partitions \union {None}, moved : SUBSET Partitions]
  PROVE  ExpandIInv'
<1>1. todo' = {} /\ shrunk' = None /\ runs' = 0 /\ ~clean' /\ origin' = {} /\ placed' = {}
  BY DEF ExpandIInv, TodoInv, RunInv, Windows, Moving
<1>2. Known' = table'
  BY <1>1 DEF Known
<1>3. TypeInv'
  BY <1>2 DEF ExpandIInv, TypeInv, TableOK, Stages
<1>4. TableInv'
  BY <1>2 DEF TableInv, TableOK
<1>5. TodoInv' /\ RoomInv'
  BY <1>1 DEF TodoInv, RoomInv, Moving, Windows
<1>6. RunInv' /\ CleanInv' /\ PlacedInv' /\ SizeInv'
  BY <1>1 DEF RunInv, CleanInv, PlacedInv, SizeInv, Windows, Whole
<1>7. BystandersIntact'
  BY <1>1 DEF BystandersIntact
<1> QED
  BY <1>3, <1>4, <1>5, <1>6, <1>7 DEF ExpandIInv

\* The free space behind the target of a sound table.
LEMMA AdjFacts ==
  ASSUME NEW t, TableOK(t)
  PROVE  /\ Target(t) \in t /\ Target(t) \in Partitions
         /\ following(t) \subseteq t /\ following(t) \subseteq Partitions
         /\ adj_unalloc(t) \in Int
         /\ no_move_max_mb(t) = FirstOffset(following(t)) - Target(t).off
         /\ no_move_max_mb(t) \in Int
         /\ adj_unalloc(t) >= 0
         /\ End(Target(t)) + adj_unalloc(t) <= disk_size_bytes
         /\ \A p \in following(t) : End(Target(t)) + adj_unalloc(t) <= p.off
<1>1. t \subseteq Partitions /\ Sound(t) /\ Target(t) \in t
  BY TargetFacts DEF TableOK
<1>2. following(t) \subseteq t /\ \A p \in following(t) : p.off >= End(Target(t))
  BY DEF following
<1>3. /\ FirstOffset(following(t)) \in Nat /\ FirstOffset(following(t)) <= disk_size_bytes
      /\ \A p \in following(t) : FirstOffset(following(t)) <= p.off
      /\ \/ FirstOffset(following(t)) = disk_size_bytes
         \/ \E p \in following(t) : p.off = FirstOffset(following(t))
  <2>1. following(t) \subseteq Partitions
    BY <1>1, <1>2
  <2> QED
    BY <2>1, FirstOffsetFacts
<1>4. /\ Target(t).off \in Nat /\ Target(t).len \in Nat /\ End(Target(t)) \in Nat
      /\ End(Target(t)) = Target(t).off + Target(t).len /\ End(Target(t)) <= disk_size_bytes
  BY <1>1, PartitionFields, SoundFacts
<1>5. End(Target(t)) <= FirstOffset(following(t))
  BY <1>2, <1>3, <1>4
<1> QED
  BY <1>1, <1>2, <1>3, <1>4, <1>5, DiskAssumption DEF adj_unalloc, no_move_max_mb

\* The dialog confirms partitions of the table it has read.
LEMMA RequestKeeps ==
  ASSUME ExpandIInv, RequestExpand
  PROVE  ExpandIInv'
<1>1. /\ at = "windows" /\ at' = "confirmed"
      /\ UNCHANGED <<vars, table, need, config, todo, shift, shrunk, runs, clean, origin, placed>>
  BY DEF RequestExpand
<1>2. TableOK(table) /\ RawInv /\ RunInv /\ TypeInv /\ ConfigInv
  BY TableIsOK DEF ExpandIInv
<1>3. RawInv'
  BY <1>1, <1>2, RawQuiet
<1>4. Whole'
  <2>1. disk' = disk
    BY <1>1 DEF vars
  <2> QED
    BY <1>1, <1>2, <2>1 DEF RunInv, Windows, Whole, Intact
<1>5. ConfigInv'
  BY <1>1, <1>2 DEF ConfigInv
<1>6. request' \in [target : Nat, current : Nat, no_move : Int,
                    donor : Partitions \union {None}, moved : SUBSET Partitions]
  <2>1. PICK give \in Gives, target \in 1 .. disk_size_bytes :
          LET reaching == {d \in move_options(table, give) : reach_mb(table, give, d) >= target}
              moving == target > no_move_max_mb(table)
              donor == Nearest(reaching)
          IN  /\ moving => reaching # {}
              /\ request' = [target |-> target, current |-> Target(table).len,
                             no_move |-> no_move_max_mb(table),
                             donor |-> IF moving THEN donor ELSE None,
                             moved |-> IF moving THEN carried(table, donor) ELSE {}]
    BY DEF RequestExpand
  <2> DEFINE reaching == {d \in move_options(table, give) : reach_mb(table, give, d) >= target}
             moving == target > no_move_max_mb(table)
             donor == Nearest(reaching)
  <2>2. reaching \subseteq Partitions
    BY <1>2, AdjFacts DEF move_options
  <2>3. moving => donor \in Partitions
    <3>1. moving => reaching # {}
      BY <2>1
    <3> HIDE DEF reaching
    <3> QED
      BY <2>2, <3>1, NearestFacts
  <2>4. carried(table, donor) \subseteq Partitions
    BY <1>2, AdjFacts DEF carried
  <2>5. target \in Nat /\ Target(table).len \in Nat /\ no_move_max_mb(table) \in Int
    <3>1. Target(table) \in Partitions /\ no_move_max_mb(table) \in Int
      BY <1>2, AdjFacts
    <3> QED
      BY <3>1, PartitionFields, DiskAssumption
  <2>6. request' = [target |-> target, current |-> Target(table).len,
                    no_move |-> no_move_max_mb(table),
                    donor |-> IF moving THEN donor ELSE None,
                    moved |-> IF moving THEN carried(table, donor) ELSE {}]
    BY <2>1
  <2> HIDE DEF moving, donor
  <2> QED
    BY <2>3, <2>4, <2>5, <2>6
<1>7. /\ at \in Windows /\ at' \in Windows /\ TableOK(table') /\ need' \in [Ids -> Nat]
      /\ config' \in [target : Nat, part : Partitions \union {None},
                      donor : Partitions \union {None}, moved : SUBSET Partitions]
  BY <1>1, <1>2 DEF Windows, TypeInv
<1> QED
  BY <1>1, <1>3, <1>4, <1>5, <1>6, <1>7, WindowsKeeps

\* The handoff stores the confirmed plan with the target it was made for.
LEMMA HandoffKeeps ==
  ASSUME ExpandIInv, run_handoff
  PROVE  ExpandIInv'
<1>1. /\ at = "confirmed" /\ at' \in {"staged", "refused"}
      /\ UNCHANGED <<vars, table, need, request, todo, shift, shrunk,
                     runs, clean, origin, placed>>
  BY DEF run_handoff
<1>2. TableOK(table) /\ RawInv /\ RunInv /\ TypeInv /\ ConfigInv
  BY TableIsOK DEF ExpandIInv
<1>3. RawInv'
  BY <1>1, <1>2, RawQuiet
<1>4. Whole'
  <2>1. disk' = disk
    BY <1>1 DEF vars
  <2> QED
    BY <1>1, <1>2, <2>1 DEF RunInv, Windows, Whole, Intact
<1>5. /\ ConfigInv'
      /\ config' \in [target : Nat, part : Partitions \union {None},
                      donor : Partitions \union {None}, moved : SUBSET Partitions]
  <2>0. config.donor = None
    BY <1>1, <1>2 DEF ConfigInv
  <2>1. CASE UNCHANGED config
    BY <1>1, <1>2, <2>0, <2>1 DEF ConfigInv, TypeInv
  <2> DEFINE moving == request.target > no_move_max_mb(table)
  <2>2. CASE /\ no_move_max_mb(table) = request.no_move
             /\ moving => /\ request.donor \in following(table)
                          /\ carried(table, request.donor) = request.moved
             /\ config' = [target |-> request.target, part |-> Target(table),
                           donor |-> IF moving THEN request.donor ELSE None,
                           moved |-> IF moving THEN request.moved ELSE {}]
             /\ at' = "staged"
    <3>1. Target(table) \in Partitions /\ following(table) \subseteq Partitions
          /\ no_move_max_mb(table) = FirstOffset(following(table)) - Target(table).off
      BY <1>2, AdjFacts
    <3>2. /\ request.target \in Nat /\ request.donor \in Partitions \union {None}
          /\ request.moved \in SUBSET Partitions
      BY <1>2 DEF TypeInv
    <3>3. config' \in [target : Nat, part : Partitions \union {None},
                       donor : Partitions \union {None}, moved : SUBSET Partitions]
      BY <2>2, <3>1, <3>2
    <3>4. CASE ~moving
      <4>1. config'.donor = None
        BY <2>2, <3>4
      <4> QED
        BY <1>1, <3>3, <4>1 DEF ConfigInv
    <3>5. CASE moving
      <4>1. /\ config'.donor = request.donor /\ config'.moved = request.moved
            /\ config'.target = request.target /\ config'.part = Target(table)
        BY <2>2, <3>5
      <4>2. FirstOffset(following(table)) = FirstOffset(request.moved \union {request.donor})
        BY <1>2, <2>2, <3>5, CarriedFirst DEF TableOK
      <4>3. request.donor.off >= End(Target(table))
        BY <2>2, <3>5 DEF following
      <4> HIDE DEF moving
      <4> QED
        BY <1>1, <2>2, <3>1, <3>3, <4>1, <4>2, <4>3 DEF ConfigInv
    <3> QED
      BY <3>4, <3>5
  <2> QED
    BY <2>1, <2>2 DEF run_handoff, move_options
<1>6. /\ at \in Windows /\ at' \in Windows /\ TableOK(table') /\ need' \in [Ids -> Nat]
      /\ request' \in [target : Nat, current : Nat, no_move : Int,
                       donor : Partitions \union {None}, moved : SUBSET Partitions]
  BY <1>1, <1>2 DEF Windows, TypeInv
<1> QED
  BY <1>1, <1>3, <1>4, <1>5, <1>6, WindowsKeeps

\* Another tool leaves a layout, freshly formatted.
LEMMA RepartitionKeeps ==
  ASSUME ExpandIInv, Repartition
  PROVE  ExpandIInv'
<1>1. PICK t \in Layouts : table' = t /\ disk' = Formatted(t) /\ need' = NeedOf(t)
  BY DEF Repartition
<1>2. /\ at \in {"confirmed", "staged"} /\ at' = at /\ buffer' = disk' /\ before' = disk'
      /\ UNCHANGED <<pc, move, pos, request, config, todo, shift, shrunk,
                     runs, clean, origin, placed>>
  BY DEF Repartition, planVars
<1>3. RawInv /\ TypeInv /\ ConfigInv
  BY DEF ExpandIInv
<1>4. /\ TableOK(table') /\ disk' \in [Addresses -> Content] /\ need' \in [Ids -> Nat]
      /\ \A p \in table' : /\ need'[p.id] = p.len
                           /\ \A i \in 0 .. (p.len - 1) : disk'[p.off + i] = <<p.id, i>>
  BY <1>1, LayoutFacts
<1>5. Whole'
  <2>1. \A p \in table' : p.len \in Nat
    BY <1>4, PartitionFields DEF TableOK
  <2> QED
    BY <1>4, <2>1 DEF Whole, Intact
<1>6. RawInv'
  <2>1. MoveIdle
    BY <1>2, <1>3 DEF RawInv, MoveIdle
  <2> QED
    BY <1>2, <1>3, <1>4, <2>1, RawIdle DEF RawInv
<1>7. ConfigInv'
  BY <1>2, <1>3 DEF ConfigInv
<1>8. /\ at \in Windows /\ at' \in Windows
      /\ config' \in [target : Nat, part : Partitions \union {None},
                      donor : Partitions \union {None}, moved : SUBSET Partitions]
      /\ request' \in [target : Nat, current : Nat, no_move : Int,
                       donor : Partitions \union {None}, moved : SUBSET Partitions]
  BY <1>2, <1>3 DEF Windows, TypeInv
<1> QED
  BY <1>2, <1>4, <1>5, <1>6, <1>7, <1>8, WindowsKeeps

\* A start remembers whether it finds every partition whole.
LEMMA StartKeeps ==
  ASSUME ExpandIInv, Start
  PROVE  ExpandIInv'
<1>1. /\ at \in {"staged", "failed", "off"} /\ at' = "plan" /\ runs' = runs + 1
      /\ origin' = IF runs = 0 THEN table ELSE origin
      /\ placed' = {}
      /\ UNCHANGED <<vars, request, config, table, need, todo, shift, shrunk>>
  BY DEF Start, planVars
<1>2. /\ TypeInv /\ RawInv /\ TableInv /\ ConfigInv /\ TodoInv /\ RunInv /\ BystandersIntact
      /\ runs \in Nat /\ table \subseteq Partitions
  BY DEF ExpandIInv, TypeInv, Known
<1>3. RawInv' /\ disk' = disk
  BY <1>1, <1>2, RawQuiet DEF vars
<1>4. todo = {} /\ shrunk = None /\ Known' = Known /\ Known = table
  BY <1>1, <1>2 DEF TodoInv, Moving, Windows, Known
<1>5. TypeInv'
  BY <1>1, <1>2, <1>4 DEF TypeInv, Stages
<1>6. TableInv' /\ ConfigInv' /\ TodoInv' /\ RoomInv'
  BY <1>1, <1>2, <1>4 DEF TableInv, ConfigInv, TodoInv, RoomInv, Moving
<1>7. clean' => /\ \A p \in origin' : \E q \in table' : q.id = p.id
                /\ \A q \in table' : Intact(q)'
  BY DEF Start, Lossless
<1>8. placed' = {} /\ runs' # 0
  BY <1>1, <1>2
<1>9. RunInv' /\ CleanInv' /\ PlacedInv' /\ SizeInv'
  <2>1. RunInv'
    BY <1>1, <1>7, <1>8 DEF RunInv, Windows
  <2>2. CleanInv'
    BY <1>1, <1>4, <1>7, <1>8 DEF CleanInv, Known
  <2> QED
    BY <1>1, <1>8, <2>1, <2>2 DEF PlacedInv, SizeInv
<1>10. BystandersIntact'
  <2>1. CASE runs = 0
    <3>1. origin' = table /\ \A p \in table : p.len >= p.len /\ Intact(p)
      BY <1>1, <1>2, <2>1, PartitionFields DEF RunInv
    <3>2. \A p \in table' : Intact(p)'
      BY <1>1, <1>3, <3>1 DEF Intact
    <3> QED
      BY <1>1, <3>1, <3>2 DEF BystandersIntact
  <2>2. CASE runs # 0
    <3>1. origin' = origin /\ Confirmed' = Confirmed /\ table' = table /\ need' = need
      BY <1>1, <2>2 DEF Confirmed
    <3> QED
      BY <1>2, <1>3, <3>1 DEF BystandersIntact, Intact
  <2> QED
    BY <2>1, <2>2
<1> QED
  BY <1>3, <1>5, <1>6, <1>9, <1>10 DEF ExpandIInv

-----------------------------------------------------------------------------
(***************************************************************************)
(* WinPE: tables that lose, gain or replace an entry.                      *)
(***************************************************************************)

\* A table without a partition that is not the target.
LEMMA RemoveOK ==
  ASSUME NEW t, TableOK(t), NEW p, p \in t => Kind[p.id] # "target"
  PROVE  TableOK(t \ {p}) /\ Target(t \ {p}) = Target(t)
<1>1. Target(t) \in t /\ \A q \in t : Kind[q.id] = "target" <=> q = Target(t)
  BY TargetFacts DEF TableOK
<1>2. Target(t) \in t \ {p}
  BY <1>1
<1>3. \A q \in t \ {p} : Kind[q.id] = "target" <=> q = Target(t)
  BY <1>1
<1>4. Sound(t \ {p})
  BY SoundPart DEF TableOK
<1>5. TableOK(t \ {p})
  BY <1>2, <1>3, <1>4 DEF TableOK
<1> QED
  BY <1>2, <1>3, <1>5, TargetIs

\* A table with a new partition that is not a target and overlaps none.
LEMMA AddOK ==
  ASSUME NEW t, TableOK(t), NEW q \in Partitions, Kind[q.id] # "target",
         End(q) <= disk_size_bytes,
         \A p \in t : p.id # q.id /\ (End(p) <= q.off \/ End(q) <= p.off)
  PROVE  TableOK(t \union {q}) /\ Target(t \union {q}) = Target(t)
<1>1. Target(t) \in t /\ \A r \in t : Kind[r.id] = "target" <=> r = Target(t)
  BY TargetFacts DEF TableOK
<1>2. Target(t) \in t \union {q}
  BY <1>1
<1>3. \A r \in t \union {q} : Kind[r.id] = "target" <=> r = Target(t)
  BY <1>1
<1>4. Sound(t \union {q})
  BY SoundAdd DEF TableOK
<1>5. TableOK(t \union {q})
  BY <1>2, <1>3, <1>4 DEF TableOK
<1> QED
  BY <1>2, <1>3, <1>5, TargetIs

\* A table in which a partition that is not the target has another geometry.
LEMMA ReplaceOK ==
  ASSUME NEW t, TableOK(t), NEW p \in t, Kind[p.id] # "target",
         NEW q \in Partitions, q.id = p.id, End(q) <= disk_size_bytes,
         \A r \in t \ {p} : End(r) <= q.off \/ End(q) <= r.off
  PROVE  /\ TableOK((t \ {p}) \union {q})
         /\ Target((t \ {p}) \union {q}) = Target(t)
<1>1. TableOK(t \ {p}) /\ Target(t \ {p}) = Target(t)
  BY RemoveOK
<1>2. \A r \in t \ {p} : r.id # q.id
  BY DEF TableOK
<1> QED
  BY <1>1, <1>2, AddOK

\* A task that stops without having written the disk is harmless when it has
\* changed the entries of confirmed partitions only.
LEMMA StopsHarmless ==
  ASSUME ExpandIInv, at \notin Windows, at' \in {"failed", "off"},
         todo' = {}, shift' = 0, shrunk' = None,
         UNCHANGED <<request, config, runs, clean, origin, placed>>, disk' = disk,
         RawInv', TableOK(table'), Target(table') = Target(table), need' \in [Ids -> Nat],
         \A q \in table : q.id \notin {c.id : c \in Confirmed} =>
            q \in table' /\ need'[q.id] = need[q.id],
         clean => \A q \in placed : need'[q.id] = need[q.id]
  PROVE  ExpandIInv'
<1>1. TypeInv /\ BystandersIntact /\ PlacedInv /\ table \subseteq Partitions
  BY DEF ExpandIInv, TypeInv, Known
<1>2. BystandersIntact'
  <2>1. ASSUME NEW q \in table, q.id \notin {c.id : c \in Confirmed}
        PROVE  \E r \in table' : /\ r.id = q.id /\ r.off = q.off /\ r.len >= q.len
                                 /\ Kind[q.id] # "target" => r = q
                                 /\ Intact(q) => Intact(r)'
    <3>1. q \in table' /\ need'[q.id] = need[q.id]
      BY <2>1
    <3>2. q.len >= q.len
      BY <1>1, PartitionFields
    <3>3. Intact(q) => Intact(q)'
      BY <3>1 DEF Intact
    <3> QED
      BY <3>1, <3>2, <3>3
  <2>2. table' \subseteq Partitions
    BY DEF TableOK
  <2> QED
    BY <1>1, <2>1, <2>2, BystandersKept
<1>3. PlacedInv'
  BY <1>1 DEF PlacedInv, Intact
<1> QED
  BY <1>2, <1>3, FailKeeps

\* Nothing but the stage changes when a task stops between two steps.
LEMMA StopsQuietly ==
  ASSUME ExpandIInv, at \notin Windows, at' \in {"failed", "off"},
         todo' = {}, shift' = 0, shrunk' = None,
         UNCHANGED <<request, config, table, need, runs, clean, origin, placed>>,
         disk' = disk, RawInv'
  PROVE  ExpandIInv'
<1>1. TableOK(table) /\ need \in [Ids -> Nat]
  BY TableIsOK DEF ExpandIInv, TypeInv
<1> QED
  BY <1>1, StopsHarmless

-----------------------------------------------------------------------------
(***************************************************************************)
(* WinPE: planning.                                                        *)
(***************************************************************************)

\* Nothing has to be moved, or nothing at all has to be done.
LEMMA NoMoveKeeps ==
  ASSUME ExpandIInv, at = "plan", at' \in {"cleanup", "extend"},
         at' = "cleanup" => delta <= 0,
         UNCHANGED <<vars, request, config, table, need, todo, shift, shrunk, runs, clean, origin,
                     placed>>
  PROVE  ExpandIInv'
<1>1. /\ TypeInv /\ RawInv /\ TableInv /\ ConfigInv /\ TodoInv /\ RoomInv /\ RunInv
      /\ CleanInv /\ PlacedInv /\ BystandersIntact
  BY DEF ExpandIInv
<1>2. RawInv' /\ disk' = disk /\ Known' = Known
  BY <1>1, RawQuiet DEF vars, Known
<1>3. todo = {}
  BY <1>1 DEF TodoInv, Moving
<1>4. TypeInv' /\ TableInv' /\ ConfigInv'
  BY <1>1, <1>2 DEF TypeInv, TableInv, ConfigInv, Stages
<1>5. TodoInv' /\ RoomInv'
  BY <1>1, <1>3 DEF TodoInv, RoomInv, Moving, Windows
<1>6. RunInv'
  BY <1>1 DEF RunInv, Windows
<1>7. \A p : Intact(p)' <=> Intact(p)
  BY <1>2 DEF Intact
<1>8. CleanInv' /\ PlacedInv' /\ BystandersIntact'
  <2>1. CleanInv'
    BY <1>1, <1>2, <1>3, <1>7 DEF CleanInv
  <2> QED
    BY <1>1, <1>7, <2>1 DEF PlacedInv, BystandersIntact, Confirmed
<1>9. SizeInv'
  <2>1. Target(table) \in Partitions /\ config.target \in Nat
    BY <1>1, TableIsOK, AdjFacts DEF TypeInv
  <2> QED
    BY <2>1, PartitionFields DEF SizeInv, delta
<1> QED
  BY <1>1, <1>2, <1>4, <1>5, <1>6, <1>8, <1>9 DEF ExpandIInv

\* The distance, the boundary and the shrink are numbers.
LEMMA PlanNumbers ==
  ASSUME ExpandIInv, NEW p \in Partitions
  PROVE  /\ Shift \in Int /\ boundary(table, p) \in Nat /\ plan_right_donor_shrink(p) \in Nat
         /\ plan_right_donor_shrink(p) = 0 => End(p) + Shift <= boundary(table, p)
         /\ boundary(table, p) <= disk_size_bytes
         /\ \A q \in table : q.off > p.off => boundary(table, p) <= q.off
<1>1. TableOK(table) /\ config.target \in Nat /\ table \subseteq Partitions
  BY TableIsOK DEF ExpandIInv, TypeInv, TableOK
<1>2. Shift \in Int
  <2>1. Target(table) \in Partitions /\ adj_unalloc(table) \in Int
    BY <1>1, AdjFacts
  <2> QED
    BY <1>1, <2>1, PartitionFields DEF Shift, delta
<1> DEFINE S == {q \in table : q.off > p.off}
<1>3. /\ boundary(table, p) \in Nat /\ boundary(table, p) <= disk_size_bytes
      /\ \A q \in S : boundary(table, p) <= q.off
  <2>1. S \subseteq Partitions
    BY <1>1
  <2>2. boundary(table, p) = FirstOffset(S)
    BY DEF boundary
  <2> HIDE DEF S
  <2> QED
    BY <2>1, <2>2, FirstOffsetFacts
<1>4. End(p) \in Nat
  BY PartitionFields
<1> QED
  BY <1>2, <1>3, <1>4 DEF plan_right_donor_shrink

\* What the planner accepts: the confirmed partitions, as they were confirmed,
\* with nothing else between them.
LEMMA PlanFacts ==
  ASSUME ExpandIInv, at = "plan", CheckedPlan, delta > adj_unalloc(table)
  PROVE  /\ donor_now \in following(table) /\ carried_now = carried(table, donor_now)
         /\ {donor_now} \union carried_now \subseteq Confirmed
         /\ {donor_now} \union carried_now \subseteq following(table)
         /\ Shift > 0 /\ Shift = request.target - request.no_move
         /\ Rearmost({donor_now} \union carried_now) = donor_now
<1>1. TableOK(table) /\ TypeInv /\ ConfigInv
  BY TableIsOK DEF ExpandIInv
<1>2. /\ donor_now \in table /\ carried_now = config.moved /\ Target(table) = config.part
      /\ donor_now = config.donor /\ carried_now = carried(table, donor_now)
  BY DEF CheckedPlan, carried_now
<1>3. table \subseteq Partitions /\ Sound(table) /\ donor_now \in Partitions
  BY <1>1, <1>2 DEF TableOK
<1>4. /\ config.donor = request.donor /\ config.moved = request.moved
      /\ config.target = request.target
      /\ request.no_move = FirstOffset(config.moved \union {config.donor}) - config.part.off
      /\ config.donor.off >= End(config.part)
  <2>1. config.donor # None
    BY <1>2, <1>3, PartitionFields
  <2> QED
    BY <1>1, <2>1 DEF ConfigInv
<1>5. donor_now \in following(table)
  BY <1>2, <1>4 DEF following
<1>6. {donor_now} \union carried_now \subseteq following(table)
  BY <1>2, <1>5 DEF carried
<1>7. {donor_now} \union carried_now \subseteq Confirmed
  <2>1. \A p \in {donor_now} \union carried_now : p # None
    BY <1>1, <1>6, AdjFacts, PartitionFields
  <2> QED
    BY <1>2, <1>4, <2>1 DEF Confirmed
<1>8. Shift > 0 /\ Shift = request.target - request.no_move
  <2>1. FirstOffset(following(table)) = FirstOffset(config.moved \union {config.donor})
    BY <1>2, <1>3, <1>5, CarriedFirst
  <2>2. /\ Target(table) \in Partitions /\ adj_unalloc(table) \in Int
        /\ no_move_max_mb(table) = FirstOffset(following(table)) - Target(table).off
    BY <1>1, AdjFacts
  <2>3. no_move_max_mb(table) = request.no_move
    BY <1>2, <1>4, <2>1, <2>2
  <2>4. Target(table).len \in Nat /\ config.target \in Nat
    BY <1>1, <2>2, PartitionFields DEF TypeInv
  <2> QED
    BY <1>4, <2>2, <2>3, <2>4 DEF Shift, delta, no_move_max_mb
<1>9. Rearmost({donor_now} \union carried_now) = donor_now
  <2> DEFINE S == {donor_now} \union carried_now
  <2>1. S \subseteq table /\ donor_now \in S
    BY <1>6 DEF following
  <2>2. S \subseteq Partitions /\ \A q \in S : End(q) <= disk_size_bytes
    BY <1>3, <2>1, SoundFacts
  <2>3. \A q \in S \ {donor_now} : q.off < donor_now.off
    BY <1>2 DEF carried
  <2> HIDE DEF S
  <2>4. Rearmost(S) = donor_now
    BY <2>1, <2>2, <2>3, RearmostIs
  <2> QED
    BY <2>4 DEF S
<1> QED
  BY <1>2, <1>5, <1>6, <1>7, <1>8, <1>9

\* Moves are planned.
LEMMA MovePlanKeeps ==
  ASSUME ExpandIInv, at = "plan", CheckedPlan, delta > adj_unalloc(table),
         todo' = {donor_now} \union carried_now, shift' = Shift,
         at' = IF plan_right_donor_shrink(donor_now) > 0 THEN "shrink" ELSE "lock",
         UNCHANGED <<vars, request, config, table, need, shrunk, runs, clean, origin, placed>>
  PROVE  ExpandIInv'
<1>1. /\ TypeInv /\ RawInv /\ TableInv /\ ConfigInv /\ TodoInv /\ RunInv
      /\ CleanInv /\ PlacedInv /\ BystandersIntact /\ TableOK(table)
  BY TableIsOK DEF ExpandIInv
<1>2. at' \in {"shrink", "lock"} /\ RawInv' /\ disk' = disk
  BY <1>1, RawQuiet DEF vars
<1>3. /\ donor_now \in following(table)
      /\ todo' \subseteq Confirmed /\ todo' \subseteq following(table)
      /\ shift' > 0 /\ shift' = request.target - request.no_move
      /\ hand' = donor_now /\ carried_now = carried(table, donor_now)
  BY PlanFacts DEF hand
<1>4. /\ todo = {} /\ shrunk = None /\ donor_now \in todo' /\ todo' \subseteq table
      /\ Known' = table /\ Known = table
  BY <1>1, <1>3 DEF TodoInv, Moving, Known, following
<1>5. TypeInv'
  <2>1. Shift \in Nat
    <3>1. donor_now \in Partitions
      BY <1>1, <1>3, AdjFacts
    <3> QED
      BY <1>3, <3>1, PlanNumbers
  <2> QED
    BY <1>1, <1>2, <1>4, <2>1 DEF TypeInv, Stages, Moving
<1>6. TableInv' /\ ConfigInv'
  BY <1>1, <1>2, <1>4 DEF TableInv, ConfigInv
<1>7. TodoInv'
  <2>1. \A p \in todo' : Kind[p.id] \in {"data", "recovery"}
    BY DEF CheckedPlan
  <2>2. \A p \in todo' : End(Target(table)) <= p.off
    <3>1. \A p \in todo' : p.off >= End(Target(table)) /\ p.off \in Nat
      BY <1>1, <1>3, AdjFacts, PartitionFields DEF following
    <3>2. End(Target(table)) \in Nat
      BY <1>1, AdjFacts, PartitionFields
    <3> QED
      BY <3>1, <3>2
  <2>3. Confirmed' = Confirmed
    BY DEF Confirmed
  <2> QED
    BY <1>2, <1>3, <1>4, <2>1, <2>2, <2>3 DEF TodoInv, Moving, Windows
<1>8. RoomInv'
  <2>1. ASSUME NEW p \in todo', NEW q \in table \ todo'
        PROVE  q.off < p.off \/ q.off > hand'.off
    <3>1. /\ p \in table /\ p \in following(table) /\ table \subseteq Partitions /\ Sound(table)
          /\ Target(table) \in table
      BY <1>1, <1>3, <1>4, AdjFacts DEF TableOK
    <3>2. CASE q.off >= End(Target(table))
      <4>1. ~(q.off < donor_now.off) /\ q # donor_now
        BY <1>3, <3>2 DEF following, carried
      <4>2. q.off # donor_now.off
        BY <1>3, <3>1, <4>1, SoundFacts DEF following
      <4>3. q.off \in Nat /\ donor_now.off \in Nat
        BY <1>3, <3>1, PartitionFields DEF following
      <4> QED
        BY <1>3, <4>1, <4>2, <4>3
    <3>3. CASE ~(q.off >= End(Target(table)))
      <4>1. p.off >= End(Target(table))
        BY <3>1 DEF following
      <4> QED
        BY <3>1, <3>3, <4>1, PartitionFields
    <3> QED
      BY <3>2, <3>3
  <2>2. ASSUME at' = "lock"
        PROVE  /\ End(donor_now) + Shift <= disk_size_bytes
               /\ \A q \in table : q.off > donor_now.off => End(donor_now) + Shift <= q.off
    <3>1. donor_now \in Partitions /\ table \subseteq Partitions
      BY <1>1, <1>3, AdjFacts DEF TableOK
    <3>2. plan_right_donor_shrink(donor_now) = 0
      BY <2>2, <3>1, PlanNumbers
    <3>3. /\ End(donor_now) + Shift <= boundary(table, donor_now)
          /\ boundary(table, donor_now) \in Nat /\ boundary(table, donor_now) <= disk_size_bytes
          /\ \A q \in table : q.off > donor_now.off => boundary(table, donor_now) <= q.off
          /\ Shift \in Int
      BY <3>1, <3>2, PlanNumbers
    <3>4. End(donor_now) \in Nat /\ \A q \in table : q.off \in Nat
      BY <3>1, PartitionFields
    <3> QED
      BY <3>3, <3>4, DiskAssumption
  <2> QED
    BY <1>2, <1>3, <1>4, <2>1, <2>2 DEF RoomInv
<1>9. \A p : Intact(p)' <=> Intact(p)
  BY <1>2 DEF Intact
<1>10. RunInv'
  BY <1>1, <1>2, <1>9 DEF RunInv, Windows
<1>11. CleanInv'
  <2>1. clean => placed = {}
    BY <1>1 DEF RunInv
  <2> QED
    BY <1>1, <1>2, <1>4, <1>9, <2>1 DEF CleanInv
<1>12. PlacedInv' /\ BystandersIntact'
  BY <1>1, <1>9 DEF PlacedInv, BystandersIntact, Confirmed
<1>13. SizeInv'
  BY <1>2 DEF SizeInv
<1> QED
  BY <1>2, <1>5, <1>6, <1>7, <1>8, <1>10, <1>11, <1>12, <1>13 DEF ExpandIInv

\* The plan made in WinPE.
LEMMA PlanKeeps ==
  ASSUME ExpandIInv, expand_c_drive
  PROVE  ExpandIInv'
<1>1. at = "plan" /\ UNCHANGED <<vars, request, config, table, need, shrunk,
                                 runs, clean, origin, placed>>
  BY DEF expand_c_drive, planVars
<1>2. CASE delta <= 0 /\ at' = "cleanup" /\ UNCHANGED <<todo, shift>>
  BY <1>1, <1>2, NoMoveKeeps
<1>3. CASE at' = "extend" /\ UNCHANGED <<todo, shift>>
  BY <1>1, <1>3, NoMoveKeeps
<1>4. CASE /\ delta > adj_unalloc(table) /\ CheckedPlan
           /\ todo' = {donor_now} \union carried_now /\ shift' = Shift
           /\ at' = IF plan_right_donor_shrink(donor_now) > 0 THEN "shrink" ELSE "lock"
  BY <1>1, <1>4, MovePlanKeeps
<1> QED
  BY <1>2, <1>3, <1>4 DEF expand_c_drive, PlanAccepted

\* A refused plan has written nothing.
LEMMA RefusalKeeps ==
  ASSUME ExpandIInv, PlanRefused
  PROVE  ExpandIInv'
<1>1. /\ at = "plan" /\ at' = "failed" /\ todo' = {} /\ shift' = 0 /\ shrunk' = None
      /\ UNCHANGED <<vars, request, config, table, need, runs, clean, origin, placed>>
  BY DEF PlanRefused, Failed, planVars
<1>2. RawInv' /\ disk' = disk /\ at \notin Windows
  BY <1>1, RawQuiet DEF ExpandIInv, vars, Windows
<1> QED
  BY <1>1, <1>2, StopsQuietly

-----------------------------------------------------------------------------
(***************************************************************************)
(* WinPE: shrinking the donor.                                             *)
(***************************************************************************)

\* The donor with its rear part cut off.
LEMMA ShrinkFacts ==
  ASSUME ExpandIInv, at = "shrink", NEW by \in Nat, by < hand.len
  PROVE  LET q == Shortened(hand, by)
         IN  /\ hand \in table /\ hand \in todo /\ hand \in Confirmed
             /\ q \in Partitions /\ q.id = hand.id /\ q.off = hand.off /\ q.len = hand.len - by
             /\ TableOK(Replaced(hand, q)) /\ Target(Replaced(hand, q)) = Target(table)
<1> DEFINE q == Shortened(hand, by)
<1>1. TypeInv /\ TableInv /\ TodoInv /\ TableOK(table)
  BY TableIsOK DEF ExpandIInv
<1>2. hand \in todo /\ hand \in table /\ hand \in Partitions /\ Kind[hand.id] # "target"
  BY <1>1, Basics DEF TodoInv, Moving
<1>3. hand \in Confirmed
  BY <1>1, <1>2 DEF TodoInv, Confirmed
<1>4. q \in Partitions /\ q.id = hand.id /\ q.off = hand.off /\ q.len = hand.len - by
  BY <1>2, ShortenedFacts
<1> HIDE DEF q
<1>5. /\ hand.off \in Nat /\ hand.len \in Nat /\ End(hand) = hand.off + hand.len
      /\ End(q) = q.off + q.len
  BY <1>2, <1>4, PartitionFields
<1>6. table \subseteq Partitions /\ Sound(table)
  BY <1>1 DEF TableOK
<1>7. End(q) <= disk_size_bytes
  BY <1>2, <1>4, <1>5, <1>6, SoundFacts, DiskAssumption
<1>8. ASSUME NEW r \in table \ {hand} PROVE End(r) <= q.off \/ End(q) <= r.off
  <2>1. End(hand) <= r.off \/ End(r) <= hand.off
    BY <1>2, <1>6, SoundFacts
  <2>2. r.off \in Nat /\ End(r) \in Nat
    BY <1>6, PartitionFields
  <2> QED
    BY <1>4, <1>5, <2>1, <2>2
<1>9. TableOK(Replaced(hand, q)) /\ Target(Replaced(hand, q)) = Target(table)
  BY <1>1, <1>2, <1>4, <1>7, <1>8, ReplaceOK DEF Replaced
<1> QED
  BY <1>2, <1>3, <1>4, <1>9 DEF q

\* The provider has shrunk the donor.
LEMMA ShrinkKeeps ==
  ASSUME ExpandIInv, shrink_volume_stable_checked
  PROVE  ExpandIInv'
<1>1. /\ at = "shrink" /\ at' = "lock"
      /\ UNCHANGED <<vars, request, config, shift, runs, clean, origin, placed>>
  BY DEF shrink_volume_stable_checked, planVars
<1>2. /\ TypeInv /\ RawInv /\ TableInv /\ ConfigInv /\ TodoInv /\ RoomInv /\ RunInv
      /\ CleanInv /\ PlacedInv /\ BystandersIntact /\ TableOK(table)
  BY TableIsOK DEF ExpandIInv
<1>3. /\ table \subseteq Partitions /\ todo \subseteq Partitions /\ Sound(table)
      /\ hand \in todo /\ (\A p \in todo : p = hand \/ p.off < hand.off)
      /\ todo \subseteq table /\ Known = table /\ todo # {}
  BY <1>1, <1>2, Basics DEF TodoInv, Moving, Known
<1>4. PICK extra \in {0, 1} :
         LET by == plan_right_donor_shrink(hand) + extra
             q == Shortened(hand, by)
         IN  /\ by < hand.len
             /\ table' = Replaced(hand, q)
             /\ need' = [need EXCEPT ![hand.id] = Min({@, q.len})]
             /\ todo' = (todo \ {hand}) \union {q}
             /\ shrunk' = hand
  BY DEF shrink_volume_stable_checked
<1> DEFINE by == plan_right_donor_shrink(hand) + extra
           q == Shortened(hand, by)
<1>5. by \in Nat /\ by < hand.len
  <2>1. plan_right_donor_shrink(hand) \in Nat
    BY <1>3, PlanNumbers
  <2> QED
    BY <1>4, <2>1
<1>6. /\ table' = (table \ {hand}) \union {q}
      /\ need' = [need EXCEPT ![hand.id] = Min({@, q.len})]
      /\ todo' = (todo \ {hand}) \union {q}
      /\ shrunk' = hand
  BY <1>4 DEF Replaced
<1> HIDE DEF by
<1>7. /\ hand \in table /\ hand \in Confirmed
      /\ q \in Partitions /\ q.id = hand.id /\ q.off = hand.off /\ q.len = hand.len - by
      /\ TableOK(table') /\ Target(table') = Target(table)
  BY <1>1, <1>5, <1>6, ShrinkFacts DEF Replaced
<1> HIDE DEF q
<1>8. /\ hand.off \in Nat /\ hand.len \in Nat /\ q.len \in Nat /\ hand.id \in Ids
      /\ hand \in Partitions /\ hand # None /\ q.len <= hand.len
  BY <1>3, <1>5, <1>7, PartitionFields
<1>9. todo' \subseteq table' /\ Known' = table' /\ todo' # {} /\ todo' \subseteq Partitions
  BY <1>3, <1>6, <1>7 DEF Known
<1>10. hand' = q
  <2>1. \A p \in todo' \ {q} : p.off < q.off
    BY <1>3, <1>6, <1>7
  <2>2. \A p \in todo' : End(p) <= disk_size_bytes
    BY <1>7, <1>9, SoundFacts DEF TableOK
  <2>3. q \in todo'
    BY <1>6
  <2> QED
    BY <1>9, <2>1, <2>2, <2>3, RearmostIs DEF hand
<1>11. RawInv' /\ disk' = disk /\ Confirmed' = Confirmed
  BY <1>1, <1>2, RawQuiet DEF vars, Confirmed
<1>12. \A r \in table \ {hand} : r.id # hand.id /\ need'[r.id] = need[r.id]
  BY <1>2, <1>3, <1>6, <1>7 DEF TableOK
<1>13. /\ need'[hand.id] <= q.len /\ need'[hand.id] <= need[hand.id]
       /\ need' \in [Ids -> Nat] /\ need[hand.id] \in Nat
  <2>1. need[hand.id] \in Nat /\ need \in [Ids -> Nat]
    BY <1>2, <1>8 DEF TypeInv
  <2> QED
    BY <1>6, <1>8, <2>1, MinPair
<1>14. TypeInv'
  BY <1>1, <1>2, <1>6, <1>7, <1>8, <1>9, <1>13 DEF TypeInv, Stages, Moving, TableOK
<1>15. TableInv' /\ ConfigInv'
  BY <1>1, <1>2, <1>7, <1>9 DEF TableInv, ConfigInv, TableOK
<1>16. TodoInv'
  <2>1. shrunk = None
    BY <1>1, <1>2 DEF TodoInv
  <2>2. \A p \in todo : /\ Kind[p.id] \in {"data", "recovery"}
                        /\ End(Target(table)) <= p.off /\ p \in Confirmed
    BY <1>2, <2>1 DEF TodoInv, Confirmed
  <2>3. ASSUME NEW p \in todo'
        PROVE  /\ Kind[p.id] \in {"data", "recovery"}
               /\ End(Target(table')) <= p.off
               /\ \/ p \in Confirmed
                  \/ p = hand' /\ shrunk' \in Confirmed /\ p.id = shrunk'.id /\ p.off = shrunk'.off
               /\ p.id = shrunk'.id => p = hand'
    <3>1. CASE p = q
      BY <1>3, <1>6, <1>7, <1>10, <2>2, <3>1
    <3>2. CASE p \in todo \ {hand}
      <4>1. p.id # hand.id
        BY <1>3, <1>12, <3>2
      <4> QED
        BY <1>6, <1>7, <2>2, <3>2, <4>1
    <3> QED
      BY <1>6, <3>1, <3>2
  <2>4. shift' > 0 /\ shift' = request'.target - request'.no_move
    BY <1>1, <1>2, <1>3 DEF TodoInv
  <2> QED
    BY <1>1, <1>9, <1>11, <2>3, <2>4 DEF TodoInv, Moving, Windows
<1>17. RoomInv'
  <2>1. ASSUME NEW p \in todo', NEW r \in table' \ todo'
        PROVE  r.off < p.off \/ r.off > hand'.off
    <3>1. r \in table \ todo
      BY <1>3, <1>6, <2>1
    <3>2. PICK s \in todo : s.off = p.off
      BY <1>3, <1>6, <1>7
    <3>3. r.off < s.off \/ r.off > hand.off
      BY <1>2, <3>1 DEF RoomInv
    <3> QED
      BY <1>7, <1>10, <3>2, <3>3
  <2>2. Sound((table' \ {hand'}) \union {shrunk'})
    <3>1. (table' \ {hand'}) \union {shrunk'} \subseteq table
      BY <1>6, <1>7, <1>10
    <3> QED
      BY <1>3, <3>1, SoundPart
  <2> QED
    BY <1>1, <1>6, <1>8, <2>1, <2>2 DEF RoomInv
<1>18. RunInv' /\ SizeInv'
  BY <1>1, <1>2 DEF RunInv, SizeInv, Windows
<1>19. clean => placed = {} /\ \A p \in table : Intact(p)
  BY <1>1, <1>2 DEF RunInv
<1>20. PlacedInv'
  BY <1>1, <1>19 DEF PlacedInv
<1>21. CleanInv'
  <2> SUFFICES ASSUME clean PROVE CleanInv'
    BY <1>1 DEF CleanInv
  <2>1. ASSUME NEW p \in origin' PROVE \E r \in Known' : r.id = p.id
    <3>1. PICK s \in table : s.id = p.id
      BY <1>1, <1>2, <1>3 DEF CleanInv
    <3> QED
      BY <1>6, <1>7, <1>9, <3>1
  <2>2. ASSUME NEW r \in table' PROVE Intact(r)'
    <3>1. CASE r = q
      <4>1. \A i \in 0 .. (need[hand.id] - 1) : disk[hand.off + i] = <<hand.id, i>>
        BY <1>7, <1>19 DEF Intact
      <4>2. \A i \in 0 .. (need'[hand.id] - 1) : i \in 0 .. (need[hand.id] - 1)
        BY <1>8, <1>13
      <4>3. /\ q.len >= need'[q.id]
            /\ \A i \in 0 .. (need'[q.id] - 1) : disk'[q.off + i] = <<q.id, i>>
        BY <1>7, <1>8, <1>11, <1>13, <4>1, <4>2
      <4> QED
        BY <3>1, <4>3 DEF Intact
    <3>2. CASE r \in table \ {hand}
      BY <1>11, <1>12, <1>19, <3>2 DEF Intact
    <3> QED
      BY <1>6, <3>1, <3>2
  <2> QED
    BY <1>1, <1>19, <2>1, <2>2 DEF CleanInv
<1>22. BystandersIntact'
  <2>1. ASSUME NEW r \in table, r.id \notin {c.id : c \in Confirmed}
        PROVE  /\ r \in table' /\ r.len >= r.len /\ (Intact(r) => Intact(r)')
    <3>1. r \in table \ {hand}
      BY <1>7, <2>1
    <3>2. r.len \in Nat
      BY <1>3, PartitionFields
    <3> QED
      BY <1>6, <1>11, <1>12, <3>1, <3>2 DEF Intact
  <2> QED
    BY <1>1, <1>2, <1>7, <2>1, BystandersKept DEF TableOK
<1> QED
  BY <1>11, <1>14, <1>15, <1>16, <1>17, <1>18, <1>20, <1>21, <1>22 DEF ExpandIInv

\* A shrink that reports an error may have been carried out.
LEMMA ShrinkErrorKeeps ==
  ASSUME ExpandIInv, shrink_with_observed_recovery
  PROVE  ExpandIInv'
<1>1. /\ at = "shrink" /\ at' = "failed" /\ todo' = {} /\ shift' = 0 /\ shrunk' = None
      /\ UNCHANGED <<vars, request, config, runs, clean, origin, placed>>
  BY DEF shrink_with_observed_recovery, Failed, planVars
<1>2. RawInv' /\ disk' = disk /\ at \notin Windows
  BY <1>1, RawQuiet DEF ExpandIInv, vars, Windows
<1>3. CASE UNCHANGED <<table, need>>
  BY <1>1, <1>2, <1>3, StopsQuietly
<1> DEFINE by == plan_right_donor_shrink(hand)
           q == Shortened(hand, by)
<1>4. CASE /\ q.len > 0 /\ table' \in {table, Replaced(hand, q)}
           /\ need' = [need EXCEPT ![hand.id] = Min({@, q.len})]
  <2>1. TypeInv /\ TableInv /\ TodoInv /\ RunInv /\ TableOK(table)
    BY TableIsOK DEF ExpandIInv
  <2>2. hand \in Partitions
    BY <1>1, <2>1, Basics DEF TodoInv, Moving
  <2>3. by \in Nat
    BY <2>2, PlanNumbers
  <2>4. q.len = hand.len - by /\ hand.len \in Nat
    BY <2>2, <2>3, ShortenedFacts, PartitionFields
  <2> HIDE DEF by
  <2>5. by < hand.len
    BY <1>4, <2>3, <2>4
  <2>6. /\ hand \in table /\ hand \in Confirmed /\ TableOK(Replaced(hand, q))
        /\ Target(Replaced(hand, q)) = Target(table)
    BY <1>1, <2>3, <2>5, ShrinkFacts
  <2> HIDE DEF q
  <2>7. TableOK(table') /\ Target(table') = Target(table)
    BY <1>4, <2>1, <2>6
  <2>8. need' \in [Ids -> Nat]
    <3>1. q.len \in Nat /\ need \in [Ids -> Nat] /\ need[hand.id] \in Nat
      BY <2>1, <2>2, <2>3, <2>4, <2>5, PartitionFields DEF TypeInv
    <3> QED
      BY <1>4, <3>1, MinPair
  <2>9. ASSUME NEW r \in table, r.id \notin {c.id : c \in Confirmed}
        PROVE  r \in table' /\ need'[r.id] = need[r.id]
    <3>1. r # hand /\ r.id # hand.id
      BY <2>6, <2>9
    <3> QED
      BY <1>4, <2>1, <3>1 DEF Replaced, TypeInv
  <2>10. clean => placed = {}
    BY <1>1, <2>1 DEF RunInv
  <2> QED
    BY <1>1, <1>2, <2>7, <2>8, <2>9, <2>10, StopsHarmless
<1> QED
  BY <1>3, <1>4 DEF shrink_with_observed_recovery

-----------------------------------------------------------------------------
(***************************************************************************)
(* WinPE: the raw moves.                                                   *)
(***************************************************************************)

\* The volume is locked: the move of the partition in hand begins.
LEMMA LockKeeps ==
  ASSUME ExpandIInv, lock_dismount_volume
  PROVE  ExpandIInv'
<1>1. /\ at = "lock" /\ at' = "move" /\ move' = Right(hand, shift) /\ hand \in table
      /\ shrunk # None => End(hand) + shift <= boundary(table, hand)
      /\ UNCHANGED <<disk, pc, pos, buffer, before, request, config, table, need, todo, shift,
                     shrunk, runs, clean, origin, placed>>
  BY DEF lock_dismount_volume, planVars
<1>2. /\ TypeInv /\ RawInv /\ TableInv /\ ConfigInv /\ TodoInv /\ RoomInv /\ RunInv
      /\ CleanInv /\ PlacedInv /\ BystandersIntact /\ TableOK(table)
  BY TableIsOK DEF ExpandIInv
<1>3. hand' = hand /\ Known' = Known /\ hand \in Partitions /\ shift \in Nat
  BY <1>1, <1>2, Basics DEF hand, Known, TypeInv
<1>4. TypeInv' /\ TableInv' /\ ConfigInv'
  BY <1>1, <1>2, <1>3 DEF TypeInv, TableInv, ConfigInv, Stages, Moving
<1>5. RawInv'
  <2>1. pc = "idle" /\ pos = 0 /\ disk = before /\ TypeOK
    BY <1>1, <1>2 DEF RawInv, IInv
  <2>2. move' \in Moves /\ move'.len \in Nat
    BY <1>1, <1>3, PartitionFields DEF Right, Moves, Directions
  <2>3. TypeOK'
    BY <1>1, <2>1, <2>2 DEF TypeOK
  <2>4. IInv'
    BY <1>1, <2>1, <2>3 DEF IInv, Copying
  <2> QED
    BY <1>1, <1>3, <2>4 DEF RawInv
<1>6. Confirmed' = Confirmed /\ \A p : Intact(p)' <=> Intact(p)
  BY <1>1 DEF Confirmed, Intact
<1>7. TodoInv'
  BY <1>1, <1>2, <1>3, <1>6 DEF TodoInv, Moving, Windows
<1>8. RoomInv'
  <2>1. /\ End(hand) + shift <= disk_size_bytes
        /\ \A q \in table : q.off > hand.off => End(hand) + shift <= q.off
    <3>1. CASE shrunk = None
      BY <1>1, <1>2, <3>1 DEF RoomInv
    <3>2. CASE shrunk # None
      <4>1. /\ boundary(table, hand) \in Nat /\ boundary(table, hand) <= disk_size_bytes
            /\ \A q \in table : q.off > hand.off => boundary(table, hand) <= q.off
        BY <1>3, PlanNumbers
      <4>2. \A q \in table : q.off \in Nat
        BY <1>2, PartitionFields DEF TableOK
      <4>3. End(hand) + shift \in Nat
        BY <1>3, PartitionFields
      <4> QED
        BY <1>1, <3>2, <4>1, <4>2, <4>3, DiskAssumption
    <3> QED
      BY <3>1, <3>2
  <2> QED
    BY <1>1, <1>2, <1>3, <2>1 DEF RoomInv
<1>9. RunInv' /\ PlacedInv' /\ SizeInv' /\ BystandersIntact'
  <2>1. BystandersIntact'
    BY <1>1, <1>2, <1>6 DEF BystandersIntact
  <2> QED
    BY <1>1, <1>2, <1>6, <2>1 DEF RunInv, PlacedInv, SizeInv, Windows
<1>10. CleanInv'
  <2> SUFFICES ASSUME clean PROVE CleanInv'
    BY <1>1 DEF CleanInv
  <2>1. disk = before /\ Intact(hand) /\ \A q \in table : Intact(q)
    BY <1>1, <1>2 DEF RawInv, CleanInv
  <2>2. /\ hand.len >= need[hand.id]
        /\ \A i \in 0 .. (need[hand.id] - 1) : before[hand.off + i] = <<hand.id, i>>
    BY <2>1 DEF Intact
  <2> QED
    BY <1>1, <1>2, <1>3, <1>6, <2>1, <2>2 DEF CleanInv
<1> QED
  BY <1>4, <1>5, <1>7, <1>8, <1>9, <1>10 DEF ExpandIInv

\* The layout cannot be read or the volume not be locked: the shrink is undone,
\* if it can be.
LEMMA LockErrorKeeps ==
  ASSUME ExpandIInv, pre_move_error_with_shrink_recovery
  PROVE  ExpandIInv'
<1>1. /\ at = "lock" /\ at' = "failed" /\ todo' = {} /\ shift' = 0 /\ shrunk' = None
      /\ UNCHANGED <<vars, request, config, need, runs, clean, origin, placed>>
  BY DEF pre_move_error_with_shrink_recovery, Failed, planVars
<1>2. RawInv' /\ disk' = disk /\ at \notin Windows
  BY <1>1, RawQuiet DEF ExpandIInv, vars, Windows
<1>3. CASE UNCHANGED table
  BY <1>1, <1>2, <1>3, StopsQuietly
<1>4. CASE /\ shrunk # None /\ hand.id = shrunk.id
           /\ table' = (table \ {hand}) \union {shrunk}
  <2>1. TypeInv /\ TableInv /\ TodoInv /\ RoomInv /\ TableOK(table)
    BY TableIsOK DEF ExpandIInv
  <2>2. hand \in table /\ hand \in todo /\ Kind[hand.id] # "target" /\ shrunk \in Partitions
    BY <1>1, <1>4, <2>1, Basics DEF TodoInv, Moving, TypeInv
  <2>3. Sound(table')
    BY <1>1, <1>4, <2>1 DEF RoomInv
  <2>4. TableOK(table') /\ Target(table') = Target(table)
    <3>1. \A r \in table \ {hand} : End(r) <= shrunk.off \/ End(shrunk) <= r.off
      <4>1. ASSUME NEW r \in table \ {hand} PROVE End(r) <= shrunk.off \/ End(shrunk) <= r.off
        <5>1. r # shrunk
          BY <1>4, <2>1, <2>2 DEF TableOK
        <5> QED
          BY <1>4, <2>3, <5>1 DEF Sound
      <4> QED
        BY <4>1
    <3>2. End(shrunk) <= disk_size_bytes
      BY <1>4, <2>3 DEF Sound
    <3> QED
      BY <1>4, <2>1, <2>2, <3>1, <3>2, ReplaceOK
  <2>5. ASSUME NEW q \in table, q.id \notin {c.id : c \in Confirmed} PROVE q \in table'
    <3>1. hand.id \in {c.id : c \in Confirmed}
      BY <2>1, <2>2 DEF TodoInv
    <3> QED
      BY <1>4, <2>5, <3>1
  <2>6. need' \in [Ids -> Nat]
    BY <1>1, <2>1 DEF TypeInv
  <2> QED
    BY <1>1, <1>2, <2>4, <2>5, <2>6, StopsHarmless
<1> QED
  BY <1>3, <1>4 DEF pre_move_error_with_shrink_recovery, recover_observed_shrink, Replaced

\* A write of the move touches no partition but the one in hand, and behind it
\* only free space.
LEMMA WriteSafe ==
  ASSUME ExpandIInv, at = "move", NEW S \in SUBSET ChunkOf(move, pos), pc = "write",
         disk' = Written(disk, move, buffer, S)
  PROVE  /\ disk' \in [Addresses -> Content]
         /\ \A q \in table \ {hand} :
               \A i \in 0 .. (q.len - 1) : disk'[q.off + i] = disk[q.off + i]
<1>1. TypeInv /\ RawInv /\ TableInv /\ TodoInv /\ RoomInv
  BY DEF ExpandIInv
<1>2. /\ table \subseteq Partitions /\ Sound(table) /\ hand \in todo /\ hand \in table
      /\ hand \in Partitions /\ shift \in Nat /\ shift > 0
  BY <1>1, Basics DEF TodoInv, Moving, TypeInv
<1>3. /\ TypeOK /\ plan_raw_move_io(move) /\ Left(move, pos) > 0
      /\ move = Right(hand, shift)
  BY <1>1 DEF RawInv, IInv, Copying
<1>4. S \subseteq Offsets
  BY <1>3, ChunkShape
<1>5. /\ disk' \in [Addresses -> Content]
      /\ \A a \in Addresses : (\A i \in S : a # Destination(move, i)) => disk'[a] = disk[a]
  BY <1>3, <1>4, WriteEffect
<1>6. \A i \in S : i \in Nat /\ i < hand.len /\ Destination(move, i) = hand.off + shift + i
  BY <1>2, <1>3, <1>4, PartitionFields DEF Right, Destination, Offsets
<1>7. ASSUME NEW q \in table \ {hand}, NEW i \in 0 .. (q.len - 1)
      PROVE  disk'[q.off + i] = disk[q.off + i]
  <2>1. /\ q.off \in Nat /\ q.len \in Nat /\ End(q) = q.off + q.len
        /\ hand.off \in Nat /\ hand.len \in Nat /\ End(hand) = hand.off + hand.len
    BY <1>2, PartitionFields
  <2>2. /\ End(q) <= disk_size_bytes
        /\ q.off < hand.off => End(q) <= hand.off
        /\ q.off # hand.off
    BY <1>2, SoundFacts
  <2>3. q.off + i \in Addresses
    BY <2>1, <2>2, DiskAssumption DEF Addresses
  <2>4. q.off > hand.off => End(hand) + shift <= q.off
    BY <1>1 DEF RoomInv
  <2>5. \A j \in S : q.off + i # Destination(move, j)
    BY <1>2, <1>6, <2>1, <2>2, <2>4
  <2> QED
    BY <1>5, <2>3, <2>5
<1> QED
  BY <1>5, <1>7

\* Partitions that keep their bytes and whose data length stays are as whole as
\* they were.
LEMMA BytesKept ==
  ASSUME ExpandIInv, need' = need, NEW q \in Partitions,
         \A i \in 0 .. (q.len - 1) : disk'[q.off + i] = disk[q.off + i]
  PROVE  Intact(q) => Intact(q)'
<1>1. q.len \in Nat /\ need[q.id] \in Nat
  BY PartitionFields DEF ExpandIInv, TypeInv
<1>2. need[q.id] <= q.len => \A i \in 0 .. (need[q.id] - 1) : i \in 0 .. (q.len - 1)
  BY <1>1
<1> QED
  BY <1>1, <1>2 DEF Intact

\* During a move every other partition of the table, and all that a clean start
\* has put down before, keeps its bytes.
LEMMA MoveWritesKeep ==
  ASSUME ExpandIInv, at = "move", need' = need,
         \A q \in table \ {hand} : \A i \in 0 .. (q.len - 1) : disk'[q.off + i] = disk[q.off + i]
  PROVE  /\ \A q \in table \ {hand} : Intact(q) => Intact(q)'
         /\ hand.id \in {c.id : c \in Confirmed}
         /\ clean => \A q \in placed : Intact(q) => Intact(q)'
<1>1. TypeInv /\ TableInv /\ TodoInv /\ CleanInv
  BY DEF ExpandIInv
<1>2. table \subseteq Partitions /\ hand \in todo
  BY <1>1, Basics DEF TodoInv, Moving
<1>3. \A q \in table \ {hand} : Intact(q) => Intact(q)'
  BY <1>2, BytesKept
<1>4. hand.id \in {c.id : c \in Confirmed}
  BY <1>1, <1>2 DEF TodoInv
<1>5. ASSUME clean, NEW q \in placed PROVE Intact(q) => Intact(q)'
  <2>1. q \in table /\ hand.off < q.off
    BY <1>1, <1>2, <1>5 DEF CleanInv
  <2>2. q # hand
    BY <1>2, <2>1, PartitionFields
  <2> QED
    BY <1>3, <2>1, <2>2
<1> QED
  BY <1>3, <1>4, <1>5

\* Nothing but the raw move's own state and the disk changes in its steps.
LEMMA RawStepKeeps ==
  ASSUME ExpandIInv, RawMoveStep
  PROVE  ExpandIInv'
<1>1. /\ at = "move" /\ at' = "move"
      /\ Request \/ verify_disk_layout_snapshot \/ Copy \/ IoFails
      /\ UNCHANGED <<request, config, table, need, todo, shift, shrunk,
                     runs, clean, origin, placed>>
  BY DEF RawMoveStep, planVars
<1>2. /\ TypeInv /\ RawInv /\ TableInv /\ ConfigInv /\ TodoInv /\ RoomInv /\ RunInv
      /\ CleanInv /\ PlacedInv /\ BystandersIntact /\ IInv
  BY DEF ExpandIInv, RawInv
<1>3. hand' = hand /\ Known' = Known /\ Recreated' = Recreated /\ Confirmed' = Confirmed
  BY <1>1 DEF hand, Known, Recreated, Confirmed
<1>4. IInv'
  <2>1. Next
    BY <1>1 DEF Next
  <2> QED
    BY <1>2, <2>1, StepKeeps
<1>5. move' = move /\ (before' = before \/ (before' = disk /\ before = disk))
  <2>1. CASE Request
    BY <1>2, <2>1 DEF Request, IInv
  <2>2. CASE verify_disk_layout_snapshot
    BY <2>2 DEF verify_disk_layout_snapshot
  <2>3. CASE Copy
    BY <2>3 DEF Copy, read_exact, write_exact, FlushFileBuffers
  <2>4. CASE IoFails
    BY <2>4 DEF IoFails
  <2> QED
    BY <1>1, <2>1, <2>2, <2>3, <2>4
<1>6. \A q \in table \ {hand} : \A i \in 0 .. (q.len - 1) : disk'[q.off + i] = disk[q.off + i]
  <2>1. CASE UNCHANGED disk
    BY <2>1
  <2>2. ASSUME NEW S \in SUBSET ChunkOf(move, pos), pc = "write",
               disk' = Written(disk, move, buffer, S)
        PROVE  \A q \in table \ {hand} :
                  \A i \in 0 .. (q.len - 1) : disk'[q.off + i] = disk[q.off + i]
    BY <1>1, <2>2, WriteSafe
  <2>3. \/ UNCHANGED disk
        \/ \E S \in SUBSET ChunkOf(move, pos) :
              pc = "write" /\ disk' = Written(disk, move, buffer, S)
    <3>1. ChunkOf(move, pos) \in SUBSET ChunkOf(move, pos)
      OBVIOUS
    <3> QED
      BY <1>1, <3>1 DEF Request, verify_disk_layout_snapshot, Copy, read_exact, write_exact,
                        FlushFileBuffers, IoFails
  <2> QED
    BY <2>1, <2>2, <2>3
<1>7. /\ \A q \in table \ {hand} : Intact(q) => Intact(q)'
      /\ hand.id \in {c.id : c \in Confirmed}
      /\ clean => \A q \in placed : Intact(q) => Intact(q)'
  BY <1>1, <1>6, MoveWritesKeep
<1>8. TypeInv' /\ TableInv' /\ ConfigInv' /\ TodoInv' /\ RoomInv'
  <2>1. TypeInv' /\ TableInv' /\ ConfigInv'
    BY <1>1, <1>2, <1>3 DEF TypeInv, TableInv, ConfigInv
  <2>2. TodoInv'
    BY <1>1, <1>2, <1>3 DEF TodoInv
  <2>3. RoomInv'
    BY <1>1, <1>2, <1>3 DEF RoomInv
  <2> QED
    BY <2>1, <2>2, <2>3
<1>9. RawInv'
  BY <1>1, <1>2, <1>3, <1>4, <1>5 DEF RawInv
<1>10. RunInv' /\ SizeInv'
  BY <1>1, <1>2 DEF RunInv, SizeInv, Windows
<1>11. PlacedInv'
  BY <1>1, <1>2, <1>7 DEF PlacedInv
<1>12. CleanInv'
  <2> SUFFICES ASSUME clean PROVE CleanInv'
    BY <1>1 DEF CleanInv
  <2>1. \A q \in table' : Intact(q)' \/ (at' \in {"move", "delete"} /\ q = hand')
    BY <1>1, <1>2, <1>3, <1>7 DEF CleanInv
  <2>2. before' = before
    BY <1>5
  <2> QED
    BY <1>1, <1>2, <1>3, <2>1, <2>2 DEF CleanInv
<1>13. BystandersIntact'
  <2>1. ASSUME NEW q \in table, q.id \notin {c.id : c \in Confirmed}
        PROVE  q \in table' /\ q.len >= q.len /\ (Intact(q) => Intact(q)')
    <3>1. q # hand /\ q.len \in Nat
      BY <1>2, <1>7, <2>1, Basics, PartitionFields
    <3> QED
      BY <1>1, <1>7, <3>1
  <2>2. table' \subseteq Partitions
    BY <1>1, <1>2, Basics
  <2> QED
    BY <1>1, <1>2, <2>1, <2>2, BystandersKept
<1> QED
  BY <1>8, <1>9, <1>10, <1>11, <1>12, <1>13 DEF ExpandIInv

\* Where the move in hand puts the partition, there is nothing else.
LEMMA RecreatedFacts ==
  ASSUME ExpandIInv, at \in {"move", "delete", "create"}
  PROVE  /\ hand \in todo /\ hand \in Partitions /\ Kind[hand.id] # "target"
         /\ hand.id \in {c.id : c \in Confirmed}
         /\ Recreated \in Partitions /\ Recreated.id = hand.id /\ Recreated.len = hand.len
         /\ Recreated.off = hand.off + shift /\ shift \in Nat /\ shift > 0
         /\ End(Recreated) <= disk_size_bytes
         /\ \A q \in table \ {hand} : /\ q.id # hand.id
                                      /\ End(q) <= Recreated.off \/ End(Recreated) <= q.off
<1>1. TypeInv /\ TableInv /\ TodoInv /\ RoomInv
  BY DEF ExpandIInv
<1>2. /\ hand \in todo /\ hand \in Partitions /\ Kind[hand.id] # "target"
      /\ shift \in Nat /\ shift > 0 /\ table \subseteq Partitions
  BY <1>1, Basics DEF TodoInv, Moving, TypeInv
<1>3. hand.id \in {c.id : c \in Confirmed}
  BY <1>1, <1>2 DEF TodoInv
<1>4. /\ Recreated \in Partitions /\ Recreated.id = hand.id /\ Recreated.len = hand.len
      /\ Recreated.off = hand.off + shift
  BY <1>2, ShiftedFacts DEF Recreated
<1>5. /\ hand.off \in Nat /\ hand.len \in Nat /\ End(hand) = hand.off + hand.len
      /\ End(Recreated) = hand.off + shift + hand.len
  BY <1>2, <1>4, PartitionFields
<1>6. End(Recreated) <= disk_size_bytes
  BY <1>1, <1>2, <1>5 DEF RoomInv
<1>7. ASSUME NEW q \in table \ {hand}
      PROVE  q.id # hand.id /\ (End(q) <= Recreated.off \/ End(Recreated) <= q.off)
  <2>1. q \in Known /\ hand \in Known /\ Known \subseteq Partitions /\ Sound(Known)
    BY <1>1, <1>2 DEF Known, TypeInv, TableInv
  <2>2. q.id # hand.id
    BY <1>1, <2>1 DEF TableInv
  <2>3. (q.off < hand.off => End(q) <= hand.off) /\ q.off # hand.off
    BY <2>1, SoundFacts
  <2>4. q.off > hand.off => End(hand) + shift <= q.off
    BY <1>1 DEF RoomInv
  <2>5. q.off \in Nat /\ End(q) \in Nat
    BY <1>2, PartitionFields
  <2> QED
    BY <1>2, <1>4, <1>5, <2>2, <2>3, <2>4, <2>5
<1> QED
  BY <1>2, <1>3, <1>4, <1>6, <1>7

\* A move that is done has put the data of the partition in hand where the
\* new entry will be.
LEMMA MoveDoneKeeps ==
  ASSUME ExpandIInv, MoveDone
  PROVE  ExpandIInv'
<1>1. /\ at = "move" /\ pc = "done" /\ at' = "delete" /\ placed' = placed \union {Recreated}
      /\ disk' = disk /\ MoveIdle
      /\ UNCHANGED <<request, config, table, need, todo, shift, shrunk, runs, clean, origin>>
  BY DEF MoveDone, planVars
<1>2. /\ TypeInv /\ RawInv /\ TableInv /\ ConfigInv /\ TodoInv /\ RoomInv /\ RunInv
      /\ CleanInv /\ PlacedInv /\ BystandersIntact /\ IInv
  BY DEF ExpandIInv, RawInv
<1>3. hand' = hand /\ Known' = Known /\ Recreated' = Recreated /\ Confirmed' = Confirmed
  BY <1>1 DEF hand, Known, Recreated, Confirmed
<1>4. RawInv'
  <2>1. disk' \in [Addresses -> Content]
    BY <1>1, <1>2 DEF IInv, TypeOK
  <2> QED
    BY <1>1, <1>2, <2>1, RawIdle
<1>5. \A p : Intact(p)' <=> Intact(p)
  BY <1>1 DEF Intact
<1>6. /\ hand \in todo /\ hand \in Partitions /\ Recreated \in Partitions /\ shift \in Nat
      /\ Recreated.id = hand.id /\ Recreated.len = hand.len /\ Recreated.off = hand.off + shift
      /\ shift > 0
  BY <1>1, RecreatedFacts
<1>7. TypeInv' /\ TableInv' /\ ConfigInv'
  BY <1>1, <1>2, <1>3, <1>6 DEF TypeInv, TableInv, ConfigInv, Stages, Moving
<1>8. TodoInv'
  BY <1>1, <1>2, <1>3 DEF TodoInv, Moving, Windows
<1>9. RoomInv'
  BY <1>1, <1>2, <1>3 DEF RoomInv
<1>10. RunInv' /\ SizeInv'
  BY <1>1, <1>2 DEF RunInv, SizeInv, Windows
<1>11. clean => Intact(Recreated)
  <2> SUFFICES ASSUME clean PROVE Intact(Recreated)
    OBVIOUS
  <2>1. /\ hand.len >= need[hand.id] /\ need[hand.id] \in Nat /\ hand.len \in Nat
        /\ \A i \in 0 .. (need[hand.id] - 1) : before[hand.off + i] = <<hand.id, i>>
    BY <1>1, <1>2, <1>6, PartitionFields DEF CleanInv, TypeInv
  <2>2. \A i \in 0 .. (hand.len - 1) : disk[hand.off + shift + i] = before[hand.off + i]
    <3>1. /\ move.direction = "right" /\ move.src = hand.off /\ move.len = hand.len
          /\ move.delta = shift
      BY <1>1, <1>2 DEF RawInv, Right
    <3>2. PassedArrived /\ Left(move, pos) = 0
      BY <1>1, <1>2 DEF IInv, Copying
    <3>3. pos = 0
      BY <3>1, <3>2 DEF Left
    <3>4. \A i \in 0 .. (hand.len - 1) : i \in Offsets /\ Passed(i)
      BY <3>1, <3>3 DEF Offsets, Passed
    <3> QED
      BY <3>1, <3>2, <3>4 DEF PassedArrived, Arrived, Destination
  <2>3. \A i \in 0 .. (need[hand.id] - 1) : disk[hand.off + shift + i] = <<hand.id, i>>
    <3>1. \A i \in 0 .. (need[hand.id] - 1) : i \in 0 .. (hand.len - 1)
      BY <2>1
    <3> QED
      BY <2>1, <2>2, <3>1
  <2> QED
    BY <1>6, <2>1, <2>3 DEF Intact
<1>12. PlacedInv'
  <2> SUFFICES ASSUME clean, NEW q \in placed'
               PROVE  Intact(q) /\ End(Target(table)) <= q.off
    BY <1>1, <1>5 DEF PlacedInv
  <2>1. CASE q \in placed
    BY <1>2, <2>1 DEF PlacedInv
  <2>2. CASE q = Recreated
    <3>1. End(Target(table)) <= hand.off /\ hand.off \in Nat /\ End(Target(table)) \in Nat
      BY <1>2, <1>6, Basics, PartitionFields DEF TodoInv
    <3> QED
      BY <1>6, <1>11, <2>2, <3>1
  <2> QED
    BY <1>1, <2>1, <2>2
<1>13. CleanInv'
  <2> SUFFICES ASSUME clean PROVE CleanInv'
    BY <1>1 DEF CleanInv
  <2>1. \A p \in todo : p.off < Recreated.off
    <3>1. \A p \in todo : p.off <= hand.off /\ p.off \in Nat /\ hand.off \in Nat
      BY <1>2, <1>6, Basics, PartitionFields
    <3> QED
      BY <1>6, <3>1
  <2> QED
    BY <1>1, <1>2, <1>3, <1>5, <2>1 DEF CleanInv
<1>14. BystandersIntact'
  BY <1>1, <1>2, <1>3, <1>5 DEF BystandersIntact
<1> QED
  BY <1>4, <1>7, <1>8, <1>9, <1>10, <1>12, <1>13, <1>14 DEF ExpandIInv

\* A failed copy ends the task and leaves the table alone: the partition that was
\* being copied is a confirmed one, and every other one is whole.
LEMMA MoveFailedKeeps ==
  ASSUME ExpandIInv, MoveFailed
  PROVE  ExpandIInv'
<1>1. /\ at = "move" /\ at' = "failed" /\ todo' = {} /\ shift' = 0 /\ shrunk' = None
      /\ disk' = disk /\ MoveIdle
      /\ UNCHANGED <<request, config, table, need, runs, clean, origin, placed>>
  BY DEF MoveFailed, Failed, planVars
<1>2. RawInv'
  <2>1. IInv /\ disk' \in [Addresses -> Content]
    BY <1>1 DEF ExpandIInv, RawInv, IInv, TypeOK
  <2> QED
    BY <1>1, <2>1, RawIdle
<1> QED
  BY <1>1, <1>2, StopsQuietly DEF Windows

\* Power is lost anywhere; a write under way may be half done.
LEMMA PowerLostKeeps ==
  ASSUME ExpandIInv, PowerLost
  PROVE  ExpandIInv'
<1>1. /\ at \notin Windows /\ at' = "off" /\ todo' = {} /\ shift' = 0 /\ shrunk' = None
      /\ MoveIdle /\ UNCHANGED <<request, config, table, need, runs, clean, origin, placed>>
  BY DEF PowerLost, planVars, Windows
<1>2. IInv /\ TypeInv /\ TableInv /\ TodoInv /\ PlacedInv /\ BystandersIntact /\ TableOK(table)
  BY TableIsOK DEF ExpandIInv, RawInv
<1>3. CASE UNCHANGED disk
  <2>1. RawInv'
    <3>1. disk' \in [Addresses -> Content]
      BY <1>2, <1>3 DEF IInv, TypeOK
    <3> QED
      BY <1>1, <1>2, <3>1, RawIdle
  <2> QED
    BY <1>1, <1>3, <2>1, StopsQuietly
<1>4. ASSUME at = "move", pc = "write", NEW S \in SUBSET ChunkOf(move, pos),
             disk' = Written(disk, move, buffer, S)
      PROVE  ExpandIInv'
  <2>1. /\ disk' \in [Addresses -> Content]
        /\ \A q \in table \ {hand} : \A i \in 0 .. (q.len - 1) : disk'[q.off + i] = disk[q.off + i]
    BY <1>4, WriteSafe
  <2>2. RawInv'
    BY <1>1, <1>2, <2>1, RawIdle
  <2>3. /\ \A q \in table \ {hand} : Intact(q) => Intact(q)'
        /\ hand.id \in {c.id : c \in Confirmed}
        /\ clean => \A q \in placed : Intact(q) => Intact(q)'
    BY <1>1, <1>4, <2>1, MoveWritesKeep
  <2>4. PlacedInv'
    BY <1>1, <1>2, <2>3 DEF PlacedInv
  <2>5. BystandersIntact'
    <3>1. ASSUME NEW q \in table, q.id \notin {c.id : c \in Confirmed}
          PROVE  q \in table' /\ q.len >= q.len /\ (Intact(q) => Intact(q)')
      <4>1. q # hand /\ q.len \in Nat
        BY <1>2, <2>3, <3>1, Basics, PartitionFields
      <4> QED
        BY <1>1, <2>3, <4>1
    <3>2. table' \subseteq Partitions
      BY <1>1, <1>2, Basics
    <3> QED
      BY <1>1, <1>2, <3>1, <3>2, BystandersKept
  <2>6. TableOK(table') /\ need' \in [Ids -> Nat]
    BY <1>1, <1>2 DEF TypeInv
  <2> QED
    BY <1>1, <2>2, <2>4, <2>5, <2>6, FailKeeps
<1> QED
  BY <1>3, <1>4 DEF PowerLost

\* The old entry is gone: the partition in hand is known to the task only.
LEMMA DeletedKeeps ==
  ASSUME ExpandIInv, at = "delete", at' = "create", table' = table \ {hand},
         UNCHANGED <<vars, request, config, need, todo, shift, shrunk,
                     runs, clean, origin, placed>>
  PROVE  ExpandIInv'
<1>1. /\ TypeInv /\ RawInv /\ TableInv /\ ConfigInv /\ TodoInv /\ RoomInv /\ RunInv
      /\ CleanInv /\ PlacedInv /\ BystandersIntact /\ TableOK(table)
  BY TableIsOK DEF ExpandIInv
<1>2. /\ hand \in todo /\ hand \in Partitions /\ Kind[hand.id] # "target"
      /\ hand.id \in {c.id : c \in Confirmed}
  BY RecreatedFacts
<1>3. /\ hand' = hand /\ Known' = Known /\ Recreated' = Recreated /\ Confirmed' = Confirmed
  BY <1>2 DEF hand, Known, Recreated, Confirmed
<1>4. TableOK(table') /\ Target(table') = Target(table)
  BY <1>1, <1>2, RemoveOK
<1>5. RawInv' /\ disk' = disk /\ \A p : Intact(p)' <=> Intact(p)
  BY <1>1, RawQuiet DEF vars, Intact
<1>6. TypeInv' /\ TableInv' /\ ConfigInv'
  BY <1>1, <1>3, <1>4 DEF TypeInv, TableInv, ConfigInv, TableOK, Stages, Moving
<1>7. TodoInv'
  BY <1>1, <1>2, <1>3, <1>4 DEF TodoInv, Moving, Windows
<1>8. RoomInv'
  BY <1>1, <1>3 DEF RoomInv
<1>9. RunInv' /\ SizeInv'
  BY <1>1 DEF RunInv, SizeInv, Windows
<1>10. PlacedInv'
  BY <1>1, <1>4, <1>5 DEF PlacedInv
<1>11. CleanInv'
  <2> SUFFICES ASSUME clean PROVE CleanInv'
    BY DEF CleanInv
  <2>1. hand \notin placed
    <3>1. hand \in placed => hand.off < hand.off
      BY <1>1, <1>2 DEF CleanInv
    <3> QED
      BY <1>2, <3>1, PartitionFields
  <2> QED
    BY <1>1, <1>3, <1>5, <2>1 DEF CleanInv
<1>12. BystandersIntact'
  <2>1. ASSUME NEW q \in table, q.id \notin {c.id : c \in Confirmed}
        PROVE  q \in table' /\ q.len >= q.len
    BY <1>1, <1>2, <2>1, Basics, PartitionFields
  <2>2. table' \subseteq Partitions
    BY <1>4 DEF TableOK
  <2> QED
    BY <1>1, <1>5, <2>1, <2>2, BystandersKept
<1> QED
  BY <1>5, <1>6, <1>7, <1>8, <1>9, <1>10, <1>11, <1>12 DEF ExpandIInv

\* Deleting the entry of a moved partition, whether it succeeds or not, keeps the
\* invariant.
LEMMA DeleteKeeps ==
  ASSUME ExpandIInv, delete_partition_checked
  PROVE  ExpandIInv'
<1>1. /\ at = "delete" /\ at \notin Windows
      /\ UNCHANGED <<vars, request, config, need, runs, clean, origin, placed>>
  BY DEF delete_partition_checked, planVars, Windows
<1>2. CASE table' = table \ {hand} /\ at' = "create" /\ UNCHANGED <<todo, shift, shrunk>>
  BY <1>1, <1>2, DeletedKeeps
<1>3. CASE table' \in {table, table \ {hand}} /\ Failed
  <2>1. at' = "failed" /\ todo' = {} /\ shift' = 0 /\ shrunk' = None
    BY <1>3 DEF Failed
  <2>2. TypeInv /\ RawInv /\ TableOK(table) /\ need' \in [Ids -> Nat]
    BY <1>1, TableIsOK DEF ExpandIInv, TypeInv
  <2>3. RawInv' /\ disk' = disk
    BY <1>1, <2>1, <2>2, RawQuiet DEF vars
  <2>4. Kind[hand.id] # "target" /\ hand.id \in {c.id : c \in Confirmed}
    BY <1>1, RecreatedFacts
  <2>5. TableOK(table') /\ Target(table') = Target(table)
    BY <1>3, <2>2, <2>4, RemoveOK
  <2> QED
    BY <1>1, <1>3, <2>1, <2>2, <2>3, <2>4, <2>5, StopsHarmless
<1> QED
  BY <1>2, <1>3 DEF delete_partition_checked

\* The partition in hand has its entry again; the next one is taken in hand.
LEMMA CreateKeeps ==
  ASSUME ExpandIInv, create_partition_checked
  PROVE  ExpandIInv'
<1>1. /\ at = "create" /\ table' = table \union {Recreated} /\ todo' = todo \ {hand}
      /\ at' = IF todo' = {} THEN "extend" ELSE "lock"
      /\ UNCHANGED <<vars, request, config, need, shift, shrunk, runs, clean, origin, placed>>
  BY DEF create_partition_checked, NextMove, planVars
<1>2. /\ TypeInv /\ RawInv /\ TableInv /\ ConfigInv /\ TodoInv /\ RoomInv /\ RunInv
      /\ CleanInv /\ PlacedInv /\ BystandersIntact /\ TableOK(table)
  BY TableIsOK DEF ExpandIInv
<1>3. /\ hand \in todo /\ hand \in Partitions /\ Kind[hand.id] # "target"
      /\ Recreated \in Partitions /\ Recreated.id = hand.id /\ Recreated.len = hand.len
      /\ Recreated.off = hand.off + shift /\ shift \in Nat /\ shift > 0
      /\ End(Recreated) <= disk_size_bytes
      /\ \A q \in table \ {hand} : /\ q.id # hand.id
                                   /\ End(q) <= Recreated.off \/ End(Recreated) <= q.off
  BY <1>1, RecreatedFacts
<1>4. hand \notin table /\ todo' \subseteq table /\ todo \ {hand} = todo'
  BY <1>1, <1>2 DEF TodoInv
<1>5. TableOK(table') /\ Target(table') = Target(table)
  BY <1>1, <1>2, <1>3, <1>4, AddOK
<1>6. Known' = table' /\ at' \in {"extend", "lock"} /\ todo' \subseteq Partitions
  BY <1>1, <1>4, <1>5 DEF Known, TableOK
<1>7. RawInv' /\ disk' = disk /\ Confirmed' = Confirmed /\ \A p : Intact(p)' <=> Intact(p)
  BY <1>1, <1>2, <1>6, RawQuiet DEF vars, Confirmed, Intact
<1>8. ASSUME todo' # {}
      PROVE  /\ hand' \in todo' /\ (\A q \in todo' : q.off <= hand'.off)
             /\ hand' \in table /\ End(hand') <= hand.off /\ hand'.off < hand.off
  <2>1. \A q \in todo' : End(q) <= disk_size_bytes
    BY <1>4, <1>5, <1>1, SoundFacts DEF TableOK
  <2>2. hand' \in todo' /\ \A q \in todo' : q.off <= hand'.off
    BY <1>6, <1>8, <2>1, RearmostFacts DEF hand
  <2>3. hand' \in todo /\ hand' # hand
    BY <1>1, <2>2
  <2>4. hand'.off < hand.off
    BY <1>2, <2>3, Basics
  <2>5. End(hand') <= hand.off
    <3>1. hand' \in Known /\ hand \in Known /\ Known \subseteq Partitions /\ Sound(Known)
      BY <1>2, <1>3, <2>3 DEF Known, TypeInv, TableInv
    <3> QED
      BY <2>4, <3>1, SoundFacts
  <2> QED
    BY <1>4, <2>2, <2>4, <2>5
<1>9. TypeInv' /\ TableInv' /\ ConfigInv'
  BY <1>1, <1>2, <1>5, <1>6 DEF TypeInv, TableInv, ConfigInv, TableOK, Stages, Moving
<1>10. \A p \in todo' : /\ Kind[p.id] \in {"data", "recovery"} /\ End(Target(table)) <= p.off
                        /\ p \in Confirmed /\ (shrunk # None => p.id # shrunk.id)
  BY <1>1, <1>2 DEF TodoInv
<1>11. TodoInv'
  <2>1. todo # {} /\ shift > 0 /\ shift = request.target - request.no_move
    BY <1>2, <1>3 DEF TodoInv
  <2> QED
    BY <1>1, <1>4, <1>5, <1>6, <1>7, <1>10, <2>1 DEF TodoInv, Moving, Windows
<1>12. \A q \in table : q \in todo' \/ q \in table \ todo
  BY <1>4
<1>13. /\ hand.off \in Nat /\ hand.len \in Nat /\ End(hand) = hand.off + hand.len
       /\ \A q \in table : q.off \in Nat
       /\ End(Recreated) = hand.off + shift + hand.len
  BY <1>2, <1>3, PartitionFields DEF TableOK
<1>14. RoomInv'
  <2>1. ASSUME NEW p \in todo', NEW r \in table' \ todo'
        PROVE  r.off < p.off \/ r.off > hand'.off
    <3>0. hand'.off < hand.off /\ hand'.off \in Nat
      BY <1>8, <1>13
    <3>1. CASE r = Recreated
      BY <1>3, <1>13, <3>0, <3>1
    <3>2. CASE r \in table \ todo
      <4>1. r.off < p.off \/ r.off > hand.off
        BY <1>1, <1>2, <3>2 DEF RoomInv
      <4> QED
        BY <1>13, <3>0, <3>2, <4>1
    <3> QED
      BY <1>1, <1>12, <3>1, <3>2
  <2>2. ASSUME at' = "lock"
        PROVE  /\ End(hand') + shift <= disk_size_bytes
               /\ \A q \in table' : q.off > hand'.off => End(hand') + shift <= q.off
    <3>1. /\ hand' \in todo' /\ (\A q \in todo' : q.off <= hand'.off)
          /\ End(hand') <= hand.off /\ hand'.off < hand.off
          /\ hand'.off \in Nat /\ End(hand') \in Nat
      <4>1. todo' # {}
        BY <1>1, <2>2
      <4>2. hand' \in Partitions
        BY <1>6, <1>8, <4>1
      <4> QED
        BY <1>8, <4>1, <4>2, PartitionFields
    <3>2. End(hand') + shift <= disk_size_bytes
      BY <1>3, <1>13, <3>1, DiskAssumption
    <3>3. ASSUME NEW q \in table', q.off > hand'.off PROVE End(hand') + shift <= q.off
      <4>1. CASE q = Recreated
        BY <1>3, <1>13, <3>1, <4>1
      <4>2. CASE q \in todo'
        BY <1>4, <1>13, <3>1, <3>3, <4>2
      <4>3. CASE q \in table \ todo
        <5>1. q.off > hand.off
          BY <1>2, <1>1, <1>13, <3>1, <3>3, <4>3 DEF RoomInv
        <5>2. End(hand) + shift <= q.off
          BY <1>1, <1>2, <4>3, <5>1 DEF RoomInv
        <5> QED
          BY <1>3, <1>13, <3>1, <4>3, <5>2
      <4> QED
        BY <1>1, <1>12, <4>1, <4>2, <4>3
    <3> QED
      BY <3>2, <3>3
  <2>3. ASSUME at' = "lock", shrunk' # None PROVE hand'.id # shrunk'.id
    <3>1. todo' # {}
      BY <1>1, <2>3
    <3> QED
      BY <1>1, <1>8, <1>10, <2>3, <3>1
  <2> QED
    BY <1>1, <1>6, <2>1, <2>2, <2>3 DEF RoomInv
<1>15. RunInv' /\ SizeInv'
  BY <1>1, <1>2, <1>6 DEF RunInv, SizeInv, Windows
<1>16. PlacedInv'
  BY <1>1, <1>2, <1>5, <1>7 DEF PlacedInv
<1>17. CleanInv'
  <2> SUFFICES ASSUME clean PROVE CleanInv'
    BY <1>1 DEF CleanInv
  <2>1. ASSUME NEW p \in origin' PROVE \E q \in Known' : q.id = p.id
    <3>1. PICK q \in Known : q.id = p.id
      BY <1>1, <1>2 DEF CleanInv
    <3>2. q \in table \/ q = hand
      BY <1>4, <3>1 DEF Known
    <3> QED
      BY <1>1, <1>3, <1>6, <3>1, <3>2
  <2>2. Recreated \in placed /\ placed \subseteq table \union {Recreated}
        /\ \A q \in table : Intact(q)
    BY <1>1, <1>2 DEF CleanInv
  <2>3. Intact(Recreated)
    BY <1>2, <2>2 DEF PlacedInv
  <2>4. \A q \in placed', p \in todo' : p.off < q.off
    BY <1>1, <1>2 DEF CleanInv
  <2>5. \A q \in table' : Intact(q)'
    BY <1>1, <1>7, <2>2, <2>3
  <2> QED
    BY <1>1, <1>6, <2>1, <2>2, <2>4, <2>5 DEF CleanInv
<1>18. BystandersIntact'
  <2>1. \A q \in table : q \in table' /\ q.len >= q.len
    BY <1>1, <1>2, PartitionFields DEF TableOK
  <2>2. table' \subseteq Partitions
    BY <1>5 DEF TableOK
  <2> QED
    BY <1>1, <1>2, <1>7, <2>1, <2>2, BystandersKept
<1> QED
  BY <1>7, <1>9, <1>11, <1>14, <1>15, <1>16, <1>17, <1>18 DEF ExpandIInv

\* An entry with another geometry may be left behind; it overlaps nothing.
LEMMA RejectKeeps ==
  ASSUME ExpandIInv, reject_and_cleanup_mismatched_recreate
  PROVE  ExpandIInv'
<1>1. /\ at = "create" /\ at' = "failed" /\ todo' = {} /\ shift' = 0 /\ shrunk' = None
      /\ UNCHANGED <<vars, request, config, need, runs, clean, origin, placed>>
      /\ at \notin Windows
  BY DEF reject_and_cleanup_mismatched_recreate, Failed, planVars, Windows
<1>2. RawInv' /\ disk' = disk
  BY <1>1, RawQuiet DEF ExpandIInv, vars
<1>3. CASE UNCHANGED table
  BY <1>1, <1>2, <1>3, StopsQuietly
<1>4. ASSUME NEW q \in {Recreated} \union Adjusted, table' = table \union {q}
      PROVE  ExpandIInv'
  <2>1. TypeInv /\ TodoInv /\ TableOK(table) /\ need' \in [Ids -> Nat]
    BY <1>1, TableIsOK DEF ExpandIInv, TypeInv
  <2>2. /\ Kind[hand.id] # "target" /\ hand \notin table
        /\ Recreated \in Partitions /\ Recreated.id = hand.id /\ End(Recreated) <= disk_size_bytes
        /\ \A r \in table \ {hand} : /\ r.id # hand.id
                                     /\ End(r) <= Recreated.off \/ End(Recreated) <= r.off
    BY <1>1, <2>1, RecreatedFacts DEF TodoInv
  <2>3. /\ q \in Partitions /\ q.id = Recreated.id /\ q.off = Recreated.off
        /\ End(q) <= End(Recreated)
    <3>1. CASE q = Recreated
      BY <2>2, <3>1, PartitionFields
    <3>2. CASE q = Shortened(Recreated, 1) /\ q.len > 0
      <4>1. /\ q.id = Recreated.id /\ q.off = Recreated.off /\ q.len = Recreated.len - 1
            /\ Recreated.len \in Nat /\ (1 < Recreated.len => q \in Partitions)
        <5> DEFINE p == Recreated
        <5>1. p \in Partitions
          BY <2>2
        <5> HIDE DEF p
        <5>2. /\ Shortened(p, 1).id = p.id /\ Shortened(p, 1).off = p.off
              /\ Shortened(p, 1).len = p.len - 1
              /\ 1 < p.len => Shortened(p, 1) \in Partitions
          BY <5>1, ShortenedFacts
        <5>3. p.len \in Nat
          BY <5>1, PartitionFields
        <5> QED
          BY <3>2, <5>2, <5>3 DEF p
      <4>2. q \in Partitions
        BY <3>2, <4>1
      <4> QED
        BY <2>2, <4>1, <4>2, PartitionFields
    <3> QED
      BY <1>4, <3>1, <3>2 DEF Adjusted
  <2>4. End(q) \in Nat /\ End(Recreated) \in Nat /\ \A r \in table : r.off \in Nat
    BY <2>1, <2>2, <2>3, PartitionFields DEF TableOK
  <2>5. End(q) <= disk_size_bytes
    BY <2>2, <2>3, <2>4, DiskAssumption
  <2>6. \A r \in table : r.id # q.id /\ (End(r) <= q.off \/ End(q) <= r.off)
    BY <2>2, <2>3, <2>4
  <2>7. TableOK(table') /\ Target(table') = Target(table)
    BY <1>4, <2>1, <2>2, <2>3, <2>5, <2>6, AddOK
  <2> QED
    BY <1>1, <1>2, <1>4, <2>1, <2>7, StopsHarmless
<1> QED
  BY <1>3, <1>4 DEF reject_and_cleanup_mismatched_recreate

-----------------------------------------------------------------------------
(***************************************************************************)
(* WinPE: extending the target.                                            *)
(***************************************************************************)

\* The target grows into free space only.
LEMMA ExtendFacts ==
  ASSUME ExpandIInv, NEW by \in Nat, by <= adj_unalloc(table)
  PROVE  LET T == Target(table)
             X == [T EXCEPT !.len = @ + by]
         IN  /\ T \in table /\ T \in Partitions /\ X \in Partitions
             /\ X.id = T.id /\ X.off = T.off /\ X.len = T.len + by
             /\ TableOK((table \ {T}) \union {X}) /\ Target((table \ {T}) \union {X}) = X
             /\ End(X) = End(T) + by
<1> DEFINE T == Target(table)
           X == [T EXCEPT !.len = @ + by]
           t == (table \ {T}) \union {X}
<1>1. TableOK(table)
  BY TableIsOK
<1>2. /\ T \in table /\ T \in Partitions /\ table \subseteq Partitions /\ Sound(table)
      /\ \A q \in table : Kind[q.id] = "target" <=> q = T
      /\ \A p, q \in table : p.id = q.id => p = q
  BY <1>1, TargetFacts DEF TableOK
<1>3. /\ End(T) + adj_unalloc(table) <= disk_size_bytes /\ adj_unalloc(table) \in Int
      /\ \A p \in table : p.off >= End(T) => End(T) + adj_unalloc(table) <= p.off
  BY <1>1, AdjFacts DEF following
<1> HIDE DEF T
<1>4. X \in Partitions /\ X.id = T.id /\ X.off = T.off /\ X.len = T.len + by
  BY <1>2, LengthenedFacts
<1> HIDE DEF X
<1>5. /\ T.off \in Nat /\ T.len \in Nat /\ End(T) = T.off + T.len /\ End(X) = X.off + X.len
      /\ \A r \in table : r.off \in Nat /\ End(r) \in Nat
  BY <1>2, <1>4, PartitionFields
<1>6. End(X) = End(T) + by /\ End(X) <= disk_size_bytes
  BY <1>3, <1>4, <1>5, DiskAssumption
<1>7. ASSUME NEW r \in table \ {T} PROVE End(r) <= X.off \/ End(X) <= r.off
  <2>1. End(r) <= T.off \/ End(T) <= r.off
    BY <1>2, SoundFacts
  <2>2. End(T) <= r.off => End(T) + adj_unalloc(table) <= r.off
    BY <1>3, <1>5
  <2> QED
    BY <1>3, <1>4, <1>5, <1>6, <2>1, <2>2
<1>8. Sound(t)
  <2>1. Sound(table \ {T})
    BY <1>2, SoundPart
  <2> QED
    BY <1>6, <1>7, <2>1, SoundAdd
<1>9. \A q \in t : Kind[q.id] = "target" <=> q = X
  <2>1. Kind[X.id] = "target"
    BY <1>2, <1>4
  <2>2. \A q \in table \ {T} : Kind[q.id] # "target"
    BY <1>2
  <2> QED
    BY <2>1, <2>2
<1>10. TableOK(t)
  BY <1>2, <1>4, <1>8, <1>9 DEF TableOK
<1>11. Target(t) = X
  <2> HIDE DEF t
  <2>1. X \in t
    BY DEF t
  <2> QED
    BY <1>9, <2>1, TargetIs
<1> QED
  BY <1>2, <1>4, <1>6, <1>10, <1>11 DEF T, X

\* The extension: the table stays sound, what was put down behind the target
\* stays behind it, and the target reaches the confirmed size.
LEMMA ExtensionSafe ==
  ASSUME ExpandIInv, at = "extend", NEW current_mb \in get_partition_size_mb(Target(table)),
         bytes_to_add(current_mb) # 0, table' = Extended(bytes_to_add(current_mb)),
         UNCHANGED <<vars, request, config, need, runs, clean, origin, placed>>
  PROVE  /\ TableOK(table') /\ BystandersIntact' /\ PlacedInv'
         /\ Target(table').len >= config.target
         /\ \A q \in table : \E r \in table' : r.id = q.id
         /\ clean => (\A q \in table' : Intact(q)') /\ placed \subseteq table'
<1> DEFINE T == Target(table)
           by == bytes_to_add(current_mb)
           X == [T EXCEPT !.len = @ + by]
<1>1. /\ TypeInv /\ CleanInv /\ PlacedInv /\ BystandersIntact /\ TableOK(table)
      /\ config.target \in Nat
  BY TableIsOK DEF ExpandIInv, TypeInv
<1>2. T \in Partitions /\ adj_unalloc(table) \in Int /\ adj_unalloc(table) >= 0
  BY <1>1, AdjFacts
<1>3. T.len \in Nat /\ current_mb \in {T.len - 1, T.len} /\ End(T) \in Nat
  BY <1>2, PartitionFields DEF get_partition_size_mb
<1>4. /\ by \in Nat /\ by <= adj_unalloc(table)
      /\ config.target <= current_mb \/ by = config.target - current_mb
  <2> HIDE DEF T
  <2> QED
    BY <1>1, <1>2, <1>3 DEF bytes_to_add
<1> HIDE DEF by
<1>5. /\ T \in table /\ X \in Partitions
      /\ X.id = T.id /\ X.off = T.off /\ X.len = T.len + by
      /\ TableOK((table \ {T}) \union {X}) /\ Target((table \ {T}) \union {X}) = X
      /\ End(X) = End(T) + by
  BY <1>4, ExtendFacts
<1>6. table' = (table \ {T}) \union {X}
  BY DEF Extended, Replaced, by
<1> HIDE DEF T, X
<1>7. TableOK(table') /\ Target(table') = X
  BY <1>5, <1>6
<1>8. disk' = disk /\ need' = need /\ \A p : Intact(p)' <=> Intact(p)
  BY DEF vars, Intact
<1>9. Intact(T) => Intact(X)
  <2>1. need[T.id] \in Nat
    BY <1>1, <1>2, PartitionFields DEF TypeInv
  <2>2. T.len >= need[T.id] => X.len >= need[X.id]
    BY <1>3, <1>4, <1>5, <2>1
  <2> QED
    BY <1>5, <2>2 DEF Intact
<1>10. Target(table').len >= config.target
  BY <1>1, <1>3, <1>4, <1>5, <1>7
<1>11. \A q \in table : \E r \in table' : r.id = q.id
  BY <1>5, <1>6
<1>12. ASSUME NEW q \in table
       PROVE  \E r \in table' : /\ r.id = q.id /\ r.off = q.off /\ r.len >= q.len
                                /\ Kind[q.id] # "target" => r = q
                                /\ Intact(q) => Intact(r)'
  <2>1. CASE q = T
    <3>1. Kind[T.id] = "target"
      BY <1>1, TargetFacts DEF TableOK, T
    <3>2. X \in table' /\ X.len >= T.len
      BY <1>3, <1>4, <1>5, <1>6
    <3> QED
      BY <1>5, <1>8, <1>9, <2>1, <3>1, <3>2
  <2>2. CASE q # T
    <3>1. q \in table' /\ q.len >= q.len
      BY <1>1, <1>6, <2>2, PartitionFields DEF TableOK
    <3> QED
      BY <1>8, <3>1
  <2> QED
    BY <2>1, <2>2
<1>13. BystandersIntact'
  <2>1. table' \subseteq Partitions
    BY <1>7 DEF TableOK
  <2> QED
    BY <1>1, <1>12, <2>1, BystandersKept
<1>14. ASSUME clean, NEW q \in placed
       PROVE  q \in table' /\ Intact(q) /\ End(X) <= q.off
  <2>1. q \in table /\ Intact(q) /\ End(T) <= q.off /\ q \in Partitions
    BY <1>1, <1>14 DEF CleanInv, PlacedInv, TableOK, T
  <2>2. q.off \in Nat /\ q # T
    <3>1. q.off \in Nat /\ T.off \in Nat /\ T.len > 0 /\ End(T) = T.off + T.len
      BY <1>2, <2>1, PartitionFields
    <3> QED
      BY <1>3, <2>1, <3>1
  <2>3. End(T) + adj_unalloc(table) <= q.off
    <3>1. q \in following(table)
      BY <1>3, <2>1, <2>2 DEF following, T
    <3> QED
      BY <1>1, <3>1, AdjFacts DEF T
  <2> QED
    BY <1>2, <1>3, <1>4, <1>5, <1>6, <2>1, <2>2, <2>3
<1>15. PlacedInv'
  BY <1>7, <1>8, <1>14 DEF PlacedInv
<1>16. clean => \A q \in table' : Intact(q)'
  <2>1. clean => \A q \in table : Intact(q)
    BY <1>1 DEF CleanInv
  <2> QED
    BY <1>5, <1>6, <1>8, <1>9, <2>1
<1> QED
  BY <1>7, <1>10, <1>11, <1>13, <1>14, <1>15, <1>16

\* The extension of the target stays in the gap behind it and reaches the
\* confirmed size.
LEMMA ExtendKeeps ==
  ASSUME ExpandIInv, extend_volume_stable_checked
  PROVE  ExpandIInv'
<1>1. /\ at = "extend" /\ at' = "cleanup"
      /\ UNCHANGED <<vars, request, config, need, todo, shift, shrunk,
                     runs, clean, origin, placed>>
  BY DEF extend_volume_stable_checked, planVars
<1>2. PICK current_mb \in get_partition_size_mb(Target(table)) :
         bytes_to_add(current_mb) # 0 /\ table' = Extended(bytes_to_add(current_mb))
  BY DEF extend_volume_stable_checked
<1>3. /\ TypeInv /\ RawInv /\ ConfigInv /\ TodoInv /\ RunInv /\ CleanInv
  BY DEF ExpandIInv
<1>4. /\ TableOK(table') /\ BystandersIntact' /\ PlacedInv'
      /\ Target(table').len >= config.target
      /\ \A q \in table : \E r \in table' : r.id = q.id
      /\ clean => (\A q \in table' : Intact(q)') /\ placed \subseteq table'
  BY <1>1, <1>2, ExtensionSafe
<1>5. todo = {} /\ todo' = {} /\ Known = table /\ Known' = table'
  BY <1>1, <1>3 DEF TodoInv, Moving, Known
<1>6. RawInv'
  BY <1>1, <1>3, RawQuiet
<1>7. TypeInv' /\ TableInv' /\ ConfigInv'
  BY <1>1, <1>3, <1>4, <1>5 DEF TypeInv, TableInv, ConfigInv, TableOK, Stages
<1>8. TodoInv' /\ RoomInv'
  BY <1>1, <1>5 DEF TodoInv, RoomInv, Moving, Windows
<1>9. RunInv' /\ SizeInv'
  BY <1>1, <1>3, <1>4 DEF RunInv, SizeInv, Windows
<1>10. CleanInv'
  BY <1>1, <1>3, <1>4, <1>5 DEF CleanInv
<1> QED
  BY <1>4, <1>6, <1>7, <1>8, <1>9, <1>10 DEF ExpandIInv

\* An extension that reports an error has extended the target or not; the
\* invariant holds either way.
LEMMA ExtendErrorKeeps ==
  ASSUME ExpandIInv, ExtendFails
  PROVE  ExpandIInv'
<1>1. /\ at = "extend" /\ at' = "failed" /\ todo' = {} /\ shift' = 0 /\ shrunk' = None
      /\ UNCHANGED <<vars, request, config, need, runs, clean, origin, placed>>
      /\ at \notin Windows
  BY DEF ExtendFails, Failed, planVars, Windows
<1>2. RawInv' /\ disk' = disk /\ need' \in [Ids -> Nat]
  BY <1>1, RawQuiet DEF ExpandIInv, vars, TypeInv
<1>3. CASE UNCHANGED table
  BY <1>1, <1>2, <1>3, StopsQuietly
<1>4. ASSUME NEW current_mb \in get_partition_size_mb(Target(table)),
             bytes_to_add(current_mb) # 0, table' = Extended(bytes_to_add(current_mb))
      PROVE  ExpandIInv'
  <2>1. TableOK(table') /\ BystandersIntact' /\ PlacedInv'
    BY <1>1, <1>4, ExtensionSafe
  <2> QED
    BY <1>1, <1>2, <2>1, FailKeeps
<1> QED
  BY <1>3, <1>4 DEF ExtendFails

\* The end of the task.
LEMMA CleanupKeeps ==
  ASSUME ExpandIInv, cleanup_persistent_pe_boot_payload
  PROVE  ExpandIInv'
<1>1. /\ at = "cleanup" /\ at \notin Windows
      /\ UNCHANGED <<vars, request, config, table, need, runs, clean, origin, placed>>
  BY DEF cleanup_persistent_pe_boot_payload, planVars, Windows
<1>2. /\ TypeInv /\ RawInv /\ TableInv /\ ConfigInv /\ TodoInv /\ RoomInv /\ RunInv
      /\ CleanInv /\ PlacedInv /\ BystandersIntact /\ SizeInv
  BY DEF ExpandIInv
<1>3. CASE at' = "done" /\ UNCHANGED <<todo, shift, shrunk>>
  <2>1. RawInv' /\ Known' = Known /\ \A p : Intact(p)' <=> Intact(p)
    BY <1>1, <1>2, <1>3, RawQuiet DEF vars, Known, Intact
  <2>2. todo = {}
    BY <1>1, <1>2 DEF TodoInv, Moving
  <2>3. TypeInv' /\ TableInv' /\ ConfigInv'
    BY <1>1, <1>2, <1>3, <2>1 DEF TypeInv, TableInv, ConfigInv, Stages
  <2>4. TodoInv' /\ RoomInv'
    BY <1>1, <1>3, <2>2 DEF TodoInv, RoomInv, Moving, Windows
  <2>5. RunInv' /\ SizeInv'
    BY <1>1, <1>2, <1>3 DEF RunInv, SizeInv, Windows
  <2>6. CleanInv'
    BY <1>1, <1>2, <1>3, <2>1, <2>2 DEF CleanInv
  <2>7. PlacedInv' /\ BystandersIntact'
    BY <1>1, <1>2, <2>1 DEF PlacedInv, BystandersIntact, Confirmed
  <2> QED
    BY <2>1, <2>3, <2>4, <2>5, <2>6, <2>7 DEF ExpandIInv
<1>4. CASE Failed
  <2>1. at' = "failed" /\ todo' = {} /\ shift' = 0 /\ shrunk' = None
    BY <1>4 DEF Failed
  <2>2. RawInv' /\ disk' = disk
    BY <1>1, <1>2, <2>1, RawQuiet DEF vars
  <2> QED
    BY <1>1, <2>1, <2>2, StopsQuietly
<1> QED
  BY <1>3, <1>4 DEF cleanup_persistent_pe_boot_payload

-----------------------------------------------------------------------------

\* Every step of the task preserves the invariant.
LEMMA NextExpand ==
  ASSUME ExpandIInv, [ExpandNext]_expandVars
  PROVE  ExpandIInv'
<1>1. CASE UNCHANGED expandVars
  <2>1. /\ UNCHANGED <<vars, request, config, table, need, at, todo, shift, shrunk,
                       runs, clean, origin, placed>>
    BY <1>1 DEF expandVars
  <2>2. /\ disk' = disk /\ pc' = pc /\ move' = move /\ pos' = pos /\ before' = before
        /\ hand' = hand /\ Known' = Known /\ Recreated' = Recreated
    BY <2>1 DEF vars, hand, Known, Recreated
  <2>3. /\ TypeInv /\ RawInv /\ TableInv /\ ConfigInv /\ TodoInv /\ RoomInv /\ RunInv
        /\ CleanInv /\ PlacedInv /\ SizeInv /\ BystandersIntact
    BY DEF ExpandIInv
  <2>4. Confirmed' = Confirmed /\ \A p : Intact(p)' <=> Intact(p)
    BY <2>1, <2>2 DEF Confirmed, Intact
  <2>5. RawInv'
    <3>1. IInv'
      BY <2>1, <2>3, StepKeeps DEF RawInv
    <3> QED
      BY <2>1, <2>2, <2>3, <3>1 DEF RawInv
  <2>6. TypeInv' /\ TableInv' /\ ConfigInv' /\ SizeInv'
    BY <2>1, <2>2, <2>3 DEF TypeInv, TableInv, ConfigInv, SizeInv
  <2>7. TodoInv' /\ RoomInv'
    BY <2>1, <2>2, <2>3, <2>4 DEF TodoInv, RoomInv
  <2>8. RunInv' /\ CleanInv'
    BY <2>1, <2>2, <2>3, <2>4 DEF RunInv, CleanInv
  <2>9. PlacedInv' /\ BystandersIntact'
    BY <2>1, <2>3, <2>4 DEF PlacedInv, BystandersIntact
  <2> QED
    BY <2>5, <2>6, <2>7, <2>8, <2>9 DEF ExpandIInv
<1> QED
  BY <1>1, RequestKeeps, HandoffKeeps, RepartitionKeeps, StartKeeps, PlanKeeps, RefusalKeeps,
     ShrinkKeeps, ShrinkErrorKeeps, LockKeeps, LockErrorKeeps, RawStepKeeps, MoveDoneKeeps,
     MoveFailedKeeps, DeleteKeeps, CreateKeeps, RejectKeeps, ExtendKeeps, ExtendErrorKeeps,
     CleanupKeeps, PowerLostKeeps
  DEF ExpandNext

\* The invariant is inductive: it holds in every state of the expansion, for
\* every disk, every set of layouts and any number of starts.
THEOREM ExpandInvariant == ExpandSpec => []ExpandIInv
<1>1. ExpandInit => ExpandIInv
  BY InitExpand
<1>2. ExpandIInv /\ [ExpandNext]_expandVars => ExpandIInv'
  BY NextExpand
<1> QED
  BY <1>1, <1>2, PTL DEF ExpandSpec

\* For every disk, every set of layouts and any number of starts: the task never
\* leaves a table whose partitions overlap or leave the disk.
THEOREM TableSoundHolds == ExpandSpec => []TableSound
<1>1. ExpandIInv => TableSound
  BY TableIsOK DEF TableSound, TableOK
<1> QED
  BY <1>1, ExpandInvariant, PTL

\* Whatever fails and however often the task is started, a partition that was
\* not confirmed keeps its entry and its bytes.
THEOREM BystandersIntactHolds == ExpandSpec => []BystandersIntact
<1>1. ExpandIInv => BystandersIntact
  BY DEF ExpandIInv
<1> QED
  BY <1>1, ExpandInvariant, PTL

\* A raw move is of a confirmed partition at its confirmed place, over the
\* distance the confirmed size implies.
THEOREM MovesOnlyConfirmedHolds == ExpandSpec => []MovesOnlyConfirmed
<1>1. ASSUME ExpandIInv, at = "move"
      PROVE  /\ \E c \in Confirmed : /\ c.id = hand.id /\ c.off = hand.off
                                     /\ c = hand \/ c = shrunk
             /\ shift = request.target - request.no_move
  <2>1. TypeInv /\ TableInv /\ TodoInv
    BY <1>1 DEF ExpandIInv
  <2>2. todo # {} /\ hand \in todo
    BY <1>1, <2>1, Basics DEF TodoInv, Moving
  <2> QED
    BY <2>1, <2>2 DEF TodoInv
<1>2. ExpandIInv => MovesOnlyConfirmed
  BY <1>1 DEF MovesOnlyConfirmed
<1> QED
  BY <1>2, ExpandInvariant, PTL

\* A start that finds every partition whole and completes has lost nothing and
\* reaches the confirmed size; what it has put down stays, also if it fails.
THEOREM CleanStartLosslessHolds == ExpandSpec => []CleanStartLossless
<1>1. ASSUME ExpandIInv PROVE CleanStartLossless
  <2>1. CleanInv /\ PlacedInv /\ SizeInv /\ TodoInv
    BY <1>1 DEF ExpandIInv
  <2>2. ASSUME at = "done", clean PROVE Lossless /\ Target(table).len >= config.target
    <3>1. todo = {}
      BY <2>1, <2>2 DEF TodoInv, Moving
    <3> QED
      BY <2>1, <2>2, <3>1 DEF CleanInv, SizeInv, Lossless, Known
  <2> QED
    BY <2>1, <2>2 DEF CleanStartLossless, PlacedInv
<1>2. ExpandIInv => CleanStartLossless
  BY <1>1
<1> QED
  BY <1>2, ExpandInvariant, PTL
=============================================================================
