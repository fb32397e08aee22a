----------------------------- MODULE ExpandMove -----------------------------
(***************************************************************************)
(* Enlarging the system partition from the space of partitions behind it.  *)
(*                                                                         *)
(* In Windows the dialog analyses the disk (native_expand_c_controller.rs) *)
(* and the user confirms a size; run_handoff (native_expand_c_executor.rs) *)
(* analyses again and stores the plan, with the identity of every          *)
(* partition it will move, in the boot payload.  In WinPE expand_c_drive   *)
(* (core/expand_move.rs) plans again from the disk it finds, shrinks the   *)
(* donor, moves it and the partitions carried along with it by raw copies  *)
(* (module RawMove), recreates their table entries and extends the target. *)
(* A failed or interrupted task keeps its boot payload and may be run      *)
(* again.                                                                  *)
(*                                                                         *)
(* The disk is measured in units that stand for both a MiB and a sector.   *)
(* Unit i of the file system of partition p holds <<p, i>>; shrinking a    *)
(* volume keeps its head.  DonorTargetSizeMb is always 0 and the transfer  *)
(* from a left donor is refused in Windows, so neither is modelled.  The   *)
(* storage provider is external: it is assumed to do what it is asked to,  *)
(* without checking it, or to report an error; its own writes of the       *)
(* partition table are not part of the disk's contents here.               *)
(***************************************************************************)
EXTENDS RawMove, FiniteSets, FiniteSetsExt

CONSTANTS
    Kind,                   \* kind of each partition id: "target", "data" (NTFS
                            \* with a letter), "recovery" (GPT) or "other"
    Layouts,                \* partition tables the disk may have
    Gives,                  \* answers to query_max_reclaimable_bytes
    MinGain,                \* 1 GiB: what moving data must gain at least
    MinFree,                \* 1 GiB: what must stay free on the target
    MAX_MOVED_PARTITIONS,   \* partitions that may be carried along
    MaxRuns                 \* bound: how often the task is started in WinPE

VARIABLES
    table,      \* the partition table: a set of [id, off, len]
    need,       \* length of the part of each volume that holds its data
    at,         \* where the task stands
    request,    \* what the user confirmed in the dialog
    config,     \* the plan in the boot payload
    todo,       \* the partitions still to be moved
    shift,      \* distance of the moves
    shrunk,     \* the donor's table entry before the shrink, if it was shrunk
    runs,       \* starts of the task in WinPE
    clean,      \* the last start found everything whole; for the properties only
    origin,     \* table at the first start; for the properties only
    placed      \* where its finished moves put partitions; for the properties only

expandVars == <<vars, request, config, table, need, at, todo, shift, shrunk, runs, clean,
                origin, placed>>
planVars == <<request, config>>

Ids == DOMAIN Kind

Partitions == [id : Ids, off : Nat, len : Nat \ {0}]

None == [id |-> "none", off |-> 0, len |-> 0]

End(p) == p.off + p.len

\* A table whose entries lie on the disk and do not overlap.
Sound(t) == \A p \in t : /\ End(p) <= disk_size_bytes
                         /\ \A q \in t \ {p} : End(p) <= q.off \/ End(q) <= p.off

ASSUME LayoutAssumption ==
    \A t \in Layouts :
       /\ t \subseteq Partitions /\ Sound(t)
       /\ \A p, q \in t : p.id = q.id => p = q
       /\ \E p \in t : \A q \in t : Kind[q.id] = "target" <=> q = p

ASSUME ContentAssumption == (Ids \X Addresses) \union {<<"free", 0>>} \subseteq Content

\* The disk with every partition of layout t filled by its own file system.
Formatted(t) ==
    [a \in Addresses |-> IF \E p \in t : a \in p.off .. (End(p) - 1)
                         THEN LET p == CHOOSE q \in t : a \in q.off .. (End(q) - 1)
                              IN  <<p.id, a - p.off>>
                         ELSE <<"free", 0>>]

NeedOf(t) == [i \in Ids |-> IF \E p \in t : p.id = i
                            THEN (CHOOSE p \in t : p.id = i).len ELSE 0]

\* The data of partition id lies intact at the start of entry p.
Intact(p) == /\ p.len >= need[p.id]
             /\ \A i \in 0 .. (need[p.id] - 1) : disk[p.off + i] = <<p.id, i>>

\* Every partition of the first start has its entry and every entry its data.
Lossless == /\ \A p \in origin : \E q \in table : q.id = p.id
            /\ \A q \in table : Intact(q)

-----------------------------------------------------------------------------
(***************************************************************************)
(* Reading a layout, in Windows and in WinPE.                              *)
(***************************************************************************)

Target(t) == CHOOSE p \in t : Kind[p.id] = "target"

\* The partitions behind the target; their order is that of their offsets.
following(t) == {p \in t : p.off >= End(Target(t))}

Nearest(S)  == CHOOSE p \in S : \A q \in S : p.off <= q.off
Rearmost(S) == CHOOSE p \in S : \A q \in S : q.off <= p.off

\* Where the first partition of S begins, the end of the disk if there is none.
FirstOffset(S) == Min({p.off : p \in S} \union {disk_size_bytes})

\* Unallocated space right behind the target.
adj_unalloc(t) == FirstOffset(following(t)) - End(Target(t))

\* Where the free space behind partition p ends.
boundary(t, p) == FirstOffset({q \in t : q.off > p.off})

\* What has to be moved before donor d can be: all between it and the target.
carried(t, d) == {p \in following(t) : p.off < d.off}

-----------------------------------------------------------------------------
(***************************************************************************)
(* Windows: analysis, confirmation and handoff.                            *)
(***************************************************************************)

no_move_max_mb(t) == Target(t).len + adj_unalloc(t)

\* The size the target reaches with partition d as donor.
reach_mb(t, give, d) ==
    no_move_max_mb(t) + (boundary(t, d) - End(d)) + Min({give, d.len - 1})

\* Partition d may give space: it is a data partition and everything in front
\* of it can be carried along.
Eligible(t, give, d) ==
    /\ Cardinality(carried(t, d)) <= MAX_MOVED_PARTITIONS
    /\ Kind[d.id] = "data"
    /\ \A p \in carried(t, d) : Kind[p.id] \in {"data", "recovery"}
    /\ reach_mb(t, give, d) > no_move_max_mb(t) + MinGain

\* A donor further back is offered only if it reaches further.
move_options(t, give) ==
    {d \in following(t) :
        /\ Eligible(t, give, d)
        /\ \A e \in carried(t, d) : Eligible(t, give, e)
                                      => reach_mb(t, give, e) < reach_mb(t, give, d)}

max_size_mb(t, give) ==
    Max({reach_mb(t, give, d) : d \in move_options(t, give)} \union {no_move_max_mb(t)})

\* The smallest size offered, used being what the target's files take up.
min_target_mb(t, used) == Max({Target(t).len, used + MinFree})

NoRequest == [target |-> 0, current |-> 0, no_move |-> 0, donor |-> None, moved |-> {}]

\* The dialog: analysis, a size in the offered range, the nearest donor that
\* reaches it.
RequestExpand ==
    /\ at = "windows"
    /\ \E give \in Gives, used \in 0 .. Target(table).len, target \in 1 .. disk_size_bytes :
          LET reaching == {d \in move_options(table, give) : reach_mb(table, give, d) >= target}
              moving == target > no_move_max_mb(table)
              donor == Nearest(reaching)
          IN  /\ max_size_mb(table, give) > Target(table).len + MinGain
              /\ target \in min_target_mb(table, used) .. max_size_mb(table, give)
              /\ moving => reaching # {}
              /\ moving \/ no_move_max_mb(table) > Target(table).len
              /\ request' = [target |-> target, current |-> Target(table).len,
                             no_move |-> no_move_max_mb(table),
                             donor |-> IF moving THEN donor ELSE None,
                             moved |-> IF moving THEN carried(table, donor) ELSE {}]
    /\ at' = "confirmed"
    /\ UNCHANGED <<vars, table, need, config, todo, shift, shrunk, runs, clean, origin, placed>>

\* run_handoff: a fresh analysis must still offer what was confirmed.
run_handoff ==
    /\ at = "confirmed"
    /\ \E give \in Gives, used \in 0 .. Target(table).len :
          LET moving == request.target > no_move_max_mb(table)
              same == /\ request.donor \in move_options(table, give)
                      /\ carried(table, request.donor) = request.moved
                      /\ request.target <= reach_mb(table, give, request.donor)
          IN  IF /\ Target(table).len = request.current
                 /\ no_move_max_mb(table) = request.no_move
                 /\ moving => same
                 /\ request.target >= min_target_mb(table, used)
              THEN /\ config' = [target |-> request.target, part |-> Target(table),
                                 donor |-> IF moving THEN request.donor ELSE None,
                                 moved |-> IF moving THEN request.moved ELSE {}]
                   /\ at' = "staged"
              ELSE /\ at' = "refused"
                   /\ UNCHANGED config
    /\ UNCHANGED <<vars, table, need, request, todo, shift, shrunk, runs, clean, origin, placed>>

\* Another tool repartitions the disk before WinPE starts.
Repartition == /\ at \in {"confirmed", "staged"}
               /\ runs = 0
               /\ \E t \in Layouts \ {table} :
                     /\ table' = t
                     /\ disk' = Formatted(t)
                     /\ need' = NeedOf(t)
                     /\ buffer' = disk' /\ before' = disk'
               /\ UNCHANGED <<pc, move, pos, planVars, at, todo, shift, shrunk, runs, clean,
                              origin, placed>>

ExpandInit ==
    /\ table \in Layouts
    /\ disk = Formatted(table)
    /\ need = NeedOf(table)
    /\ pc = "idle" /\ pos = 0 /\ buffer = disk /\ before = disk
    /\ move = [direction |-> "right", src |-> 0, len |-> 0, delta |-> 0]
    /\ at = "windows"
    /\ request = NoRequest
    /\ config = [target |-> 0, part |-> None, donor |-> None, moved |-> {}]
    /\ todo = {} /\ shift = 0 /\ shrunk = None
    /\ runs = 0 /\ clean = FALSE /\ origin = {} /\ placed = {}

-----------------------------------------------------------------------------
(***************************************************************************)
(* WinPE: planning.                                                        *)
(***************************************************************************)

\* What the move in hand leaves behind when it is over, one way or the other.
MoveIdle == /\ pc' = "idle" /\ pos' = 0 /\ buffer' = disk' /\ before' = disk'
            /\ UNCHANGED move

\* The worker returns an error: the task and its boot payload are kept.
Failed == /\ at' = "failed"
          /\ todo' = {} /\ shift' = 0 /\ shrunk' = None

\* The program is started in WinPE, for the first time or again.
Start == /\ at \in {"staged", "failed", "off"}
         /\ runs < MaxRuns
         /\ runs' = runs + 1
         /\ origin' = IF runs = 0 THEN table ELSE origin
         /\ placed' = {}
         /\ at' = "plan"
         /\ UNCHANGED <<vars, planVars, table, need, todo, shift, shrunk>>
         /\ clean' = Lossless'

delta == config.target - Target(table).len

Shift == delta - adj_unalloc(table)

\* The donor: the partition right behind the target unless the plan names one
\* further back.
donor_now == IF config.moved = {} THEN Nearest(following(table)) ELSE config.donor

carried_now == carried(table, donor_now)

plan_right_donor_shrink_Never(p) == 0

plan_right_donor_shrink(p) ==
    LET free_after == boundary(table, p) - End(p)
    IN  IF Shift > free_after THEN Shift - free_after ELSE 0

Right(p, d) == [direction |-> "right", src |-> p.off, len |-> p.len, delta |-> d]

\* Identity, geometry and kind of everything the plan would move.
CheckedPlan_Unpinned ==
    /\ following(table) # {}
    /\ donor_now \in table
    /\ Kind[donor_now.id] = "data"
    /\ \A p \in carried_now : Kind[p.id] \in {"data", "recovery"}

CheckedPlan ==
    /\ following(table) # {}
    /\ donor_now \in table
    /\ carried_now = config.moved
    /\ Target(table) = config.part
    /\ donor_now = config.donor
    /\ Kind[donor_now.id] = "data"
    /\ \A p \in carried_now : Kind[p.id] \in {"data", "recovery"}

\* The geometry of the moves, taken before the donor is shrunk.
CheckedMoves == \A p \in {donor_now} \union carried_now :
                   plan_raw_move_io(Right(p, Shift))

\* A file system is recognised by the first unit of the partition.
Mounts(p) == \E i \in Ids : disk[p.off] = <<i, 0>>

volume_file_system == \A p \in {donor_now} \union carried_now :
                         Kind[p.id] = "data" => Mounts(p)

PlanAccepted == CheckedPlan /\ CheckedMoves

expand_c_drive ==
    /\ at = "plan"
    /\ \/ /\ delta <= 0
          /\ at' = "cleanup"
          /\ UNCHANGED <<todo, shift>>
       \/ /\ delta > 0
          /\ delta <= adj_unalloc(table)
          /\ at' = "extend"
          /\ UNCHANGED <<todo, shift>>
       \/ /\ delta > adj_unalloc(table)
          /\ PlanAccepted
          /\ volume_file_system
          /\ todo' = {donor_now} \union carried_now
          /\ shift' = Shift
          /\ at' = IF plan_right_donor_shrink(donor_now) > 0 THEN "shrink" ELSE "lock"
    /\ UNCHANGED <<vars, planVars, table, need, shrunk, runs, clean, origin, placed>>

\* A check fails, or the layout, the sector geometry or a file system cannot
\* be read: nothing has been written.
PlanRefused == /\ at = "plan"
               /\ Failed
               /\ UNCHANGED <<vars, planVars, table, need, runs, clean, origin, placed>>

-----------------------------------------------------------------------------
(***************************************************************************)
(* WinPE: shrinking the donor.                                             *)
(***************************************************************************)

\* The partition in hand: the rearmost of those that are left.
hand == Rearmost(todo)

\* The table with entry p replaced by q.
Replaced(p, q) == (table \ {p}) \union {q}

Shortened(p, by) == [p EXCEPT !.len = @ - by]

\* The shrink succeeds: the provider takes at least what was asked for.
shrink_volume_stable_checked ==
    /\ at = "shrink"
    /\ \E extra \in {0, 1} :
          LET p == hand
              by == plan_right_donor_shrink(p) + extra
              q == Shortened(p, by)
          IN  /\ by < p.len
              /\ table' = Replaced(p, q)
              /\ need' = [need EXCEPT ![p.id] = Min({@, q.len})]
              /\ todo' = (todo \ {p}) \union {q}
              /\ shrunk' = p
    /\ at' = "lock"
    /\ UNCHANGED <<vars, planVars, shift, runs, clean, origin, placed>>

\* recover_observed_shrink: the volume is extended by what was observed to be
\* missing, which may fail too.
recover_observed_shrink(p, q) == table' \in {Replaced(p, q), table}

\* The shrink reports an error, whether or not the volume was shrunk.
shrink_with_observed_recovery ==
    /\ at = "shrink"
    /\ \/ UNCHANGED <<table, need>>
       \/ LET p == hand
              q == Shortened(p, plan_right_donor_shrink(p))
          IN  /\ q.len > 0
              /\ table' \in {table, Replaced(p, q)}
              /\ need' = [need EXCEPT ![p.id] = Min({@, q.len})]
    /\ Failed
    /\ UNCHANGED <<vars, planVars, runs, clean, origin, placed>>

-----------------------------------------------------------------------------
(***************************************************************************)
(* WinPE: moving the partitions, the rearmost first.                       *)
(***************************************************************************)

\* The layout and the identity of the volume are read once more and the volume
\* is locked.
lock_dismount_volume ==
    /\ at = "lock"
    /\ hand \in table
    /\ shrunk # None => End(hand) + shift <= boundary(table, hand)
    /\ at' = "move"
    /\ move' = Right(hand, shift)
    /\ UNCHANGED <<disk, pc, pos, buffer, before, planVars, table, need, todo, shift, shrunk,
                   runs, clean, origin, placed>>

\* One of these reads or the lock fails; a shrink of the donor is undone.
pre_move_error_with_shrink_recovery ==
    /\ at = "lock"
    /\ IF shrunk # None /\ hand.id = shrunk.id
       THEN recover_observed_shrink(hand, shrunk)
       ELSE UNCHANGED table
    /\ Failed
    /\ UNCHANGED <<vars, planVars, need, runs, clean, origin, placed>>

\* raw_move_right, chunk by chunk.
RawMoveStep == /\ at = "move"
               /\ \/ Request \/ verify_disk_layout_snapshot
                  \/ Copy \/ IoFails
               /\ UNCHANGED <<planVars, table, need, at, todo, shift, shrunk, runs, clean,
                              origin, placed>>

\* The entry of the moved bytes.
Recreated == [hand EXCEPT !.off = @ + shift]

MoveDone == /\ at = "move"
            /\ pc = "done"
            /\ at' = "delete"
            /\ placed' = placed \union {Recreated}
            /\ UNCHANGED disk /\ MoveIdle
            /\ UNCHANGED <<planVars, table, need, todo, shift, shrunk, runs, clean, origin>>

\* A move that failed or was refused ends the task; a shrink is not undone.
MoveFailed == /\ at = "move"
              /\ pc \in {"refused", "failed"}
              /\ Failed
              /\ UNCHANGED disk /\ MoveIdle
              /\ UNCHANGED <<planVars, table, need, runs, clean, origin, placed>>

\* The old entry is deleted; an error may be reported either way.
delete_partition_checked ==
    /\ at = "delete"
    /\ \/ /\ table' = table \ {hand}
          /\ at' = "create"
          /\ UNCHANGED <<todo, shift, shrunk>>
       \/ /\ table' \in {table, table \ {hand}}
          /\ Failed
    /\ UNCHANGED <<vars, planVars, need, runs, clean, origin, placed>>

\* What a provider may make of the entry instead.
Adjusted == {q \in {Shortened(Recreated, 1)} : q.len > 0}

NextMove == /\ todo' = todo \ {hand}
            /\ at' = IF todo' = {} THEN "extend" ELSE "lock"
            /\ UNCHANGED <<shift, shrunk>>

create_partition_checked_AnyGeometry ==
    /\ at = "create"
    /\ \E q \in {Recreated} \union Adjusted : table' = table \union {q}
    /\ NextMove
    /\ UNCHANGED <<vars, planVars, need, runs, clean, origin, placed>>

create_partition_checked ==
    /\ at = "create"
    /\ table' = table \union {Recreated}
    /\ NextMove
    /\ UNCHANGED <<vars, planVars, need, runs, clean, origin, placed>>

\* The entry is not created, is created with an error, or is created with
\* another geometry; in the last case its removal is tried.
reject_and_cleanup_mismatched_recreate ==
    /\ at = "create"
    /\ \/ UNCHANGED table
       \/ \E q \in {Recreated} \union Adjusted : table' = table \union {q}
    /\ Failed
    /\ UNCHANGED <<vars, planVars, need, runs, clean, origin, placed>>

-----------------------------------------------------------------------------
(***************************************************************************)
(* WinPE: extending the target.                                            *)
(***************************************************************************)

\* The size of a volume in whole MiB: the file system is slightly smaller than
\* its partition.
get_partition_size_mb(p) == {p.len - 1, p.len}

bytes_to_add_Unchecked(current_mb) ==
    IF config.target <= current_mb THEN adj_unalloc(table) ELSE config.target - current_mb

\* What the extension adds to the target, 0 if it is refused.
bytes_to_add(current_mb) ==
    LET wanted == IF config.target <= current_mb THEN adj_unalloc(table)
                                                 ELSE config.target - current_mb
    IN  IF wanted <= adj_unalloc(table) THEN wanted ELSE 0

Extended(by) == Replaced(Target(table), [Target(table) EXCEPT !.len = @ + by])

extend_volume_stable_checked ==
    /\ at = "extend"
    /\ \E current_mb \in get_partition_size_mb(Target(table)) :
          LET by == bytes_to_add(current_mb)
          IN  /\ by # 0
              /\ table' = Extended(by)
    /\ at' = "cleanup"
    /\ UNCHANGED <<vars, planVars, need, todo, shift, shrunk, runs, clean, origin, placed>>

\* The space does not suffice, or the extension or its verification fails.
ExtendFails ==
    /\ at = "extend"
    /\ \/ UNCHANGED table
       \/ \E current_mb \in get_partition_size_mb(Target(table)) :
             LET by == bytes_to_add(current_mb)
             IN  by # 0 /\ table' = Extended(by)
    /\ Failed
    /\ UNCHANGED <<vars, planVars, need, runs, clean, origin, placed>>

\* The boot payload and the task's marker are removed; then the task is done.
cleanup_persistent_pe_boot_payload ==
    /\ at = "cleanup"
    /\ \/ at' = "done" /\ UNCHANGED <<todo, shift, shrunk>>
       \/ Failed
    /\ UNCHANGED <<vars, planVars, table, need, runs, clean, origin, placed>>

\* Power is lost anywhere in WinPE.
PowerLost ==
    /\ at \in {"plan", "shrink", "lock", "move", "delete", "create", "extend", "cleanup"}
    /\ IF at = "move" /\ pc \in {"read", "write"}
       THEN \/ UNCHANGED disk
            \/ /\ pc = "write"
               /\ \E S \in SUBSET ChunkOf(move, pos) :
                     disk' = Written(disk, move, buffer, S)
       ELSE UNCHANGED disk
    /\ at' = "off"
    /\ MoveIdle
    /\ todo' = {} /\ shift' = 0 /\ shrunk' = None
    /\ UNCHANGED <<planVars, table, need, runs, clean, origin, placed>>

ExpandNext ==
    \/ RequestExpand \/ run_handoff \/ Repartition
    \/ Start \/ expand_c_drive \/ PlanRefused
    \/ shrink_volume_stable_checked \/ shrink_with_observed_recovery
    \/ lock_dismount_volume \/ pre_move_error_with_shrink_recovery
    \/ RawMoveStep \/ MoveDone \/ MoveFailed
    \/ delete_partition_checked
    \/ create_partition_checked \/ reject_and_cleanup_mismatched_recreate
    \/ extend_volume_stable_checked \/ ExtendFails
    \/ cleanup_persistent_pe_boot_payload \/ PowerLost

ExpandSpec == ExpandInit /\ [][ExpandNext]_expandVars

-----------------------------------------------------------------------------
(***************************************************************************)
(* Properties.                                                             *)
(***************************************************************************)

\* The partitions the user agreed to move.
Confirmed == ({request.donor} \union request.moved) \ {None}

\* The task never asks for a partition that overlaps another one or leaves the
\* disk: every create and extend request fits the table it is made against,
\* also in a second run that finds the half-changed table of the first.
TableSound == Sound(table)

\* Whatever fails and however often the task is started, a partition the user
\* did not agree to move keeps its entry and its bytes, and the target keeps
\* its start and its data.
BystandersIntact ==
    \A p \in origin :
       p.id \notin {c.id : c \in Confirmed} =>
          \E q \in table :
             /\ q.id = p.id /\ q.off = p.off /\ q.len >= p.len
             /\ Kind[p.id] # "target" => q = p
             /\ Intact(q)

\* A raw move is of a partition the user confirmed, from the place he saw it
\* at, and over the distance his target size implies, although the disk may
\* have been repartitioned before WinPE started.
MovesOnlyConfirmed ==
    at = "move" => /\ \E c \in Confirmed : /\ c.id = hand.id
                                           /\ c.off = hand.off
                                           /\ c = hand \/ c = shrunk
                   /\ shift = request.target - request.no_move

\* A start, the first or a later one, that finds every partition whole and
\* completes has lost nothing, and the target has the confirmed size.  What its
\* finished moves have put down stays where it is through the moves that follow
\* and the extension, also if it fails or power is lost.
CleanStartLossless ==
    /\ at = "done" /\ clean => Lossless /\ Target(table).len >= config.target
    /\ clean => \A q \in placed : Intact(q) /\ End(Target(table)) <= q.off

\* The task is kept "for diagnosis and an explicit retry" of a "non-destructive"
\* expansion: when a start completes, every entry still has its data, and none
\* was copied again from where an earlier copy had already been written.
RetryIntact ==
    at = "done" =>
       \A q \in table :
          \A i \in 0 .. (Min({q.len, need[q.id]}) - 1) : disk[q.off + i] = <<q.id, i>>

=============================================================================
