------------------------ MODULE PersonalFilesProofs ------------------------
(***************************************************************************)
(* Proofs about the preservation and the restoration of personal files,    *)
(* for any tree of directories, any profiles, any files of the new profile *)
(* and any number of faults, attempts and files saved meanwhile: no file   *)
(* is ever lost, the stage reported is true, and nothing is overwritten.   *)
(* The second part is about the first logons that run the restoration.     *)
(***************************************************************************)
EXTENDS PersonalFiles, FirstLogon, WellFoundedInduction, TLAPS

(* An entry is d or lies somewhere below it.                               *)
Below(d, e) ==
    /\ d.owner = e.owner /\ Len(d.path) <= Len(e.path)
    /\ \A i \in 1..Len(d.path) : d.path[i] = e.path[i]

TypeInv ==
    /\ at \in [Entry -> {"users", "kept", "gone"}]
    /\ pc \in {"create", "readme", "move", "rollback", "delete", "failed", "dead", "preserved",
               "idle", "refused", "restored", "aborted"} \cup RestorePc
    /\ moved \subseteq Folders /\ folders \subseteq Folders
    /\ stage # "none" => pc = "failed"

(* While directories are renamed an entry is kept exactly when its         *)
(* directory has been; a rename that could not be undone has left one.     *)
MoveInv ==
    /\ pc \in {"create", "readme", "move", "rollback"} =>
         oldSystem = "intact" /\ \A e \in Entry : at[e] \in {"users", "kept"}
    /\ pc \in {"create", "readme"} =>
         moved = {} /\ ~rollback /\ \A e \in Entry : at[e] = "users"
    /\ pc \in {"readme", "move"} => root
    /\ pc = "move" => ~rollback
    /\ pc \in {"move", "rollback"} =>
         /\ ~rollback => \A f \in Folders : \A e \in Within(f) :
                            at[e] = IF f \in moved THEN "kept" ELSE "users"
         /\ rollback => \E f \in Folders \ moved : at[f] = "kept" /\ f.owner \in keptDirs
         /\ \A f \in moved : f.owner \in keptDirs

(* From the deletion of the old system on, what is not gone is kept, in a  *)
(* profile directory of the root and below directories that are kept.      *)
Settled == pc \in {"delete", "preserved", "idle", "refused", "restored", "aborted"} \cup RestorePc

SettledInv ==
    Settled => /\ \A e \in Entry : at[e] # "users"
               /\ \A e \in Entry : at[e] = "kept" => root /\ e.owner \in keptDirs
               /\ \A d, e \in Entry : Below(d, e) /\ at[e] = "kept" => at[d] = "kept"

(* A directory is merged into a place of its own name, below the places of *)
(* the directories it was in.                                              *)
Names  == [base : STRING, from : {"none"} \cup Range(Profiles), ordinal : Nat]
Places == [scope : {"public", "personal"}, names : Seq(Names)]
Bases(p) == [i \in DOMAIN p.names |-> p.names[i].base]
Matches(p, e) ==
    /\ p \in Places
    /\ p.scope = "public" <=> e.owner = Public
    /\ Bases(p) = e.path

Frames == [dir : Entry, place : Places, todo : SUBSET Entry]

FrameOk(fr) ==
    /\ Kind[fr.dir] \in {"folder", "dir"}
    /\ fr.todo \subseteq Children(fr.dir)
    /\ Matches(fr.place, fr.dir)

StackInv ==
    /\ stack \in Seq(Frames)
    /\ pc \in {"merge", "open", "copy", "unlink"} => stack # <<>>
    /\ \A i \in 1..Len(stack) : FrameOk(stack[i])

(* The entry at work, its place, and what the place holds.                 *)
CurInv ==
    /\ pc \in {"open", "copy", "unlink"} =>
         cur.entry \in Personal /\ PlacedRight(cur.place, cur.entry)
    /\ pc = "copy" => Exists(cur.place) /\ dest[cur.place] = Torn
    /\ pc = "unlink" => Exists(cur.place) /\ dest[cur.place] = Copy(cur.entry)

(* A known folder holds directories only at its own place.                 *)
DestInv ==
    \A f \in Folders : Exists(KnownFolder(f)) => dest[KnownFolder(f)] = Dir

IInv ==
    /\ TypeInv /\ MoveInv /\ SettledInv /\ StackInv /\ CurInv /\ DestInv
    /\ NothingLost /\ TruthfulStage

----------------------------------------------------------------------------
(* The order in which sets are worked through.                             *)

LEMMA LeastNumber ==
    ASSUME NEW T, T \subseteq Nat, T # {}
    PROVE  \E n \in T : \A m \in T : n <= m
<1> DEFINE R == OpToRel(<, Nat)
<1>1. PICK n \in T : \A m \in T : ~(<<m, n>> \in R)
  <2>1. IsWellFoundedOn(R, Nat)
    BY NatLessThanWellFounded
  <2> HIDE DEF R
  <2> QED
    BY <2>1, WFMin
<1>2. \A m \in T : ~(m < n)
  BY <1>1 DEF OpToRel
<1> QED
  BY <1>2

LEMMA EarliestFacts ==
    ASSUME NEW X, NEW order \in Seq(X), NEW S, S \subseteq Range(order), S # {}
    PROVE  Earliest(S, order) \in S
<1> DEFINE T == {i \in DOMAIN order : order[i] \in S}
<1>1. T \subseteq Nat /\ T # {}
  BY DEF Range
<1>2. PICK i \in T : \A j \in T : i <= j
  <2> HIDE DEF T
  <2> QED
    BY <1>1, LeastNumber
<1>3. \E k \in DOMAIN order : order[k] \in S /\ \A j \in DOMAIN order : order[j] \in S => k <= j
  BY <1>2
<1> QED
  BY <1>3 DEF Earliest

LEMMA LatestFacts ==
    ASSUME NEW X, NEW order \in Seq(X), NEW S, S \subseteq Range(order), S # {}
    PROVE  Latest(S, order) \in S
<1> DEFINE I == {i \in DOMAIN order : order[i] \in S}
           T == {n \in Nat : \E i \in I : n = Len(order) - i}
<1>1. I \subseteq 1..Len(order) /\ I # {} /\ Len(order) \in Nat
  BY DEF Range
<1>2. T \subseteq Nat /\ T # {}
  <2>1. PICK i \in I : TRUE
    BY <1>1
  <2>2. i \in 1..Len(order)
    BY <1>1
  <2>3. Len(order) - i \in Nat
    BY <1>1, <2>2
  <2> HIDE DEF I
  <2> QED
    BY <2>1, <2>3
<1>3. PICK n \in T : \A m \in T : n <= m
  <2> HIDE DEF T
  <2> QED
    BY <1>2, LeastNumber
<1>4. PICK i \in I : n = Len(order) - i
  BY <1>3
<1>5. \A j \in I : j <= i
  BY <1>1, <1>3, <1>4
<1>6. \E k \in DOMAIN order : order[k] \in S /\ \A j \in DOMAIN order : order[j] \in S => j <= k
  BY <1>5
<1> QED
  BY <1>6 DEF Latest

LEMMA OrderFacts ==
    /\ \A S : S \subseteq Entry /\ S # {} => Earliest(S, Sorted) \in S /\ Latest(S, Sorted) \in S
    /\ \A S : S \subseteq Range(Profiles) /\ S # {} => Earliest(S, Profiles) \in S
<1>1. Sorted \in Seq(Entry) /\ Entry = Range(Sorted) /\ Profiles \in Seq(STRING)
  BY TreeAssumption DEF Entry
<1>2. ASSUME NEW S, S \subseteq Entry, S # {} PROVE Earliest(S, Sorted) \in S
  BY <1>1, <1>2, EarliestFacts, Zenon
<1>3. ASSUME NEW S, S \subseteq Entry, S # {} PROVE Latest(S, Sorted) \in S
  BY <1>1, <1>3, LatestFacts, Zenon
<1>4. ASSUME NEW S, S \subseteq Range(Profiles), S # {} PROVE Earliest(S, Profiles) \in S
  BY <1>1, <1>4, EarliestFacts, Zenon
<1> QED
  BY <1>2, <1>3, <1>4, Zenon

----------------------------------------------------------------------------
(* The tree.                                                               *)

LEMMA EntryFacts ==
    ASSUME NEW e \in Entry
    PROVE  /\ e.path \in Seq(STRING) /\ Len(e.path) \in Nat \ {0}
           /\ e = [owner |-> e.owner, path |-> e.path]
           /\ e.owner \in Range(Profiles) /\ e.owner \in STRING
<1>1. e \in [owner : Range(Profiles), path : Seq(STRING) \ {<<>>}]
  BY TreeAssumption
<1>2. e.path \in Seq(STRING) /\ e.path # <<>> /\ e.owner \in Range(Profiles)
  BY <1>1
<1>3. Len(e.path) \in Nat \ {0}
  BY <1>2
<1>4. e.owner \in STRING
  BY <1>2, TreeAssumption DEF Range
<1> QED
  BY <1>1, <1>2, <1>3, <1>4

LEMMA Reflexive ==
    ASSUME NEW e \in Entry
    PROVE  Below(e, e)
BY EntryFacts DEF Below

(* Entries with the same path are the same.                                *)
LEMMA SameEntry ==
    ASSUME NEW d \in Entry, NEW e \in Entry, Below(d, e), Len(d.path) = Len(e.path)
    PROVE  d = e
<1>1. /\ d.path \in Seq(STRING) /\ e.path \in Seq(STRING)
      /\ d = [owner |-> d.owner, path |-> d.path] /\ e = [owner |-> e.owner, path |-> e.path]
  BY EntryFacts
<1>2. d.path = e.path
  BY <1>1 DEF Below
<1> QED
  BY <1>1, <1>2 DEF Below

(* Between a directory and an entry below it lies a child of it.           *)
LEMMA ChildBetween ==
    ASSUME NEW d \in Entry, NEW e \in Entry, Below(d, e), d # e
    PROVE  \E c \in Children(d) : Below(c, e)
<1> DEFINE n == Len(d.path) + 1
<1>1. /\ d.path \in Seq(STRING) /\ Len(d.path) \in Nat \ {0}
      /\ e.path \in Seq(STRING) /\ Len(e.path) \in Nat \ {0}
  BY EntryFacts
<1>2. Len(d.path) < Len(e.path) /\ n \in 1..Len(e.path)
  BY <1>1, SameEntry DEF Below
<1>3. PICK c \in Entry : c.owner = e.owner /\ c.path = SubSeq(e.path, 1, n)
  BY <1>2, TreeAssumption
<1>4. /\ Len(c.path) = n /\ c.path \in Seq(STRING)
      /\ \A i \in 1..n : c.path[i] = e.path[i]
  BY <1>1, <1>2, <1>3
<1>5. Front(c.path) = d.path
  <2>1. Front(c.path) \in Seq(STRING) /\ Len(Front(c.path)) = Len(d.path)
    BY <1>1, <1>4 DEF Front
  <2>2. \A i \in 1..Len(d.path) : Front(c.path)[i] = d.path[i]
    BY <1>1, <1>4 DEF Front, Below
  <2> QED
    BY <1>1, <2>1, <2>2
<1>6. c \in Children(d)
  <2>1. Len(c.path) > 1 /\ c.owner = d.owner
    BY <1>1, <1>3, <1>4 DEF Below
  <2> QED
    BY <1>5, <2>1 DEF Children
<1>7. Below(c, e)
  BY <1>1, <1>2, <1>3, <1>4 DEF Below
<1> QED
  BY <1>6, <1>7

(* Only directories have entries below them.                               *)
LEMMA LeafFacts ==
    ASSUME NEW d \in Entry, NEW e \in Entry, Below(d, e), Kind[d] \notin {"folder", "dir"}
    PROVE  d = e
BY ChildBetween, TreeAssumption

(* Every entry lies in exactly one personal directory.                     *)
LEMMA FolderFacts ==
    /\ \A e \in Entry : \E f \in Folders : Below(f, e) /\ e \in Within(f)
    /\ \A f \in Folders : f \in Within(f)
    /\ \A f, g \in Folders : \A e \in Within(f) : e \in Within(g) => f = g
<1>1. ASSUME NEW e \in Entry PROVE \E f \in Folders : Below(f, e) /\ e \in Within(f)
  <2>1. e.path \in Seq(STRING) /\ Len(e.path) \in Nat \ {0}
    BY EntryFacts
  <2>2. PICK f \in Entry : f.owner = e.owner /\ f.path = SubSeq(e.path, 1, 1)
    <3>1. 1 \in 1..Len(e.path)
      BY <2>1
    <3> QED
      BY <3>1, TreeAssumption, Zenon
  <2>3. Len(f.path) = 1 /\ f.path[1] = e.path[1]
    BY <2>1, <2>2
  <2>4. f \in Folders
    BY <2>3, TreeAssumption DEF Folders
  <2> QED
    BY <2>1, <2>2, <2>3, <2>4 DEF Below, Within
<1>2. \A f \in Folders : f \in Within(f)
  BY DEF Folders, Within
<1>3. ASSUME NEW f \in Folders, NEW g \in Folders, NEW e \in Within(f), e \in Within(g)
      PROVE  f = g
  <2>1. f \in Entry /\ g \in Entry /\ Len(f.path) = 1 /\ Len(g.path) = 1
    BY TreeAssumption DEF Folders
  <2>2. Below(f, g)
    BY <1>3, <2>1 DEF Below, Within
  <2> QED
    BY <2>1, <2>2, SameEntry
<1> QED
  BY <1>1, <1>2, <1>3

----------------------------------------------------------------------------
(* Places of the new profile.                                              *)

LEMMA NameFacts ==
    ASSUME NEW b \in STRING, NEW f \in {"none"} \cup Range(Profiles), NEW k \in Nat
    PROVE  [base |-> b, from |-> f, ordinal |-> k] \in Names
BY Zenon DEF Names

LEMMA PlainFacts ==
    ASSUME NEW b \in STRING
    PROVE  Plain(b) \in Names /\ Plain(b).base = b /\ Plain(b).from = "none"
<1>1. "none" \in {"none"} \cup Range(Profiles)
  OBVIOUS
<1>2. 0 \in Nat
  OBVIOUS
<1>3. [base |-> b, from |-> "none", ordinal |-> 0] \in Names
  BY <1>1, <1>2, NameFacts, Zenon
<1> QED
  BY <1>3 DEF Plain

LEMMA KnownFolderFacts ==
    ASSUME NEW f \in Folders
    PROVE  /\ Matches(KnownFolder(f), f)
           /\ \A e \in Entry : Bases(KnownFolder(f)) = e.path => Kind[e] = "folder"
           /\ \A name : Under(KnownFolder(f), name) \notin {KnownFolder(g) : g \in Folders}
<1> DEFINE p == KnownFolder(f)
           n == Plain(f.path[1])
<1>1. /\ f \in Entry /\ f.path \in Seq(STRING) /\ Len(f.path) = 1 /\ f.path[1] \in STRING
  <2>1. f \in Entry /\ Len(f.path) = 1
    BY TreeAssumption DEF Folders
  <2>2. f.path \in Seq(STRING)
    BY <2>1, EntryFacts
  <2> QED
    BY <2>1, <2>2
<1>2. n \in Names /\ n.base = f.path[1]
  BY <1>1, PlainFacts
<1>3. p.names = <<n>> /\ p.scope = IF f.owner = Public THEN "public" ELSE "personal"
  BY DEF KnownFolder
<1>4. p \in Places
  <2>2. (IF f.owner = Public THEN "public" ELSE "personal") \in {"public", "personal"}
    OBVIOUS
  <2>3. <<n>> \in Seq(Names)
    BY <1>2
  <2> QED
    BY <2>2, <2>3, Zenon DEF KnownFolder, Places
<1> HIDE DEF p, n
<1>5. DOMAIN p.names = 1..1 /\ p.names[1] = n
  BY <1>3
<1>6. Bases(p) = f.path
  BY <1>1, <1>2, <1>5 DEF Bases
<1>7. Matches(p, f)
  BY <1>3, <1>4, <1>6 DEF Matches
<1>8. ASSUME NEW e \in Entry, Bases(p) = e.path PROVE Kind[e] = "folder"
  BY <1>1, <1>6, <1>8, TreeAssumption
<1>9. ASSUME NEW name, NEW g \in Folders PROVE Under(p, name) # KnownFolder(g)
  <2>1. Under(p, name).names = Append(<<n>>, name)
    BY <1>3, <1>4 DEF Under, Places
  <2>2. Len(Append(<<n>>, name)) = 2
    OBVIOUS
  <2>3. Len(KnownFolder(g).names) = 1
    BY DEF KnownFolder
  <2> QED
    BY <2>1, <2>2, <2>3
<1> QED
  BY <1>7, <1>8, <1>9 DEF p

(* An entry placed under the place of its directory is placed right.       *)
LEMMA UnderFacts ==
    ASSUME NEW p, NEW d \in Entry, NEW c \in Children(d), Matches(p, d),
           NEW name \in Names, name.base = Last(c.path)
    PROVE  /\ Matches(Under(p, name), c)
           /\ name.from \in {"none", c.owner} => PlacedRight(Under(p, name), c)
<1> DEFINE q == Under(p, name)
<1>1. /\ c \in Entry /\ c.owner = d.owner /\ Len(c.path) > 1 /\ Front(c.path) = d.path
      /\ c.path \in Seq(STRING) /\ d.path \in Seq(STRING) /\ Len(c.path) \in Nat
  BY EntryFacts DEF Children
<1>2. p \in Places /\ Bases(p) = d.path
  BY DEF Matches
<1>3. q \in Places /\ q.names = Append(p.names, name) /\ q.scope = p.scope
  BY <1>2 DEF Under, Places
<1>4. p.names \in Seq(Names)
  BY <1>2 DEF Places
<1> HIDE DEF q
<1>5. Len(p.names) = Len(d.path) /\ Len(d.path) = Len(c.path) - 1
  <2>1. DOMAIN Bases(p) = 1..Len(p.names)
    BY <1>4 DEF Bases
  <2>2. DOMAIN d.path = 1..Len(d.path) /\ Len(p.names) \in Nat /\ Len(d.path) \in Nat
    BY <1>1, <1>4
  <2>3. Len(p.names) = Len(d.path)
    BY <1>2, <2>1, <2>2
  <2>4. Len(d.path) = Len(c.path) - 1
    BY <1>1 DEF Front
  <2> QED
    BY <2>3, <2>4
<1>6. /\ q.names \in Seq(Names) /\ Len(q.names) = Len(c.path)
      /\ q.names[Len(c.path)] = name
      /\ \A i \in 1..(Len(c.path) - 1) : q.names[i] = p.names[i]
  BY <1>1, <1>3, <1>4, <1>5
<1>7. \A i \in 1..(Len(c.path) - 1) : p.names[i].base = c.path[i]
  <2>1. \A i \in 1..(Len(c.path) - 1) : d.path[i] = c.path[i]
    BY <1>1 DEF Front
  <2>2. \A i \in 1..(Len(c.path) - 1) : Bases(p)[i] = p.names[i].base
    BY <1>1, <1>4, <1>5 DEF Bases
  <2> QED
    BY <1>2, <2>1, <2>2
<1>8. Bases(q) = c.path
  <2>1. DOMAIN q.names = 1..Len(c.path) /\ DOMAIN c.path = 1..Len(c.path)
    BY <1>1, <1>6
  <2>2. \A i \in 1..Len(c.path) : q.names[i].base = c.path[i]
    <3>1. c.path[Len(c.path)] = name.base
      BY DEF Last
    <3>2. \A i \in 1..Len(c.path) : i = Len(c.path) \/ i \in 1..(Len(c.path) - 1)
      BY <1>1
    <3> QED
      BY <1>6, <1>7, <3>1, <3>2
  <2> QED
    BY <1>1, <2>1, <2>2 DEF Bases
<1>9. Matches(q, c)
  BY <1>1, <1>3, <1>8 DEF Matches
<1>10. Last(q.names) = name
  BY <1>6 DEF Last
<1> QED
  BY <1>8, <1>9, <1>10 DEF q, PlacedRight, Matches, Bases

(* The place allocated for an entry is free and named after the entry.     *)
LEMMA TargetFacts ==
    ASSUME NEW p, NEW e \in Entry, Allocatable(p, e)
    PROVE  /\ ~Exists(Target(p, e))
           /\ \E name \in Names : /\ Target(p, e) = Under(p, name) /\ name.base = Last(e.path)
                                  /\ name.from \in {"none", e.owner}
<1> DEFINE plain == Under(p, Plain(Last(e.path)))
           free  == FreeOrdinals(p, e)
<1>1. Last(e.path) \in STRING /\ e.owner \in Range(Profiles)
  BY EntryFacts DEF Last
<1>2. Plain(Last(e.path)) \in Names /\ Plain(Last(e.path)).base = Last(e.path)
      /\ Plain(Last(e.path)).from = "none"
  BY <1>1, PlainFacts
<1>3. CASE ~Exists(plain)
  <2>1. Target(p, e) = plain
    BY <1>3 DEF Target
  <2> HIDE DEF plain
  <2> QED
    BY <1>2, <1>3, <2>1 DEF plain
<1>4. CASE Exists(plain)
  <2>1. free \subseteq Nat /\ free # {}
    BY <1>4, BoundAssumption DEF Allocatable, FreeOrdinals
  <2>2. \E k \in free : \A j \in free : k <= j
    <3> HIDE DEF free
    <3> QED
      BY <2>1, LeastNumber
  <2> DEFINE k == CHOOSE k \in free : \A j \in free : k <= j
             name == Conflict(Last(e.path), e.owner, k)
  <2>3. k \in free
    BY <2>2
  <2>4. Target(p, e) = Under(p, name)
    BY <1>4 DEF Target
  <2> HIDE DEF k
  <2>5. ~Exists(Under(p, name)) /\ k \in Nat
    BY <2>1, <2>3 DEF FreeOrdinals
  <2>6. name \in Names /\ name.base = Last(e.path) /\ name.from = e.owner
    BY <1>1, <2>5 DEF Conflict, Names
  <2> HIDE DEF name
  <2> QED
    BY <2>4, <2>5, <2>6
<1> QED
  BY <1>3, <1>4

----------------------------------------------------------------------------
(* The calls of merge_preserved_directory that are under way.              *)

LEMMA FrameFacts ==
    ASSUME NEW d \in Entry, NEW p, Matches(p, d), Kind[d] \in {"folder", "dir"}
    PROVE  Frame(d, p) \in Frames /\ FrameOk(Frame(d, p))
<1>1. Kept(Children(d)) \subseteq Children(d) /\ Children(d) \subseteq Entry
  BY DEF Kept, Children
<1>2. p \in Places
  BY DEF Matches
<1>3. Kept(Children(d)) \in SUBSET Entry
  BY <1>1
<1>4. Frame(d, p) \in Frames
  BY <1>2, <1>3, Zenon DEF Frame, Frames
<1>5. Frame(d, p).dir = d /\ Frame(d, p).place = p /\ Frame(d, p).todo = Kept(Children(d))
  BY DEF Frame
<1> QED
  BY <1>1, <1>4, <1>5 DEF FrameOk

LEMMA TopFacts ==
    ASSUME StackInv, stack # <<>>
    PROVE  /\ Len(stack) \in Nat \ {0} /\ Top \in Frames /\ FrameOk(Top) /\ Top.dir \in Entry
           /\ Top.todo # {} => Upcoming \in Children(Top.dir) /\ Upcoming \in Entry
<1>1. stack \in Seq(Frames) /\ Len(stack) \in Nat \ {0}
  BY DEF StackInv
<1>2. Top \in Frames /\ FrameOk(Top)
  BY <1>1 DEF StackInv, Top
<1>3. Top.dir \in Entry /\ Top.todo \subseteq Entry /\ Top.todo \subseteq Children(Top.dir)
  BY <1>2 DEF Frames, FrameOk
<1>4. ASSUME Top.todo # {} PROVE Upcoming \in Top.todo
  BY <1>3, <1>4, OrderFacts DEF Upcoming
<1> QED
  BY <1>1, <1>2, <1>3, <1>4

LEMMA AdvanceFacts ==
    ASSUME StackInv, stack # <<>>
    PROVE  /\ Advance \in Seq(Frames) /\ Advance # <<>>
           /\ \A i \in 1..Len(Advance) : FrameOk(Advance[i])
<1> DEFINE n  == Len(stack)
           fr == [stack[n] EXCEPT !.todo = @ \ {Upcoming}]
<1>1. stack \in Seq(Frames) /\ n \in Nat \ {0} /\ n \in DOMAIN stack
  BY DEF StackInv
<1>2. stack[n] \in Frames /\ FrameOk(stack[n])
  BY <1>1 DEF StackInv
<1>3. fr \in Frames /\ fr.dir = stack[n].dir /\ fr.place = stack[n].place
      /\ fr.todo \subseteq stack[n].todo
  BY <1>2 DEF Frames
<1>4. Advance = [stack EXCEPT ![n] = fr]
  BY DEF Advance
<1> HIDE DEF n, fr
<1>5. FrameOk(fr)
  BY <1>2, <1>3 DEF FrameOk
<1>6. Advance \in Seq(Frames) /\ Len(Advance) = Len(stack)
  BY <1>1, <1>3, <1>4
<1>7. ASSUME NEW i \in 1..Len(Advance) PROVE FrameOk(Advance[i])
  <2>1. Advance[i] = IF i = n THEN fr ELSE stack[i]
    BY <1>1, <1>4, <1>6, <1>7
  <2> QED
    BY <1>5, <1>6, <1>7, <2>1 DEF StackInv
<1> QED
  BY <1>1, <1>6, <1>7 DEF n

(* A new call on top of the others.                                        *)
LEMMA PushFacts ==
    ASSUME NEW s \in Seq(Frames), \A i \in 1..Len(s) : FrameOk(s[i]),
           NEW fr \in Frames, FrameOk(fr)
    PROVE  /\ Append(s, fr) \in Seq(Frames) /\ Append(s, fr) # <<>>
           /\ \A i \in 1..Len(Append(s, fr)) : FrameOk(Append(s, fr)[i])
<1>1. /\ Append(s, fr) \in Seq(Frames) /\ Len(Append(s, fr)) = Len(s) + 1 /\ Len(s) \in Nat
      /\ \A i \in 1..Len(s) : Append(s, fr)[i] = s[i]
      /\ Append(s, fr)[Len(s) + 1] = fr
  OBVIOUS
<1>2. Append(s, fr) # <<>>
  <2>1. Len(<<>>) = 0
    OBVIOUS
  <2>2. Len(Append(s, fr)) # 0
    BY <1>1
  <2> QED
    BY <2>1, <2>2, Zenon
<1>3. ASSUME NEW i \in 1..Len(Append(s, fr)) PROVE FrameOk(Append(s, fr)[i])
  <2>1. i \in 1..Len(s) \/ i = Len(s) + 1
    BY <1>1, <1>3
  <2> QED
    BY <1>1, <2>1
<1> QED
  BY <1>1, <1>2, <1>3

(* The place for the next entry of a directory.                            *)
LEMMA ChoiceFacts ==
    ASSUME StackInv, stack # <<>>, Top.todo # {}
    PROVE  /\ Matches(Under(Top.place, Plain(Last(Upcoming.path))), Upcoming)
           /\ Allocatable(Top.place, Upcoming) =>
                /\ ~Exists(Target(Top.place, Upcoming))
                /\ Matches(Target(Top.place, Upcoming), Upcoming)
                /\ PlacedRight(Target(Top.place, Upcoming), Upcoming)
<1> DEFINE e == Upcoming
           p == Top.place
<1>1. e \in Children(Top.dir) /\ e \in Entry /\ Top.dir \in Entry /\ Matches(p, Top.dir)
  BY TopFacts DEF FrameOk
<1> HIDE DEF e, p
<1>2. Last(e.path) \in STRING
  BY <1>1, EntryFacts DEF Last
<1>3. Matches(Under(p, Plain(Last(e.path))), e)
  BY <1>1, <1>2, PlainFacts, UnderFacts
<1>4. ASSUME Allocatable(p, e)
      PROVE  ~Exists(Target(p, e)) /\ Matches(Target(p, e), e) /\ PlacedRight(Target(p, e), e)
  <2>1. ~Exists(Target(p, e))
    BY <1>1, <1>4, TargetFacts
  <2>2. PICK name \in Names : /\ Target(p, e) = Under(p, name) /\ name.base = Last(e.path)
                              /\ name.from \in {"none", e.owner}
    BY <1>1, <1>4, TargetFacts
  <2> QED
    BY <1>1, <2>1, <2>2, UnderFacts
<1> QED
  BY <1>3, <1>4 DEF e, p

----------------------------------------------------------------------------
(* What a step does to the new profile.                                    *)

Intact ==
    \A p \in DOMAIN dest : dest[p].is \in {"new", "copy"} =>
       p \in DOMAIN dest' /\ dest'[p] = dest[p]

LEMMA PutFacts ==
    ASSUME NEW place, NEW content, dest' = Put(place, content)
    PROVE  /\ (Exists(place))' /\ dest'[place] = content
           /\ \A p : p # place => ((Exists(p))' <=> Exists(p))
           /\ \A p \in DOMAIN dest : p # place => dest'[p] = dest[p]
           /\ ~Exists(place) \/ dest[place].is \notin {"new", "copy"} => Intact
BY DEF Put, Exists, Intact

LEMMA ContentFacts ==
    /\ Dir.is = "dir" /\ New.is = "new" /\ Torn.is = "torn" /\ \A e : Copy(e).is = "copy"
BY DEF Dir, New, Torn, Copy

(* The place of a file is never a known folder.                            *)
LEMMA PlaceFacts ==
    ASSUME CurInv, pc \in {"open", "copy", "unlink"}
    PROVE  cur.entry \in Entry /\ Kind[cur.entry] \in {"file", "link"}
           /\ \A f \in Folders : cur.place # KnownFolder(f)
<1>1. cur.entry \in Entry /\ Kind[cur.entry] \in {"file", "link"}
  BY DEF CurInv, Personal
<1>2. Bases(cur.place) = cur.entry.path
  BY DEF CurInv, PlacedRight, Bases
<1> QED
  BY <1>1, <1>2, KnownFolderFacts

LEMMA DestFacts == IInv /\ [Next]_vars => Intact /\ DestInv'
<1> SUFFICES ASSUME IInv, [Next]_vars PROVE Intact /\ DestInv'
  OBVIOUS
<1>0. TypeInv /\ StackInv /\ CurInv /\ DestInv
  BY DEF IInv
<1>1. CASE UNCHANGED dest
  BY <1>0, <1>1 DEF Intact, DestInv, Exists
<1>2. CASE VisitFolder
  <2> DEFINE f == Earliest(folders, Sorted)
  <2>1. f \in Folders
    <3>1. folders \subseteq Entry /\ folders \subseteq Folders /\ folders # {}
      BY <1>0, <1>2 DEF TypeInv, Folders, VisitFolder
    <3> QED
      BY <3>1, OrderFacts
  <2>2. dest' = Put(KnownFolder(f), Dir)
    BY <1>2 DEF VisitFolder
  <2> HIDE DEF f
  <2>3. Exists(KnownFolder(f)) => dest[KnownFolder(f)] = Dir
    BY <1>0, <2>1 DEF DestInv
  <2> QED
    BY <1>0, <2>2, <2>3, PutFacts, ContentFacts DEF DestInv, Exists
<1>3. CASE MergeEntry
  <2>1. UNCHANGED dest \/ EnterDirectory(Upcoming)
    BY <1>3 DEF MergeEntry, DiscardMetadata, ChoosePlace
  <2>2. CASE EnterDirectory(Upcoming)
    <3> DEFINE plain == Under(Top.place, Plain(Last(Upcoming.path)))
               into  == IF Merges(plain) THEN plain ELSE Target(Top.place, Upcoming)
    <3>1. stack # <<>> /\ Top.todo # {}
      BY <1>0, <1>3 DEF StackInv, MergeEntry
    <3>2. dest' = Put(into, Dir) /\ (Merges(plain) \/ Allocatable(Top.place, Upcoming))
      BY <2>2 DEF EnterDirectory
    <3>3. Exists(into) => dest[into] = Dir
      BY <1>0, <3>1, <3>2, ChoiceFacts DEF Merges
    <3> HIDE DEF into
    <3> QED
      BY <1>0, <3>2, <3>3, PutFacts, ContentFacts DEF DestInv, Exists
  <2> QED
    BY <1>1, <2>1, <2>2
<1>4. CASE OpenPlace
  <2>1. PICK content : dest' = Put(cur.place, content)
    BY <1>4 DEF OpenPlace
  <2>2. ~Exists(cur.place) /\ \A f \in Folders : cur.place # KnownFolder(f)
    BY <1>0, <1>4, PlaceFacts DEF OpenPlace
  <2> QED
    BY <1>0, <2>1, <2>2, PutFacts DEF DestInv, Exists
<1>5. CASE CopyFile
  <2>1. /\ Exists(cur.place) /\ dest[cur.place] = Torn
        /\ \A f \in Folders : cur.place # KnownFolder(f)
    BY <1>0, <1>5, PlaceFacts DEF CopyFile, CurInv
  <2>2. CASE dest' = Put(cur.place, Copy(cur.entry))
    BY <1>0, <2>1, <2>2, PutFacts, ContentFacts DEF DestInv, Exists
  <2>3. CASE dest' = Vacate(cur.place)
    BY <1>0, <2>1, <2>3, ContentFacts DEF Vacate, DestInv, Exists, Intact
  <2> QED
    BY <1>1, <1>5, <2>2, <2>3 DEF CopyFile
<1>6. CASE UserCreates
  <2>1. PICK f \in Folders, e \in Personal :
           ~Exists(Under(KnownFolder(f), Plain(Last(e.path))))
           /\ dest' = Put(Under(KnownFolder(f), Plain(Last(e.path))), New)
    BY <1>6 DEF UserCreates
  <2> QED
    BY <1>0, <2>1, KnownFolderFacts, PutFacts DEF DestInv, Exists
<1>7. CASE StartRestore
  <2>1. dest' = dest \/ dest' = MakeFolders
    BY <1>7 DEF StartRestore
  <2>2. CASE dest' = MakeFolders
    BY <1>0, <2>2 DEF MakeFolders, Exists, Intact, DestInv
  <2> QED
    BY <1>1, <2>1, <2>2
<1>8. \/ UNCHANGED dest \/ StartRestore \/ VisitFolder \/ MergeEntry \/ OpenPlace \/ CopyFile
      \/ UserCreates
  BY DEF Next, Preserve, Restore, vars, disk, CreateRoot, WriteReadme, MoveDirectory, RollbackMove,
    CleanupRoot, DeleteShortcuts, DeleteOldSystem, FirstLogon, VisitProfile, UnlinkSource,
    LeaveDirectory, LeaveProfile, RemoveReadme, RemoveRoot, RestoreFails, PowerLoss
<1> QED
  BY <1>1, <1>2, <1>3, <1>4, <1>5, <1>6, <1>7, <1>8

(* A file is not lost by a step that takes it away only once it is restored. *)
LEMMA LostFacts ==
    ASSUME NothingLost, Intact,
           \A e \in Personal : at'[e] = "gone" => at[e] = "gone" \/ (Restored(e))'
    PROVE  NothingLost'
<1>1. ASSUME NEW e \in Personal, Restored(e) PROVE (Restored(e))'
  BY <1>1, ContentFacts DEF Restored, Intact
<1> QED
  BY <1>1 DEF NothingLost

(* An entry with nothing kept in it may go.                                *)
LEMMA GoneFacts ==
    ASSUME TypeInv, SettledInv, Settled, NEW d \in Entry, at' = [at EXCEPT ![d] = "gone"],
           UNCHANGED <<root, keptDirs>>, \A c \in Children(d) : at[c] # "kept"
    PROVE  /\ SettledInv' /\ at'[d] = "gone" /\ \A e \in Entry : e # d => at'[e] = at[e]
           /\ at' \in [Entry -> {"users", "kept", "gone"}]
<1>1. /\ at'[d] = "gone" /\ \A e \in Entry : e # d => at'[e] = at[e]
      /\ at' \in [Entry -> {"users", "kept", "gone"}]
  BY DEF TypeInv
<1>2. ASSUME NEW e \in Entry, Below(d, e), at'[e] = "kept" PROVE FALSE
  <2>1. e # d /\ at[e] = "kept"
    BY <1>1, <1>2
  <2>2. PICK c \in Children(d) : Below(c, e)
    BY <1>2, <2>1, ChildBetween
  <2>3. c \in Entry
    BY DEF Children
  <2> QED
    BY <2>1, <2>2, <2>3 DEF SettledInv
<1>3. \A e \in Entry : at'[e] # "users"
  BY <1>1 DEF SettledInv
<1>4. \A e \in Entry : at'[e] = "kept" => root' /\ e.owner \in keptDirs'
  BY <1>1 DEF SettledInv
<1>5. ASSUME NEW c \in Entry, NEW e \in Entry, Below(c, e), at'[e] = "kept" PROVE at'[c] = "kept"
  BY <1>1, <1>2, <1>5 DEF SettledInv
<1> QED
  BY <1>1, <1>3, <1>4, <1>5 DEF SettledInv

(* So may an entry that is not a directory.                                *)
LEMMA LeafGone ==
    ASSUME NEW d \in Entry, Kind[d] \notin {"folder", "dir"}
    PROVE  Children(d) = {}
BY TreeAssumption

(* In a settled state nothing kept means that every file is restored.      *)
LEMMA EmptyFacts ==
    ASSUME TypeInv, SettledInv, Settled, ~root \/ keptDirs = {}
    PROVE  \A e \in Personal : at[e] = "gone"
BY DEF TypeInv, SettledInv, Personal

----------------------------------------------------------------------------
(* The invariant.                                                          *)

LEMMA InitIInv == Init => IInv
<1> SUFFICES ASSUME Init PROVE IInv
  OBVIOUS
<1>1. TypeInv
  BY DEF Init, TypeInv
<1>2. MoveInv
  BY DEF Init, MoveInv
<1>3. SettledInv
  BY DEF Init, SettledInv, Settled, RestorePc
<1>4. StackInv /\ CurInv
  BY DEF Init, StackInv, CurInv
<1>5. DestInv
  BY NewAssumption DEF Init, DestInv, Exists, Dir
<1>6. NothingLost /\ TruthfulStage
  BY DEF Init, NothingLost, Personal, TruthfulStage
<1> QED
  BY <1>1, <1>2, <1>3, <1>4, <1>5, <1>6 DEF IInv

LEMMA NextIInv == IInv /\ [Next]_vars => IInv'
<1> SUFFICES ASSUME IInv, [Next]_vars PROVE IInv'
  OBVIOUS
<1>0. /\ TypeInv /\ MoveInv /\ SettledInv /\ StackInv /\ CurInv /\ DestInv /\ NothingLost
      /\ TruthfulStage /\ Intact /\ DestInv'
  BY DestFacts DEF IInv
<1>1. CASE CreateRoot
  <2>1. TypeInv'
    BY <1>1, <1>0 DEF CreateRoot, Refuse, restoring, TypeInv, RestorePc
  <2>2. MoveInv'
    BY <1>1, <1>0 DEF CreateRoot, Refuse, restoring, MoveInv, RestorePc
  <2>3. SettledInv'
    BY <1>1, <1>0 DEF CreateRoot, Refuse, restoring, SettledInv, Settled, RestorePc
  <2>4. StackInv'
    BY <1>1, <1>0 DEF CreateRoot, Refuse, restoring, StackInv, RestorePc
  <2>5. CurInv'
    BY <1>1, <1>0 DEF CreateRoot, Refuse, restoring, CurInv, RestorePc, Exists
  <2>6. NothingLost'
    BY <1>1, <1>0, LostFacts DEF CreateRoot, Refuse, restoring
  <2>7. TruthfulStage'
    BY <1>1, <1>0 DEF CreateRoot, Refuse, TypeInv, MoveInv, TruthfulStage
  <2> QED
    BY <1>0, <2>1, <2>2, <2>3, <2>4, <2>5, <2>6, <2>7 DEF IInv
<1>2. CASE WriteReadme
  <2>1. TypeInv'
    BY <1>2, <1>0 DEF WriteReadme, Refuse, restoring, TypeInv, RestorePc
  <2>2. MoveInv'
    <3>1. CASE pc' = "move"
      <4>1. pc = "readme" /\ UNCHANGED <<root, at, moved, rollback, oldSystem, keptDirs>>
        BY <1>2, <3>1 DEF WriteReadme, Refuse
      <4>2. \A f \in Folders : \A e \in Within(f) : at[e] = "users"
        BY <1>0, <4>1 DEF MoveInv, Within
      <4> QED
        BY <1>0, <3>1, <4>1, <4>2 DEF MoveInv
    <3>2. CASE pc' = "failed"
      BY <3>2 DEF MoveInv
    <3> QED
      BY <1>2, <3>1, <3>2 DEF WriteReadme, Refuse
  <2>3. SettledInv'
    BY <1>2, <1>0 DEF WriteReadme, Refuse, restoring, SettledInv, Settled, RestorePc
  <2>4. StackInv'
    BY <1>2, <1>0 DEF WriteReadme, Refuse, restoring, StackInv, RestorePc
  <2>5. CurInv'
    BY <1>2, <1>0 DEF WriteReadme, Refuse, restoring, CurInv, RestorePc, Exists
  <2>6. NothingLost'
    BY <1>2, <1>0, LostFacts DEF WriteReadme, Refuse, restoring
  <2>7. TruthfulStage'
    BY <1>2, <1>0 DEF WriteReadme, Refuse, TypeInv, MoveInv, TruthfulStage
  <2> QED
    BY <1>0, <2>1, <2>2, <2>3, <2>4, <2>5, <2>6, <2>7 DEF IInv
<1>3. CASE MoveDirectory
  <2> DEFINE f == Earliest(Folders \ moved, Sorted)
  <2>a. /\ f \in Folders /\ f \in Entry
        /\ \A g \in Folders : \A e \in Within(g) : e \in Entry /\ (e \in Within(f) => g = f)
        /\ \A g \in Folders : g \in Within(g)
    <3>1. Folders \ moved \subseteq Entry /\ Folders \ moved # {} /\ Folders \subseteq Entry
      BY <1>3, <1>0 DEF TypeInv, Folders, MoveDirectory
    <3>2. f \in Folders
      BY <3>1, OrderFacts
    <3> QED
      BY <3>1, <3>2, FolderFacts DEF Within
  <2>b. pc = "move" /\ UNCHANGED <<oldSystem, root, rollback, stage, folders, stack, cur, dest>>
    BY <1>3 DEF MoveDirectory, restoring
  <2>c. \/ /\ at' = Place(f, "kept") /\ keptDirs' = keptDirs \cup {f.owner}
           /\ moved' = moved \cup {f} /\ pc' = pc
        \/ /\ keptDirs' \in {keptDirs, keptDirs \cup {f.owner}}
           /\ pc' = "rollback" /\ UNCHANGED <<at, moved>>
    BY <1>3 DEF MoveDirectory
  <2> HIDE DEF f
  <2>1. TypeInv'
    BY <1>0, <2>a, <2>b, <2>c DEF Place, TypeInv
  <2>2. MoveInv'
    BY <1>0, <2>a, <2>b, <2>c DEF Place, MoveInv
  <2>3. SettledInv'
    BY <2>b, <2>c DEF SettledInv, Settled, RestorePc
  <2>4. StackInv'
    BY <1>0, <2>b, <2>c DEF StackInv
  <2>5. CurInv'
    BY <2>b, <2>c DEF CurInv
  <2>6. NothingLost'
    <3>1. \A e \in Personal : e \in Entry /\ at'[e] # "gone"
      BY <1>0, <2>b, <2>c DEF Personal, Place, MoveInv
    <3> QED
      BY <1>0, <3>1, LostFacts
  <2>7. TruthfulStage'
    BY <1>0, <2>b, <2>c DEF TypeInv, TruthfulStage
  <2> QED
    BY <1>0, <2>1, <2>2, <2>3, <2>4, <2>5, <2>6, <2>7 DEF IInv
<1>4. CASE RollbackMove
  <2> DEFINE f == Latest(moved, Sorted)
  <2>a. /\ f \in moved /\ f \in Folders /\ f \in Entry
        /\ \A g \in Folders : \A e \in Within(g) : e \in Entry /\ (e \in Within(f) => g = f)
        /\ \A g \in Folders : g \in Within(g)
    <3>1. moved \subseteq Entry /\ moved # {} /\ moved \subseteq Folders
      BY <1>4, <1>0 DEF TypeInv, Folders, RollbackMove
    <3>2. f \in moved
      BY <3>1, OrderFacts
    <3> QED
      BY <3>1, <3>2, FolderFacts DEF Within
  <2>b. /\ pc = "rollback" /\ moved' = moved \ {f}
        /\ UNCHANGED <<pc, oldSystem, root, keptDirs, stage, folders, stack, cur, dest>>
    BY <1>4 DEF RollbackMove, restoring
  <2>c. \/ at' = Place(f, "users") /\ UNCHANGED rollback
        \/ rollback' = TRUE /\ UNCHANGED at
    BY <1>4 DEF RollbackMove
  <2> HIDE DEF f
  <2>1. TypeInv'
    BY <1>0, <2>a, <2>b, <2>c DEF Place, TypeInv
  <2>2. MoveInv'
    BY <1>0, <2>a, <2>b, <2>c DEF Place, MoveInv
  <2>3. SettledInv'
    BY <2>b, <2>c DEF SettledInv, Settled, RestorePc
  <2>4. StackInv'
    BY <1>0, <2>b, <2>c DEF StackInv
  <2>5. CurInv'
    BY <2>b, <2>c DEF CurInv
  <2>6. NothingLost'
    <3>1. \A e \in Personal : e \in Entry /\ at'[e] # "gone"
      BY <1>0, <2>b, <2>c DEF Personal, Place, MoveInv
    <3> QED
      BY <1>0, <3>1, LostFacts
  <2>7. TruthfulStage'
    BY <1>0, <2>b, <2>c DEF TypeInv, TruthfulStage
  <2> QED
    BY <1>0, <2>1, <2>2, <2>3, <2>4, <2>5, <2>6, <2>7 DEF IInv
<1>5. CASE CleanupRoot
  <2>1. TypeInv'
    BY <1>5, <1>0 DEF CleanupRoot, Refuse, restoring, TypeInv, RestorePc
  <2>2. MoveInv'
    BY <1>5, <1>0 DEF CleanupRoot, Refuse, restoring, MoveInv, RestorePc
  <2>3. SettledInv'
    BY <1>5, <1>0 DEF CleanupRoot, Refuse, restoring, SettledInv, Settled, RestorePc
  <2>4. StackInv'
    BY <1>5, <1>0 DEF CleanupRoot, Refuse, restoring, StackInv, RestorePc
  <2>5. CurInv'
    BY <1>5, <1>0 DEF CleanupRoot, Refuse, restoring, CurInv, RestorePc, Exists
  <2>6. NothingLost'
    BY <1>5, <1>0, LostFacts DEF CleanupRoot, Refuse, restoring
  <2>7. TruthfulStage'
    <3>1. /\ pc = "rollback" /\ moved = {} /\ pc' = "failed" /\ UNCHANGED <<at, oldSystem>>
          /\ stage' = IF rollback THEN "RollbackIncomplete" ELSE "Reversible"
          /\ keptDirs \cap Occupied \subseteq keptDirs' /\ (keptDirs' # {} => root')
      BY <1>5 DEF CleanupRoot, Refuse
    <3>2. oldSystem = "intact"
      BY <1>0, <3>1 DEF MoveInv
    <3>3. CASE rollback
      <4>1. PICK f \in Folders : at[f] = "kept" /\ f.owner \in keptDirs
        BY <1>0, <3>1, <3>3 DEF MoveInv
      <4>2. f.owner \in keptDirs \cap Occupied
        BY <4>1 DEF Occupied
      <4> QED
        BY <3>1, <3>2, <3>3, <4>2 DEF TruthfulStage
    <3>4. CASE ~rollback
      <4>1. \A e \in Entry : at[e] = "users"
        BY <1>0, <3>1, <3>4, FolderFacts DEF MoveInv
      <4> QED
        BY <3>1, <3>2, <3>4, <4>1 DEF TruthfulStage
    <3> QED
      BY <3>3, <3>4
  <2> QED
    BY <1>0, <2>1, <2>2, <2>3, <2>4, <2>5, <2>6, <2>7 DEF IInv
<1>6. CASE DeleteShortcuts
  <2>k. /\ \A e \in Entry : at[e] = "kept" /\ e.owner \in keptDirs
        /\ root /\ UNCHANGED <<root, keptDirs>> /\ pc' \in {"delete", "failed"}
    <3>1. pc = "move" /\ moved = Folders /\ ~rollback /\ root
      BY <1>6, <1>0 DEF DeleteShortcuts, MoveInv
    <3>2. ASSUME NEW e \in Entry PROVE at[e] = "kept" /\ e.owner \in keptDirs
      <4>1. PICK f \in Folders : e \in Within(f)
        BY FolderFacts
      <4> QED
        BY <1>0, <3>1, <4>1 DEF MoveInv, Within
    <3> QED
      BY <1>6, <3>1, <3>2 DEF DeleteShortcuts, Refuse
  <2>l. \A e \in Entry : at'[e] = "kept" \/ (at'[e] = "gone" /\ Kind[e] = "shortcut")
    BY <1>6, <2>k DEF DeleteShortcuts
  <2>m. pc' = "delete" => \A e \in Entry : at'[e] = "gone" <=> Kind[e] = "shortcut"
    BY <1>6, <2>k DEF DeleteShortcuts, Refuse
  <2>1. TypeInv'
    BY <1>6, <1>0 DEF DeleteShortcuts, Refuse, restoring, TypeInv, RestorePc
  <2>2. MoveInv'
    BY <1>6, <1>0 DEF DeleteShortcuts, Refuse, restoring, MoveInv, RestorePc
  <2>3. SettledInv'
    <3>1. ASSUME NEW d \in Entry, NEW e \in Entry, Below(d, e), at'[e] = "kept"
          PROVE  at'[d] = "kept"
      <4>1. Kind[d] = "shortcut" => d = e
        BY <3>1, LeafFacts
      <4> QED
        BY <2>l, <3>1, <4>1
    <3>2. \A e \in Entry : at'[e] # "users" /\ (at'[e] = "kept" => root' /\ e.owner \in keptDirs')
      BY <2>k, <2>l
    <3> QED
      BY <3>1, <3>2 DEF SettledInv
  <2>4. StackInv'
    BY <1>6, <1>0 DEF DeleteShortcuts, Refuse, restoring, StackInv, RestorePc
  <2>5. CurInv'
    BY <1>6, <1>0 DEF DeleteShortcuts, Refuse, restoring, CurInv, RestorePc, Exists
  <2>6. NothingLost'
    BY <1>0, <2>l, LostFacts DEF Personal
  <2>7. TruthfulStage'
    BY <1>6, <1>0 DEF DeleteShortcuts, Refuse, restoring, TypeInv, TruthfulStage, RestorePc
  <2> QED
    BY <1>0, <2>1, <2>2, <2>3, <2>4, <2>5, <2>6, <2>7 DEF IInv
<1>7. CASE DeleteOldSystem
  <2>k. UNCHANGED at
    <3>1. \A e \in Entry : at[e] # "users"
      BY <1>7, <1>0 DEF DeleteOldSystem, SettledInv, Settled
    <3>2. at \in [Entry -> {"users", "kept", "gone"}]
      BY <1>0 DEF TypeInv
    <3> QED
      BY <1>7, <3>1, <3>2 DEF DeleteOldSystem
  <2>1. TypeInv'
    BY <1>7, <1>0 DEF DeleteOldSystem, Refuse, restoring, TypeInv, RestorePc
  <2>2. MoveInv'
    BY <1>7, <1>0 DEF DeleteOldSystem, Refuse, restoring, MoveInv, RestorePc
  <2>3. SettledInv'
    BY <1>7, <1>0 DEF DeleteOldSystem, Refuse, restoring, SettledInv, Settled, RestorePc
  <2>4. StackInv'
    BY <1>7, <1>0 DEF DeleteOldSystem, Refuse, restoring, StackInv, RestorePc
  <2>5. CurInv'
    BY <1>7, <1>0 DEF DeleteOldSystem, Refuse, restoring, CurInv, RestorePc, Exists
  <2>6. NothingLost'
    BY <1>0, <2>k, LostFacts
  <2>7. TruthfulStage'
    BY <1>7, <1>0 DEF DeleteOldSystem, Refuse, restoring, TypeInv, TruthfulStage, RestorePc
  <2> QED
    BY <1>0, <2>1, <2>2, <2>3, <2>4, <2>5, <2>6, <2>7 DEF IInv
<1>8. CASE FirstLogon
  <2>1. TypeInv'
    BY <1>8, <1>0 DEF FirstLogon, disk, preserving, restoring, TypeInv, RestorePc
  <2>2. MoveInv'
    BY <1>8, <1>0 DEF FirstLogon, disk, preserving, restoring, MoveInv, RestorePc
  <2>3. SettledInv'
    BY <1>8, <1>0 DEF FirstLogon, disk, preserving, restoring, SettledInv, Settled, RestorePc
  <2>4. StackInv'
    BY <1>8, <1>0 DEF FirstLogon, disk, preserving, restoring, StackInv, RestorePc
  <2>5. CurInv'
    BY <1>8, <1>0 DEF FirstLogon, disk, preserving, restoring, CurInv, RestorePc, Exists
  <2>6. NothingLost'
    BY <1>8, <1>0, LostFacts DEF FirstLogon, disk, preserving, restoring
  <2>7. TruthfulStage'
    BY <1>8, <1>0 DEF FirstLogon, disk, preserving, restoring, TypeInv, TruthfulStage, RestorePc
  <2> QED
    BY <1>0, <2>1, <2>2, <2>3, <2>4, <2>5, <2>6, <2>7 DEF IInv
<1>9. CASE StartRestore
  <2>1. TypeInv'
    BY <1>9, <1>0 DEF StartRestore, preserving, TypeInv, RestorePc
  <2>2. MoveInv'
    BY <1>9, <1>0 DEF StartRestore, preserving, MoveInv, RestorePc
  <2>3. SettledInv'
    BY <1>9, <1>0 DEF StartRestore, preserving, SettledInv, Settled, RestorePc
  <2>4. StackInv'
    BY <1>9, <1>0 DEF StartRestore, preserving, StackInv, RestorePc
  <2>5. CurInv'
    BY <1>9, <1>0 DEF StartRestore, preserving, CurInv, RestorePc, Exists
  <2>6. NothingLost'
    BY <1>9, <1>0, LostFacts DEF StartRestore, preserving
  <2>7. TruthfulStage'
    <3>1. Settled /\ UNCHANGED <<at, stage, oldSystem, root>>
      BY <1>9 DEF StartRestore, Settled, preserving
    <3>2. pc' \in {"refused", "restored"} => ~root \/ keptDirs = {}
      BY <1>9 DEF StartRestore
    <3> QED
      BY <1>0, <3>1, <3>2, EmptyFacts DEF TruthfulStage
  <2> QED
    BY <1>0, <2>1, <2>2, <2>3, <2>4, <2>5, <2>6, <2>7 DEF IInv
<1>10. CASE VisitProfile
  <2>1. TypeInv'
    BY <1>10, <1>0 DEF VisitProfile, KeptFolders, disk, preserving, TypeInv, RestorePc
  <2>2. MoveInv'
    BY <1>10, <1>0 DEF VisitProfile, disk, preserving, MoveInv, RestorePc
  <2>3. SettledInv'
    BY <1>10, <1>0 DEF VisitProfile, disk, preserving, SettledInv, Settled, RestorePc
  <2>4. StackInv'
    BY <1>10, <1>0 DEF VisitProfile, disk, preserving, StackInv, RestorePc
  <2>5. CurInv'
    BY <1>10, <1>0 DEF VisitProfile, disk, preserving, CurInv, RestorePc, Exists
  <2>6. NothingLost'
    BY <1>10, <1>0, LostFacts DEF VisitProfile, disk, preserving
  <2>7. TruthfulStage'
    BY <1>10, <1>0 DEF VisitProfile, disk, preserving, TypeInv, TruthfulStage, RestorePc
  <2> QED
    BY <1>0, <2>1, <2>2, <2>3, <2>4, <2>5, <2>6, <2>7 DEF IInv
<1>11. CASE VisitFolder
  <2>1. TypeInv'
    BY <1>11, <1>0 DEF VisitFolder, preserving, TypeInv, RestorePc
  <2>2. MoveInv'
    BY <1>11, <1>0 DEF VisitFolder, preserving, MoveInv, RestorePc
  <2>3. SettledInv'
    BY <1>11, <1>0 DEF VisitFolder, preserving, SettledInv, Settled, RestorePc
  <2>4. StackInv'
    <3> DEFINE f == Earliest(folders, Sorted)
    <3>1. f \in Folders /\ f \in Entry
      <4>1. folders \subseteq Entry /\ folders \subseteq Folders /\ folders # {}
        BY <1>11, <1>0 DEF TypeInv, Folders, VisitFolder
      <4> QED
        BY <4>1, OrderFacts
    <3>2. stack' = <<Frame(f, KnownFolder(f))>>
      BY <1>11 DEF VisitFolder
    <3> HIDE DEF f
    <3>3. Frame(f, KnownFolder(f)) \in Frames /\ FrameOk(Frame(f, KnownFolder(f)))
      BY <3>1, KnownFolderFacts, FrameFacts DEF Folders
    <3>4. /\ stack' \in Seq(Frames) /\ stack' # <<>> /\ Len(stack') = 1
          /\ stack'[1] = Frame(f, KnownFolder(f))
      BY <3>2, <3>3
    <3> QED
      BY <3>3, <3>4 DEF StackInv
  <2>5. CurInv'
    BY <1>11, <1>0 DEF VisitFolder, preserving, CurInv, RestorePc, Exists
  <2>6. NothingLost'
    BY <1>11, <1>0, LostFacts DEF VisitFolder, preserving
  <2>7. TruthfulStage'
    BY <1>11, <1>0 DEF VisitFolder, preserving, TypeInv, TruthfulStage, RestorePc
  <2> QED
    BY <1>0, <2>1, <2>2, <2>3, <2>4, <2>5, <2>6, <2>7 DEF IInv
<1>12. CASE MergeEntry /\ DiscardMetadata(Upcoming)
  <2>t. /\ pc = "merge" /\ stack # <<>> /\ Top.todo # {} /\ Upcoming \in Entry
    <3>1. pc = "merge" /\ Top.todo # {} /\ stack # <<>>
      BY <1>12, <1>0 DEF MergeEntry, StackInv
    <3> QED
      BY <1>0, <3>1, TopFacts
  <2>g. /\ SettledInv' /\ \A e \in Entry : e # Upcoming => at'[e] = at[e]
        /\ Kind[Upcoming] = "ini"
    <3>1. /\ Kind[Upcoming] = "ini" /\ at' = [at EXCEPT ![Upcoming] = "gone"]
          /\ UNCHANGED <<root, keptDirs>> /\ Settled
      BY <1>12, <2>t DEF MergeEntry, DiscardMetadata, Settled, RestorePc
    <3>2. Children(Upcoming) = {}
      BY <2>t, <3>1, LeafGone
    <3> QED
      BY <1>0, <2>t, <3>1, <3>2, GoneFacts
  <2>1. TypeInv'
    BY <1>12, <1>0 DEF MergeEntry, DiscardMetadata, preserving, TypeInv, RestorePc
  <2>2. MoveInv'
    BY <1>12, <1>0 DEF MergeEntry, DiscardMetadata, preserving, MoveInv, RestorePc
  <2>3. SettledInv'
    BY <2>g
  <2>4. StackInv'
    BY <1>12, <1>0, <2>t, AdvanceFacts DEF MergeEntry, DiscardMetadata, StackInv
  <2>5. CurInv'
    BY <1>12, <1>0 DEF MergeEntry, DiscardMetadata, preserving, CurInv, RestorePc, Exists
  <2>6. NothingLost'
    BY <1>0, <2>g, LostFacts DEF Personal
  <2>7. TruthfulStage'
    BY <1>12, <1>0 DEF MergeEntry, DiscardMetadata, preserving, TypeInv, TruthfulStage, RestorePc
  <2> QED
    BY <1>0, <2>1, <2>2, <2>3, <2>4, <2>5, <2>6, <2>7 DEF IInv
<1>13. CASE MergeEntry /\ EnterDirectory(Upcoming)
  <2>t. /\ pc = "merge" /\ stack # <<>> /\ Top.todo # {} /\ Upcoming \in Entry
    <3>1. pc = "merge" /\ Top.todo # {} /\ stack # <<>>
      BY <1>13, <1>0 DEF MergeEntry, StackInv
    <3> QED
      BY <1>0, <3>1, TopFacts
  <2>1. TypeInv'
    BY <1>13, <1>0 DEF MergeEntry, EnterDirectory, preserving, TypeInv, RestorePc
  <2>2. MoveInv'
    BY <1>13, <1>0 DEF MergeEntry, EnterDirectory, preserving, MoveInv, RestorePc
  <2>3. SettledInv'
    BY <1>13, <1>0 DEF MergeEntry, EnterDirectory, preserving, SettledInv, Settled, RestorePc
  <2>4. StackInv'
    <3> DEFINE plain == Under(Top.place, Plain(Last(Upcoming.path)))
               into  == IF Merges(plain) THEN plain ELSE Target(Top.place, Upcoming)
    <3>1. /\ Kind[Upcoming] = "dir" /\ (Merges(plain) \/ Allocatable(Top.place, Upcoming))
          /\ stack' = Append(Advance, Frame(Upcoming, into))
      BY <1>13 DEF EnterDirectory
    <3>2. Matches(into, Upcoming)
      BY <1>0, <2>t, <3>1, ChoiceFacts
    <3> HIDE DEF into
    <3>3. Frame(Upcoming, into) \in Frames /\ FrameOk(Frame(Upcoming, into))
      BY <2>t, <3>1, <3>2, FrameFacts
    <3> QED
      BY <1>0, <2>t, <3>1, <3>3, AdvanceFacts, PushFacts DEF StackInv
  <2>5. CurInv'
    BY <1>13, <1>0 DEF MergeEntry, EnterDirectory, preserving, CurInv, RestorePc, Exists
  <2>6. NothingLost'
    BY <1>13, <1>0, LostFacts DEF MergeEntry, EnterDirectory, preserving
  <2>7. TruthfulStage'
    BY <1>13, <1>0 DEF MergeEntry, EnterDirectory, preserving, TypeInv, TruthfulStage, RestorePc
  <2> QED
    BY <1>0, <2>1, <2>2, <2>3, <2>4, <2>5, <2>6, <2>7 DEF IInv
<1>14. CASE MergeEntry /\ ChoosePlace(Upcoming)
  <2>t. /\ pc = "merge" /\ stack # <<>> /\ Top.todo # {} /\ Upcoming \in Entry
    <3>1. pc = "merge" /\ Top.todo # {} /\ stack # <<>>
      BY <1>14, <1>0 DEF MergeEntry, StackInv
    <3> QED
      BY <1>0, <3>1, TopFacts
  <2>1. TypeInv'
    BY <1>14, <1>0 DEF MergeEntry, ChoosePlace, preserving, TypeInv, RestorePc
  <2>2. MoveInv'
    BY <1>14, <1>0 DEF MergeEntry, ChoosePlace, preserving, MoveInv, RestorePc
  <2>3. SettledInv'
    BY <1>14, <1>0 DEF MergeEntry, ChoosePlace, preserving, SettledInv, Settled, RestorePc
  <2>4. StackInv'
    BY <1>14, <1>0, <2>t, AdvanceFacts DEF MergeEntry, ChoosePlace, StackInv
  <2>5. CurInv'
    <3>1. /\ pc' = "open" /\ cur' = [entry |-> Upcoming, place |-> Target(Top.place, Upcoming)]
          /\ Kind[Upcoming] \in {"file", "link"} /\ Allocatable(Top.place, Upcoming)
      BY <1>14 DEF ChoosePlace
    <3>2. PlacedRight(Target(Top.place, Upcoming), Upcoming)
      BY <1>0, <2>t, <3>1, ChoiceFacts
    <3>3. cur'.entry = Upcoming /\ cur'.place = Target(Top.place, Upcoming)
      BY <3>1
    <3> QED
      BY <2>t, <3>1, <3>2, <3>3 DEF CurInv, Personal
  <2>6. NothingLost'
    BY <1>14, <1>0, LostFacts DEF MergeEntry, ChoosePlace, preserving
  <2>7. TruthfulStage'
    BY <1>14, <1>0 DEF MergeEntry, ChoosePlace, preserving, TypeInv, TruthfulStage, RestorePc
  <2> QED
    BY <1>0, <2>1, <2>2, <2>3, <2>4, <2>5, <2>6, <2>7 DEF IInv
<1>15. CASE OpenPlace
  <2>g. /\ SettledInv' /\ \A e \in Entry : e # cur.entry \/ pc' = "copy" => at'[e] = at[e]
    <3>a. CASE UNCHANGED at
      BY <1>15, <1>0, <3>a DEF OpenPlace, SettledInv, Settled, RestorePc
    <3>0. CASE at' = [at EXCEPT ![cur.entry] = "gone"] /\ pc' = "merge"
      <4>1. /\ cur.entry \in Entry /\ Kind[cur.entry] \in {"file", "link"}
            /\ UNCHANGED <<root, keptDirs>> /\ Settled
        BY <1>15, <1>0, PlaceFacts DEF OpenPlace, Settled, RestorePc
      <4>2. Children(cur.entry) = {}
        BY <4>1, LeafGone
      <4> QED
        BY <1>0, <3>0, <4>1, <4>2, GoneFacts
    <3> QED
      BY <1>15, <3>a, <3>0 DEF OpenPlace
  <2>p. PICK content : dest' = Put(cur.place, content)
        /\ \/ content = Copy(cur.entry) /\ pc' = "merge"
           \/ content = Torn /\ pc' = "copy" /\ UNCHANGED <<at, cur>>
    BY <1>15 DEF OpenPlace
  <2>1. TypeInv'
    BY <1>15, <1>0 DEF OpenPlace, preserving, TypeInv, RestorePc
  <2>2. MoveInv'
    BY <1>15, <1>0 DEF OpenPlace, preserving, MoveInv, RestorePc
  <2>3. SettledInv'
    BY <2>g
  <2>4. StackInv'
    BY <1>15, <1>0 DEF OpenPlace, preserving, StackInv, RestorePc
  <2>5. CurInv'
    BY <1>15, <1>0, <2>p, PutFacts DEF OpenPlace, CurInv, Exists
  <2>6. NothingLost'
    <3>1. CASE pc' = "copy"
      BY <1>0, <2>g, <3>1, LostFacts DEF Personal
    <3>2. CASE content = Copy(cur.entry)
      <4>1. PlacedRight(cur.place, cur.entry)
        BY <1>15, <1>0 DEF OpenPlace, CurInv
      <4>2. cur.place \in DOMAIN dest' /\ dest'[cur.place] = Copy(cur.entry)
        BY <2>p, <3>2, PutFacts DEF Exists
      <4>3. \A e \in Personal : e = cur.entry => (Restored(e))'
        BY <4>1, <4>2 DEF Restored
      <4> QED
        BY <1>0, <2>g, <4>3, LostFacts DEF Personal
    <3> QED
      BY <2>p, <3>1, <3>2
  <2>7. TruthfulStage'
    BY <1>15, <1>0 DEF OpenPlace, preserving, TypeInv, TruthfulStage, RestorePc
  <2> QED
    BY <1>0, <2>1, <2>2, <2>3, <2>4, <2>5, <2>6, <2>7 DEF IInv
<1>16. CASE CopyFile
  <2>c. \/ /\ dest' = Put(cur.place, Copy(cur.entry)) /\ pc' = "unlink"
           /\ UNCHANGED <<profiles, folders, stack, cur>>
        \/ pc' = "aborted" /\ stack' = <<>>
    BY <1>16 DEF CopyFile, Abort, Forget, restoring
  <2>1. TypeInv'
    BY <1>16, <1>0 DEF CopyFile, preserving, restoring, Abort, Forget, TypeInv, RestorePc
  <2>2. MoveInv'
    BY <1>16, <1>0 DEF CopyFile, preserving, restoring, Abort, Forget, MoveInv, RestorePc
  <2>3. SettledInv'
    BY <1>16, <1>0 DEF CopyFile, preserving, restoring, Abort, Forget, SettledInv, Settled,
        RestorePc
  <2>4. StackInv'
    <3>1. stack' = <<>> => stack' \in Seq(Frames) /\ Len(stack') = 0
      OBVIOUS
    <3>2. pc = "copy"
      BY <1>16 DEF CopyFile
    <3> QED
      BY <1>0, <2>c, <3>1, <3>2 DEF StackInv
  <2>5. CurInv'
    BY <1>16, <1>0, <2>c, PutFacts DEF CopyFile, CurInv, Exists
  <2>6. NothingLost'
    BY <1>16, <1>0, LostFacts DEF CopyFile, preserving, restoring, Abort, Forget
  <2>7. TruthfulStage'
    BY <1>16, <1>0 DEF CopyFile, preserving, restoring, Abort, Forget, TypeInv, TruthfulStage,
        RestorePc
  <2> QED
    BY <1>0, <2>1, <2>2, <2>3, <2>4, <2>5, <2>6, <2>7 DEF IInv
<1>17. CASE UnlinkSource
  <2>g. SettledInv' /\ \A e \in Entry : e # cur.entry => at'[e] = at[e]
    <3>0. at' = [at EXCEPT ![cur.entry] = "gone"]
      BY <1>17 DEF UnlinkSource
    <3>1. /\ cur.entry \in Entry /\ Kind[cur.entry] \in {"file", "link"}
          /\ UNCHANGED <<root, keptDirs>> /\ Settled
      BY <1>17, <1>0, PlaceFacts DEF UnlinkSource, Settled, RestorePc
    <3>2. Children(cur.entry) = {}
      BY <3>1, LeafGone
    <3> QED
      BY <1>0, <3>0, <3>1, <3>2, GoneFacts
  <2>1. TypeInv'
    BY <1>17, <1>0 DEF UnlinkSource, preserving, TypeInv, RestorePc
  <2>2. MoveInv'
    BY <1>17, <1>0 DEF UnlinkSource, preserving, MoveInv, RestorePc
  <2>3. SettledInv'
    BY <2>g
  <2>4. StackInv'
    BY <1>17, <1>0 DEF UnlinkSource, preserving, StackInv, RestorePc
  <2>5. CurInv'
    BY <1>17, <1>0 DEF UnlinkSource, preserving, CurInv, RestorePc, Exists
  <2>6. NothingLost'
    <3>1. \A e \in Personal : e = cur.entry => (Restored(e))'
      BY <1>17, <1>0 DEF UnlinkSource, CurInv, Restored, Exists
    <3> QED
      BY <1>0, <2>g, <3>1, LostFacts DEF Personal
  <2>7. TruthfulStage'
    BY <1>17, <1>0 DEF UnlinkSource, preserving, TypeInv, TruthfulStage, RestorePc
  <2> QED
    BY <1>0, <2>1, <2>2, <2>3, <2>4, <2>5, <2>6, <2>7 DEF IInv
<1>18. CASE LeaveDirectory
  <2>t. /\ pc = "merge" /\ stack # <<>> /\ Len(stack) \in Nat \ {0} /\ Top.dir \in Entry
        /\ Kind[Top.dir] \in {"folder", "dir"}
    <3>1. pc = "merge" /\ stack # <<>>
      BY <1>18, <1>0 DEF LeaveDirectory, StackInv
    <3> QED
      BY <1>0, <3>1, TopFacts DEF FrameOk
  <2>g. SettledInv' /\ \A e \in Entry : e # Top.dir => at'[e] = at[e]
    <3>1. /\ Settled /\ at' = [at EXCEPT ![Top.dir] = "gone"] /\ UNCHANGED <<root, keptDirs>>
          /\ \A c \in Children(Top.dir) : at[c] # "kept"
      BY <1>18 DEF LeaveDirectory, Settled, RestorePc, Kept
    <3> QED
      BY <1>0, <2>t, <3>1, GoneFacts
  <2>1. TypeInv'
    BY <1>18, <1>0 DEF LeaveDirectory, preserving, TypeInv, RestorePc
  <2>2. MoveInv'
    BY <1>18, <1>0 DEF LeaveDirectory, preserving, MoveInv, RestorePc
  <2>3. SettledInv'
    BY <2>g
  <2>4. StackInv'
    <3>1. stack \in Seq(Frames) /\ stack' = SubSeq(stack, 1, Len(stack) - 1)
      BY <1>18, <1>0 DEF LeaveDirectory, StackInv, Front
    <3> DEFINE n == Len(stack) - 1
    <3>a. n \in Nat /\ n <= Len(stack)
      BY <2>t
    <3>b. /\ SubSeq(stack, 1, n) \in Seq(Frames) /\ Len(SubSeq(stack, 1, n)) = n
          /\ \A i \in 1..n : SubSeq(stack, 1, n)[i] = stack[i]
      <4> HIDE DEF n
      <4> QED
        BY <3>1, <3>a
    <3>2. /\ stack' \in Seq(Frames) /\ Len(stack') = Len(stack) - 1
          /\ \A i \in 1..Len(stack') : stack'[i] = stack[i]
      BY <3>1, <3>b
    <3>3. pc' \in {"profile", "merge"} /\ (pc' = "merge" => Len(stack) # 1)
      BY <1>18 DEF LeaveDirectory
    <3>4. stack' = <<>> => Len(stack') = 0
      OBVIOUS
    <3> QED
      BY <1>0, <2>t, <3>2, <3>3, <3>4 DEF StackInv
  <2>5. CurInv'
    BY <1>18, <1>0 DEF LeaveDirectory, preserving, CurInv, RestorePc, Exists
  <2>6. NothingLost'
    BY <1>0, <2>g, <2>t, LostFacts DEF Personal
  <2>7. TruthfulStage'
    BY <1>18, <1>0 DEF LeaveDirectory, preserving, TypeInv, TruthfulStage, RestorePc
  <2> QED
    BY <1>0, <2>1, <2>2, <2>3, <2>4, <2>5, <2>6, <2>7 DEF IInv
<1>19. CASE LeaveProfile
  <2>1. TypeInv'
    BY <1>19, <1>0 DEF LeaveProfile, preserving, TypeInv, RestorePc
  <2>2. MoveInv'
    BY <1>19, <1>0 DEF LeaveProfile, preserving, MoveInv, RestorePc
  <2>3. SettledInv'
    <3>1. /\ pc = "profile" /\ KeptFolders(Profile) = {} /\ keptDirs' = keptDirs \ {Profile}
          /\ UNCHANGED <<at, root>> /\ Settled
      BY <1>19 DEF LeaveProfile, Settled, RestorePc
    <3>2. ASSUME NEW e \in Entry, at[e] = "kept" PROVE e.owner # Profile
      <4>1. PICK f \in Folders : Below(f, e)
        BY FolderFacts
      <4>2. at[f] = "kept" /\ f.owner = e.owner
        BY <1>0, <3>1, <3>2, <4>1 DEF SettledInv, Folders, Below
      <4> QED
        BY <3>1, <4>2 DEF KeptFolders
    <3> QED
      BY <1>0, <3>1, <3>2 DEF SettledInv
  <2>4. StackInv'
    BY <1>19, <1>0 DEF LeaveProfile, preserving, StackInv, RestorePc
  <2>5. CurInv'
    BY <1>19, <1>0 DEF LeaveProfile, preserving, CurInv, RestorePc, Exists
  <2>6. NothingLost'
    BY <1>19, <1>0, LostFacts DEF LeaveProfile, preserving
  <2>7. TruthfulStage'
    BY <1>19, <1>0 DEF LeaveProfile, preserving, TypeInv, TruthfulStage, RestorePc
  <2> QED
    BY <1>0, <2>1, <2>2, <2>3, <2>4, <2>5, <2>6, <2>7 DEF IInv
<1>20. CASE RemoveReadme
  <2>1. TypeInv'
    BY <1>20, <1>0 DEF RemoveReadme, preserving, restoring, TypeInv, RestorePc
  <2>2. MoveInv'
    BY <1>20, <1>0 DEF RemoveReadme, preserving, restoring, MoveInv, RestorePc
  <2>3. SettledInv'
    BY <1>20, <1>0 DEF RemoveReadme, preserving, restoring, SettledInv, Settled, RestorePc
  <2>4. StackInv'
    BY <1>20, <1>0 DEF RemoveReadme, preserving, restoring, StackInv, RestorePc
  <2>5. CurInv'
    BY <1>20, <1>0 DEF RemoveReadme, preserving, restoring, CurInv, RestorePc, Exists
  <2>6. NothingLost'
    BY <1>20, <1>0, LostFacts DEF RemoveReadme, preserving, restoring
  <2>7. TruthfulStage'
    BY <1>20, <1>0 DEF RemoveReadme, preserving, restoring, TypeInv, TruthfulStage, RestorePc
  <2> QED
    BY <1>0, <2>1, <2>2, <2>3, <2>4, <2>5, <2>6, <2>7 DEF IInv
<1>21. CASE RemoveRoot
  <2>1. TypeInv'
    BY <1>21, <1>0 DEF RemoveRoot, preserving, restoring, TypeInv, RestorePc
  <2>2. MoveInv'
    BY <1>21, <1>0 DEF RemoveRoot, preserving, restoring, MoveInv, RestorePc
  <2>3. SettledInv'
    BY <1>21, <1>0 DEF RemoveRoot, preserving, restoring, SettledInv, Settled, RestorePc
  <2>4. StackInv'
    BY <1>21, <1>0 DEF RemoveRoot, preserving, restoring, StackInv, RestorePc
  <2>5. CurInv'
    BY <1>21, <1>0 DEF RemoveRoot, preserving, restoring, CurInv, RestorePc, Exists
  <2>6. NothingLost'
    BY <1>21, <1>0, LostFacts DEF RemoveRoot, preserving, restoring
  <2>7. TruthfulStage'
    <3>1. Settled /\ keptDirs = {} /\ stage = "none" /\ UNCHANGED <<at, stage, oldSystem>>
      BY <1>21, <1>0 DEF RemoveRoot, TypeInv, Settled, RestorePc, preserving
    <3> QED
      BY <1>0, <3>1, EmptyFacts DEF TruthfulStage
  <2> QED
    BY <1>0, <2>1, <2>2, <2>3, <2>4, <2>5, <2>6, <2>7 DEF IInv
<1>22. CASE RestoreFails
  <2>1. TypeInv'
    BY <1>22, <1>0 DEF RestoreFails, disk, preserving, Abort, Forget, TypeInv, RestorePc
  <2>2. MoveInv'
    BY <1>22, <1>0 DEF RestoreFails, disk, preserving, Abort, Forget, MoveInv, RestorePc
  <2>3. SettledInv'
    BY <1>22, <1>0 DEF RestoreFails, disk, preserving, Abort, Forget, SettledInv, Settled,
        RestorePc
  <2>4. StackInv'
    BY <1>22, <1>0 DEF RestoreFails, disk, preserving, Abort, Forget, StackInv, RestorePc
  <2>5. CurInv'
    BY <1>22, <1>0 DEF RestoreFails, disk, preserving, Abort, Forget, CurInv, RestorePc, Exists
  <2>6. NothingLost'
    BY <1>22, <1>0, LostFacts DEF RestoreFails, disk, preserving, Abort, Forget
  <2>7. TruthfulStage'
    BY <1>22, <1>0 DEF RestoreFails, disk, preserving, Abort, Forget, TypeInv, TruthfulStage,
        RestorePc
  <2> QED
    BY <1>0, <2>1, <2>2, <2>3, <2>4, <2>5, <2>6, <2>7 DEF IInv
<1>23. CASE PowerLoss
  <2>1. TypeInv'
    BY <1>23, <1>0 DEF PowerLoss, disk, preserving, Abort, Forget, TypeInv, RestorePc
  <2>2. MoveInv'
    BY <1>23, <1>0 DEF PowerLoss, disk, preserving, Abort, Forget, MoveInv, RestorePc
  <2>3. SettledInv'
    BY <1>23, <1>0 DEF PowerLoss, disk, preserving, Abort, Forget, SettledInv, Settled, RestorePc
  <2>4. StackInv'
    <3>1. stack' = <<>> => stack' \in Seq(Frames) /\ Len(stack') = 0
      OBVIOUS
    <3>2. stack' = <<>> /\ pc' \in {"dead", "aborted"}
      BY <1>23 DEF PowerLoss, Abort, Forget
    <3> QED
      BY <3>1, <3>2 DEF StackInv
  <2>5. CurInv'
    BY <1>23, <1>0 DEF PowerLoss, disk, preserving, Abort, Forget, CurInv, RestorePc, Exists
  <2>6. NothingLost'
    BY <1>23, <1>0, LostFacts DEF PowerLoss, disk, preserving, Abort, Forget
  <2>7. TruthfulStage'
    BY <1>23, <1>0 DEF PowerLoss, disk, preserving, Abort, Forget, TypeInv, TruthfulStage,
        RestorePc
  <2> QED
    BY <1>0, <2>1, <2>2, <2>3, <2>4, <2>5, <2>6, <2>7 DEF IInv
<1>24. CASE UserCreates
  <2>1. TypeInv'
    BY <1>24, <1>0 DEF UserCreates, preserving, restoring, TypeInv, RestorePc
  <2>2. MoveInv'
    BY <1>24, <1>0 DEF UserCreates, preserving, restoring, MoveInv, RestorePc
  <2>3. SettledInv'
    BY <1>24, <1>0 DEF UserCreates, preserving, restoring, SettledInv, Settled, RestorePc
  <2>4. StackInv'
    BY <1>24, <1>0 DEF UserCreates, preserving, restoring, StackInv, RestorePc
  <2>5. CurInv'
    <3>1. PICK p : ~Exists(p) /\ dest' = Put(p, New)
      BY <1>24 DEF UserCreates
    <3> QED
      BY <1>24, <1>0, <3>1, PutFacts DEF UserCreates, restoring, CurInv, Exists
  <2>6. NothingLost'
    BY <1>24, <1>0, LostFacts DEF UserCreates, preserving, restoring
  <2>7. TruthfulStage'
    BY <1>24, <1>0 DEF UserCreates, preserving, restoring, TypeInv, TruthfulStage, RestorePc
  <2> QED
    BY <1>0, <2>1, <2>2, <2>3, <2>4, <2>5, <2>6, <2>7 DEF IInv
<1>25. CASE UNCHANGED vars
  BY <1>0, <1>25 DEF vars, IInv, TypeInv, MoveInv, SettledInv, Settled, StackInv, CurInv, Exists,
      NothingLost, Restored, TruthfulStage
<1> QED
  BY <1>1, <1>2, <1>3, <1>4, <1>5, <1>6, <1>7, <1>8, <1>9, <1>10, <1>11, <1>12, <1>13, <1>14,
     <1>15, <1>16, <1>17, <1>18, <1>19, <1>20, <1>21, <1>22, <1>23, <1>24, <1>25
  DEF Next, Preserve, Restore, MergeEntry

THEOREM Invariance == Spec => []IInv
BY InitIInv, NextIInv, PTL DEF Spec

(* Every personal file is complete somewhere at every moment, through      *)
(* failing renames, the rollback, the deletion of the old system, failing  *)
(* or interrupted copies and any number of repeated restorations.          *)
THEOREM NothingLostHolds == Spec => []NothingLost
<1>1. IInv => NothingLost
  BY DEF IInv
<1> QED
  BY <1>1, Invariance, PTL

(* The stage a failed preservation reports, and a restoration that ended   *)
(* or was refused, tell the truth about where the files are.               *)
THEOREM TruthfulStageHolds == Spec => []TruthfulStage
<1>1. IInv => TruthfulStage
  BY DEF IInv
<1> QED
  BY <1>1, Invariance, PTL

(* No step overwrites or removes a file of the new profile or a complete   *)
(* copy in it.                                                             *)
THEOREM NeverOverwritesHolds == Spec => NeverOverwrites
<1>1. IInv /\ [Next]_vars => [Intact]_vars
  BY DestFacts
<1> QED
  BY <1>1, Invariance, PTL DEF Spec, NeverOverwrites, Intact





----------------------------------------------------------------------------
(* The first logons, in whose second part the restoration runs: for any    *)
(* number of faults and sweeps the receipts are true, nobody behind the    *)
(* gate sees a desktop before the files are back, and what restores them   *)
(* is not swept away.  The gate's state is FirstLogon's own.               *)

(* The worker once the root is gone, and the script after the worker.      *)
Finishing == {"unpend", "reset", "retireLogon", "release", "dropTask", "explorer", "verify"}
Ending    == {"after", "retire", "await", "decide"}

(* Conditions of the program are used as they are, so only what has more    *)
(* than two values needs a type.                                           *)
GateTypeInv ==
    /\ kept \in {"full", "stripped", "none"}
    /\ shell \in {"original", "gate"}
    /\ session \in {"booted", "first", "later"}
    /\ gatePc \in Running \cup {"none", "exited", "workerFailed"}

(* What each step knows of the preservation root.                          *)
GateRootInv ==
    /\ gatePc = "merge" => kept = "full"
    /\ gatePc = "removeRoot" => kept = "stripped"
    /\ gatePc \in Finishing \cup Ending \cup {"receipt"} => kept = "none"
    /\ session = "first" => kept = "full"
    /\ kept # "full" /\ staged => "gate" \in files

(* Which receipts a step can rely on, unless the staging was swept.        *)
GateReceiptInv ==
    /\ "completed" \in files => "gate" \in files
    /\ session = "first" \/ gatePc \in Arming => "completed" \notin files
    /\ gatePc \in Worker \cup {"workerFailed"} /\ staged => "gate" \in files
    /\ gatePc \in Finishing /\ staged => "completed" \in files
    /\ gatePc \in {"retireLogon", "release", "retire"} => shell = "original"
    /\ gatePc = "release" => ~autologon
    /\ gatePc \in {"dropTask", "explorer", "verify"} /\ staged => "released" \in files

(* The first session only arms the gate.  The built-in Administrator's     *)
(* gate is covered by the transition marker, or else no later attempt can  *)
(* begin and the files are still preserved.                                *)
GateTransitionInv ==
    /\ session = "booted" => gatePc = "none"
    /\ session = "first" => gatePc \in Arming \cup {"launch", "begin", "catch", "exited"}
    /\ session = "first" /\ gatePc \in {"launch", "begin"} => "gate" \notin files
    /\ session = "first" /\ gatePc \in {"launch", "begin", "capture", "setShell",
                                             "clearStale", "mark"}
          => ~task
    /\ builtin /\ gatePc \in Arming => session = "first"
    /\ builtin /\ gatePc = "setShell" => "gate" \in files
    /\ builtin /\ gatePc = "register" => "transition" \in files
    /\ builtin /\ shell = "gate" /\ "transition" \notin files =>
          /\ kept = "full" /\ ~task
          /\ session = "later" => gatePc \in {"none", "exited"}

GateIInv ==
    /\ GateTypeInv /\ GateRootInv /\ GateReceiptInv /\ GateTransitionInv
    /\ ReceiptsTruthful /\ MachineryKept

----------------------------------------------------------------------------

(* At the first logon nothing has been armed, merged or recorded.          *)
LEMMA InitGate == GateInit => GateIInv
  BY DEF GateInit, GateIInv, GateTypeInv, GateRootInv, GateReceiptInv, GateTransitionInv,
      ReceiptsTruthful, MachineryKept, Arming, Worker, Script, Running, Finishing, Ending

(* Every step of the scripts, the worker, the window, the sweep, Winlogon  *)
(* and the power switch preserves the invariant.                           *)
LEMMA NextGate == GateIInv /\ [GateNext]_gateVars => GateIInv'
<1> SUFFICES ASSUME GateIInv, [GateNext]_gateVars PROVE GateIInv'
  OBVIOUS
<1> USE DEF GateIInv, Arming, Worker, Script, Running, Finishing, Ending, world, staging
<1>1. CASE Launch
  <2>1. GateTypeInv'
    BY <1>1 DEF Launch, Step, Quiet, GateTypeInv
  <2>2. GateRootInv'
    BY <1>1 DEF Launch, Step, Quiet, GateTypeInv, GateRootInv, GateReceiptInv, GateTransitionInv,
        ReceiptsTruthful
  <2>3. GateReceiptInv'
    BY <1>1 DEF Launch, Step, Quiet, GateTypeInv, GateRootInv, GateReceiptInv, GateTransitionInv,
        ReceiptsTruthful
  <2>4. GateTransitionInv'
    BY <1>1 DEF Launch, Step, Quiet, GateTypeInv, GateRootInv, GateReceiptInv, GateTransitionInv,
        ReceiptsTruthful, MachineryKept
  <2>5. ReceiptsTruthful'
    BY <1>1 DEF Launch, Step, Quiet, GateTypeInv, GateRootInv, GateReceiptInv, GateTransitionInv,
        ReceiptsTruthful
  <2>6. MachineryKept'
    BY <1>1 DEF Launch, Step, Quiet, GateTypeInv, GateRootInv, GateReceiptInv, GateTransitionInv,
        MachineryKept
  <2> QED
    BY <2>1, <2>2, <2>3, <2>4, <2>5, <2>6 DEF GateIInv
<1>2. CASE Begin
  <2>1. GateTypeInv'
    BY <1>2 DEF Begin, Step, Quiet, GateTypeInv
  <2>2. GateRootInv'
    BY <1>2 DEF Begin, Step, Quiet, GateTypeInv, GateRootInv, GateReceiptInv, GateTransitionInv,
        ReceiptsTruthful
  <2>3. GateReceiptInv'
    BY <1>2 DEF Begin, Step, Quiet, GateTypeInv, GateRootInv, GateReceiptInv, GateTransitionInv,
        ReceiptsTruthful
  <2>4. GateTransitionInv'
    BY <1>2 DEF Begin, Step, Quiet, GateTypeInv, GateRootInv, GateReceiptInv, GateTransitionInv,
        ReceiptsTruthful, MachineryKept
  <2>5. ReceiptsTruthful'
    BY <1>2 DEF Begin, Step, Quiet, GateTypeInv, GateRootInv, GateReceiptInv, GateTransitionInv,
        ReceiptsTruthful
  <2>6. MachineryKept'
    BY <1>2 DEF Begin, Step, Quiet, GateTypeInv, GateRootInv, GateReceiptInv, GateTransitionInv,
        MachineryKept
  <2> QED
    BY <2>1, <2>2, <2>3, <2>4, <2>5, <2>6 DEF GateIInv
<1>3. CASE CaptureShell
  <2>1. GateTypeInv'
    BY <1>3 DEF CaptureShell, Step, Quiet, GateTypeInv
  <2>2. GateRootInv'
    BY <1>3 DEF CaptureShell, Step, Quiet, GateTypeInv, GateRootInv, GateReceiptInv,
        GateTransitionInv, ReceiptsTruthful
  <2>3. GateReceiptInv'
    BY <1>3 DEF CaptureShell, Step, Quiet, GateTypeInv, GateRootInv, GateReceiptInv,
        GateTransitionInv, ReceiptsTruthful
  <2>4. GateTransitionInv'
    BY <1>3 DEF CaptureShell, Step, Quiet, GateTypeInv, GateRootInv, GateReceiptInv,
        GateTransitionInv, ReceiptsTruthful, MachineryKept
  <2>5. ReceiptsTruthful'
    BY <1>3 DEF CaptureShell, Step, Quiet, GateTypeInv, GateRootInv, GateReceiptInv,
        GateTransitionInv, ReceiptsTruthful
  <2>6. MachineryKept'
    BY <1>3 DEF CaptureShell, Step, Quiet, GateTypeInv, GateRootInv, GateReceiptInv,
        GateTransitionInv, MachineryKept
  <2> QED
    BY <2>1, <2>2, <2>3, <2>4, <2>5, <2>6 DEF GateIInv
<1>4. CASE SetShell
  <2>1. GateTypeInv'
    BY <1>4 DEF SetShell, Step, Quiet, GateTypeInv
  <2>2. GateRootInv'
    BY <1>4 DEF SetShell, Step, Quiet, GateTypeInv, GateRootInv, GateReceiptInv,
        GateTransitionInv, ReceiptsTruthful
  <2>3. GateReceiptInv'
    BY <1>4 DEF SetShell, Step, Quiet, GateTypeInv, GateRootInv, GateReceiptInv,
        GateTransitionInv, ReceiptsTruthful
  <2>4. GateTransitionInv'
    BY <1>4 DEF SetShell, Step, Quiet, GateTypeInv, GateRootInv, GateReceiptInv,
        GateTransitionInv, ReceiptsTruthful, MachineryKept
  <2>5. ReceiptsTruthful'
    BY <1>4 DEF SetShell, Step, Quiet, GateTypeInv, GateRootInv, GateReceiptInv,
        GateTransitionInv, ReceiptsTruthful
  <2>6. MachineryKept'
    BY <1>4 DEF SetShell, Step, Quiet, GateTypeInv, GateRootInv, GateReceiptInv,
        GateTransitionInv, MachineryKept
  <2> QED
    BY <2>1, <2>2, <2>3, <2>4, <2>5, <2>6 DEF GateIInv
<1>5. CASE ClearStale
  <2>1. GateTypeInv'
    BY <1>5 DEF ClearStale, Step, Quiet, GateTypeInv
  <2>2. GateRootInv'
    BY <1>5 DEF ClearStale, Step, Quiet, GateTypeInv, GateRootInv, GateReceiptInv,
        GateTransitionInv, ReceiptsTruthful
  <2>3. GateReceiptInv'
    BY <1>5 DEF ClearStale, Step, Quiet, GateTypeInv, GateRootInv, GateReceiptInv,
        GateTransitionInv, ReceiptsTruthful
  <2>4. GateTransitionInv'
    BY <1>5 DEF ClearStale, Step, Quiet, GateTypeInv, GateRootInv, GateReceiptInv,
        GateTransitionInv, ReceiptsTruthful, MachineryKept
  <2>5. ReceiptsTruthful'
    BY <1>5 DEF ClearStale, Step, Quiet, GateTypeInv, GateRootInv, GateReceiptInv,
        GateTransitionInv, ReceiptsTruthful
  <2>6. MachineryKept'
    BY <1>5 DEF ClearStale, Step, Quiet, GateTypeInv, GateRootInv, GateReceiptInv,
        GateTransitionInv, MachineryKept
  <2> QED
    BY <2>1, <2>2, <2>3, <2>4, <2>5, <2>6 DEF GateIInv
<1>6. CASE MarkTransition
  <2>1. GateTypeInv'
    BY <1>6 DEF MarkTransition, Step, Quiet, GateTypeInv
  <2>2. GateRootInv'
    BY <1>6 DEF MarkTransition, Step, Quiet, GateTypeInv, GateRootInv, GateReceiptInv,
        GateTransitionInv, ReceiptsTruthful
  <2>3. GateReceiptInv'
    BY <1>6 DEF MarkTransition, Step, Quiet, GateTypeInv, GateRootInv, GateReceiptInv,
        GateTransitionInv, ReceiptsTruthful
  <2>4. GateTransitionInv'
    BY <1>6 DEF MarkTransition, Step, Quiet, GateTypeInv, GateRootInv, GateReceiptInv,
        GateTransitionInv, ReceiptsTruthful, MachineryKept
  <2>5. ReceiptsTruthful'
    BY <1>6 DEF MarkTransition, Step, Quiet, GateTypeInv, GateRootInv, GateReceiptInv,
        GateTransitionInv, ReceiptsTruthful
  <2>6. MachineryKept'
    BY <1>6 DEF MarkTransition, Step, Quiet, GateTypeInv, GateRootInv, GateReceiptInv,
        GateTransitionInv, MachineryKept
  <2> QED
    BY <2>1, <2>2, <2>3, <2>4, <2>5, <2>6 DEF GateIInv
<1>7. CASE RegisterTask
  <2>1. GateTypeInv'
    BY <1>7 DEF RegisterTask, Step, Quiet, GateTypeInv
  <2>2. GateRootInv'
    BY <1>7 DEF RegisterTask, Step, Quiet, GateTypeInv, GateRootInv, GateReceiptInv,
        GateTransitionInv, ReceiptsTruthful
  <2>3. GateReceiptInv'
    BY <1>7 DEF RegisterTask, Step, Quiet, GateTypeInv, GateRootInv, GateReceiptInv,
        GateTransitionInv, ReceiptsTruthful
  <2>4. GateTransitionInv'
    BY <1>7 DEF RegisterTask, Step, Quiet, GateTypeInv, GateRootInv, GateReceiptInv,
        GateTransitionInv, ReceiptsTruthful, MachineryKept
  <2>5. ReceiptsTruthful'
    BY <1>7 DEF RegisterTask, Step, Quiet, GateTypeInv, GateRootInv, GateReceiptInv,
        GateTransitionInv, ReceiptsTruthful
  <2>6. MachineryKept'
    BY <1>7 DEF RegisterTask, Step, Quiet, GateTypeInv, GateRootInv, GateReceiptInv,
        GateTransitionInv, MachineryKept
  <2> QED
    BY <2>1, <2>2, <2>3, <2>4, <2>5, <2>6 DEF GateIInv
<1>8. CASE ArmAutologon
  <2>1. GateTypeInv'
    BY <1>8 DEF ArmAutologon, Step, Quiet, GateTypeInv
  <2>2. GateRootInv'
    BY <1>8 DEF ArmAutologon, Step, Quiet, GateTypeInv, GateRootInv, GateReceiptInv,
        GateTransitionInv, ReceiptsTruthful
  <2>3. GateReceiptInv'
    BY <1>8 DEF ArmAutologon, Step, Quiet, GateTypeInv, GateRootInv, GateReceiptInv,
        GateTransitionInv, ReceiptsTruthful
  <2>4. GateTransitionInv'
    BY <1>8 DEF ArmAutologon, Step, Quiet, GateTypeInv, GateRootInv, GateReceiptInv,
        GateTransitionInv, ReceiptsTruthful, MachineryKept
  <2>5. ReceiptsTruthful'
    BY <1>8 DEF ArmAutologon, Step, Quiet, GateTypeInv, GateRootInv, GateReceiptInv,
        GateTransitionInv, ReceiptsTruthful
  <2>6. MachineryKept'
    BY <1>8 DEF ArmAutologon, Step, Quiet, GateTypeInv, GateRootInv, GateReceiptInv,
        GateTransitionInv, MachineryKept
  <2> QED
    BY <2>1, <2>2, <2>3, <2>4, <2>5, <2>6 DEF GateIInv
<1>9. CASE ScheduledRestart
  <2>1. GateTypeInv'
    BY <1>9 DEF ScheduledRestart, GateTypeInv
  <2>2. GateRootInv'
    BY <1>9 DEF ScheduledRestart, GateTypeInv, GateRootInv, GateReceiptInv, GateTransitionInv,
        ReceiptsTruthful
  <2>3. GateReceiptInv'
    BY <1>9 DEF ScheduledRestart, GateTypeInv, GateRootInv, GateReceiptInv, GateTransitionInv,
        ReceiptsTruthful
  <2>4. GateTransitionInv'
    BY <1>9 DEF ScheduledRestart, GateTypeInv, GateRootInv, GateReceiptInv, GateTransitionInv,
        ReceiptsTruthful, MachineryKept
  <2>5. ReceiptsTruthful'
    BY <1>9 DEF ScheduledRestart, GateTypeInv, GateRootInv, GateReceiptInv, GateTransitionInv,
        ReceiptsTruthful
  <2>6. MachineryKept'
    BY <1>9 DEF ScheduledRestart, GateTypeInv, GateRootInv, GateReceiptInv, GateTransitionInv,
        MachineryKept
  <2> QED
    BY <2>1, <2>2, <2>3, <2>4, <2>5, <2>6 DEF GateIInv
<1>10. CASE Catch
  <2>1. GateTypeInv'
    BY <1>10 DEF Catch, Step, Quiet, GateTypeInv
  <2>2. GateRootInv'
    BY <1>10 DEF Catch, Step, Quiet, GateTypeInv, GateRootInv, GateReceiptInv, GateTransitionInv,
        ReceiptsTruthful
  <2>3. GateReceiptInv'
    BY <1>10 DEF Catch, Step, Quiet, GateTypeInv, GateRootInv, GateReceiptInv, GateTransitionInv,
        ReceiptsTruthful
  <2>4. GateTransitionInv'
    BY <1>10 DEF Catch, Step, Quiet, GateTypeInv, GateRootInv, GateReceiptInv, GateTransitionInv,
        ReceiptsTruthful, MachineryKept
  <2>5. ReceiptsTruthful'
    BY <1>10 DEF Catch, Step, Quiet, GateTypeInv, GateRootInv, GateReceiptInv, GateTransitionInv,
        ReceiptsTruthful
  <2>6. MachineryKept'
    BY <1>10 DEF Catch, Step, Quiet, GateTypeInv, GateRootInv, GateReceiptInv, GateTransitionInv,
        MachineryKept
  <2> QED
    BY <2>1, <2>2, <2>3, <2>4, <2>5, <2>6 DEF GateIInv
<1>11. CASE Authorize
  <2>1. GateTypeInv'
    BY <1>11 DEF Authorize, Step, Quiet, GateTypeInv
  <2>2. GateRootInv'
    BY <1>11 DEF Authorize, Step, Quiet, GateTypeInv, GateRootInv, GateReceiptInv,
        GateTransitionInv, ReceiptsTruthful
  <2>3. GateReceiptInv'
    BY <1>11 DEF Authorize, Step, Quiet, GateTypeInv, GateRootInv, GateReceiptInv,
        GateTransitionInv, ReceiptsTruthful
  <2>4. GateTransitionInv'
    BY <1>11 DEF Authorize, Step, Quiet, GateTypeInv, GateRootInv, GateReceiptInv,
        GateTransitionInv, ReceiptsTruthful, MachineryKept
  <2>5. ReceiptsTruthful'
    BY <1>11 DEF Authorize, Step, Quiet, GateTypeInv, GateRootInv, GateReceiptInv,
        GateTransitionInv, ReceiptsTruthful
  <2>6. MachineryKept'
    BY <1>11 DEF Authorize, Step, Quiet, GateTypeInv, GateRootInv, GateReceiptInv,
        GateTransitionInv, MachineryKept
  <2> QED
    BY <2>1, <2>2, <2>3, <2>4, <2>5, <2>6 DEF GateIInv
<1>12. CASE MergeProfiles
  <2>1. GateTypeInv'
    BY <1>12 DEF MergeProfiles, Step, Quiet, GateTypeInv
  <2>2. GateRootInv'
    BY <1>12 DEF MergeProfiles, Step, Quiet, GateTypeInv, GateRootInv, GateReceiptInv,
        GateTransitionInv, ReceiptsTruthful
  <2>3. GateReceiptInv'
    BY <1>12 DEF MergeProfiles, Step, Quiet, GateTypeInv, GateRootInv, GateReceiptInv,
        GateTransitionInv, ReceiptsTruthful
  <2>4. GateTransitionInv'
    BY <1>12 DEF MergeProfiles, Step, Quiet, GateTypeInv, GateRootInv, GateReceiptInv,
        GateTransitionInv, ReceiptsTruthful, MachineryKept
  <2>5. ReceiptsTruthful'
    BY <1>12 DEF MergeProfiles, Step, Quiet, GateTypeInv, GateRootInv, GateReceiptInv,
        GateTransitionInv, ReceiptsTruthful
  <2>6. MachineryKept'
    BY <1>12 DEF MergeProfiles, Step, Quiet, GateTypeInv, GateRootInv, GateReceiptInv,
        GateTransitionInv, MachineryKept
  <2> QED
    BY <2>1, <2>2, <2>3, <2>4, <2>5, <2>6 DEF GateIInv
<1>13. CASE RemoveKeptRoot
  <2>1. GateTypeInv'
    BY <1>13 DEF RemoveKeptRoot, Step, Quiet, GateTypeInv
  <2>2. GateRootInv'
    BY <1>13 DEF RemoveKeptRoot, Step, Quiet, GateTypeInv, GateRootInv, GateReceiptInv,
        GateTransitionInv, ReceiptsTruthful
  <2>3. GateReceiptInv'
    BY <1>13 DEF RemoveKeptRoot, Step, Quiet, GateTypeInv, GateRootInv, GateReceiptInv,
        GateTransitionInv, ReceiptsTruthful
  <2>4. GateTransitionInv'
    BY <1>13 DEF RemoveKeptRoot, Step, Quiet, GateTypeInv, GateRootInv, GateReceiptInv,
        GateTransitionInv, ReceiptsTruthful, MachineryKept
  <2>5. ReceiptsTruthful'
    BY <1>13 DEF RemoveKeptRoot, Step, Quiet, GateTypeInv, GateRootInv, GateReceiptInv,
        GateTransitionInv, ReceiptsTruthful
  <2>6. MachineryKept'
    BY <1>13 DEF RemoveKeptRoot, Step, Quiet, GateTypeInv, GateRootInv, GateReceiptInv,
        GateTransitionInv, MachineryKept
  <2> QED
    BY <2>1, <2>2, <2>3, <2>4, <2>5, <2>6 DEF GateIInv
<1>14. CASE WriteReceipt
  <2>1. GateTypeInv'
    BY <1>14 DEF WriteReceipt, Step, Quiet, GateTypeInv
  <2>2. GateRootInv'
    BY <1>14 DEF WriteReceipt, Step, Quiet, GateTypeInv, GateRootInv, GateReceiptInv,
        GateTransitionInv, ReceiptsTruthful
  <2>3. GateReceiptInv'
    BY <1>14 DEF WriteReceipt, Step, Quiet, GateTypeInv, GateRootInv, GateReceiptInv,
        GateTransitionInv, ReceiptsTruthful
  <2>4. GateTransitionInv'
    BY <1>14 DEF WriteReceipt, Step, Quiet, GateTypeInv, GateRootInv, GateReceiptInv,
        GateTransitionInv, ReceiptsTruthful, MachineryKept
  <2>5. ReceiptsTruthful'
    BY <1>14 DEF WriteReceipt, Step, Quiet, GateTypeInv, GateRootInv, GateReceiptInv,
        GateTransitionInv, ReceiptsTruthful
  <2>6. MachineryKept'
    BY <1>14 DEF WriteReceipt, Step, Quiet, GateTypeInv, GateRootInv, GateReceiptInv,
        GateTransitionInv, MachineryKept
  <2> QED
    BY <2>1, <2>2, <2>3, <2>4, <2>5, <2>6 DEF GateIInv
<1>15. CASE RemovePending
  <2>1. GateTypeInv'
    BY <1>15 DEF RemovePending, Step, Quiet, GateTypeInv
  <2>2. GateRootInv'
    BY <1>15 DEF RemovePending, Step, Quiet, GateTypeInv, GateRootInv, GateReceiptInv,
        GateTransitionInv, ReceiptsTruthful
  <2>3. GateReceiptInv'
    BY <1>15 DEF RemovePending, Step, Quiet, GateTypeInv, GateRootInv, GateReceiptInv,
        GateTransitionInv, ReceiptsTruthful
  <2>4. GateTransitionInv'
    BY <1>15 DEF RemovePending, Step, Quiet, GateTypeInv, GateRootInv, GateReceiptInv,
        GateTransitionInv, ReceiptsTruthful, MachineryKept
  <2>5. ReceiptsTruthful'
    BY <1>15 DEF RemovePending, Step, Quiet, GateTypeInv, GateRootInv, GateReceiptInv,
        GateTransitionInv, ReceiptsTruthful
  <2>6. MachineryKept'
    BY <1>15 DEF RemovePending, Step, Quiet, GateTypeInv, GateRootInv, GateReceiptInv,
        GateTransitionInv, MachineryKept
  <2> QED
    BY <2>1, <2>2, <2>3, <2>4, <2>5, <2>6 DEF GateIInv
<1>16. CASE ResetShell
  <2>1. GateTypeInv'
    BY <1>16 DEF ResetShell, Step, Quiet, GateTypeInv
  <2>2. GateRootInv'
    BY <1>16 DEF ResetShell, Step, Quiet, GateTypeInv, GateRootInv, GateReceiptInv,
        GateTransitionInv, ReceiptsTruthful
  <2>3. GateReceiptInv'
    BY <1>16 DEF ResetShell, Step, Quiet, GateTypeInv, GateRootInv, GateReceiptInv,
        GateTransitionInv, ReceiptsTruthful
  <2>4. GateTransitionInv'
    BY <1>16 DEF ResetShell, Step, Quiet, GateTypeInv, GateRootInv, GateReceiptInv,
        GateTransitionInv, ReceiptsTruthful, MachineryKept
  <2>5. ReceiptsTruthful'
    BY <1>16 DEF ResetShell, Step, Quiet, GateTypeInv, GateRootInv, GateReceiptInv,
        GateTransitionInv, ReceiptsTruthful
  <2>6. MachineryKept'
    BY <1>16 DEF ResetShell, Step, Quiet, GateTypeInv, GateRootInv, GateReceiptInv,
        GateTransitionInv, MachineryKept
  <2> QED
    BY <2>1, <2>2, <2>3, <2>4, <2>5, <2>6 DEF GateIInv
<1>17. CASE RetireLogon
  <2>1. GateTypeInv'
    BY <1>17 DEF RetireLogon, Step, Quiet, GateTypeInv
  <2>2. GateRootInv'
    BY <1>17 DEF RetireLogon, Step, Quiet, GateTypeInv, GateRootInv, GateReceiptInv,
        GateTransitionInv, ReceiptsTruthful
  <2>3. GateReceiptInv'
    BY <1>17 DEF RetireLogon, Step, Quiet, GateTypeInv, GateRootInv, GateReceiptInv,
        GateTransitionInv, ReceiptsTruthful
  <2>4. GateTransitionInv'
    BY <1>17 DEF RetireLogon, Step, Quiet, GateTypeInv, GateRootInv, GateReceiptInv,
        GateTransitionInv, ReceiptsTruthful, MachineryKept
  <2>5. ReceiptsTruthful'
    BY <1>17 DEF RetireLogon, Step, Quiet, GateTypeInv, GateRootInv, GateReceiptInv,
        GateTransitionInv, ReceiptsTruthful
  <2>6. MachineryKept'
    BY <1>17 DEF RetireLogon, Step, Quiet, GateTypeInv, GateRootInv, GateReceiptInv,
        GateTransitionInv, MachineryKept
  <2> QED
    BY <2>1, <2>2, <2>3, <2>4, <2>5, <2>6 DEF GateIInv
<1>18. CASE RecordRelease
  <2>1. GateTypeInv'
    BY <1>18 DEF RecordRelease, Step, Quiet, GateTypeInv
  <2>2. GateRootInv'
    BY <1>18 DEF RecordRelease, Step, Quiet, GateTypeInv, GateRootInv, GateReceiptInv,
        GateTransitionInv, ReceiptsTruthful
  <2>3. GateReceiptInv'
    BY <1>18 DEF RecordRelease, Step, Quiet, GateTypeInv, GateRootInv, GateReceiptInv,
        GateTransitionInv, ReceiptsTruthful
  <2>4. GateTransitionInv'
    BY <1>18 DEF RecordRelease, Step, Quiet, GateTypeInv, GateRootInv, GateReceiptInv,
        GateTransitionInv, ReceiptsTruthful, MachineryKept
  <2>5. ReceiptsTruthful'
    BY <1>18 DEF RecordRelease, Step, Quiet, GateTypeInv, GateRootInv, GateReceiptInv,
        GateTransitionInv, ReceiptsTruthful
  <2>6. MachineryKept'
    BY <1>18 DEF RecordRelease, Step, Quiet, GateTypeInv, GateRootInv, GateReceiptInv,
        GateTransitionInv, MachineryKept
  <2> QED
    BY <2>1, <2>2, <2>3, <2>4, <2>5, <2>6 DEF GateIInv
<1>19. CASE DropTask
  <2>1. GateTypeInv'
    BY <1>19 DEF DropTask, Step, GateFault, GateTypeInv
  <2>2. GateRootInv'
    BY <1>19 DEF DropTask, Step, GateFault, GateTypeInv, GateRootInv, GateReceiptInv,
        GateTransitionInv, ReceiptsTruthful
  <2>3. GateReceiptInv'
    BY <1>19 DEF DropTask, Step, GateFault, GateTypeInv, GateRootInv, GateReceiptInv,
        GateTransitionInv, ReceiptsTruthful
  <2>4. GateTransitionInv'
    BY <1>19 DEF DropTask, Step, GateFault, GateTypeInv, GateRootInv, GateReceiptInv,
        GateTransitionInv, ReceiptsTruthful, MachineryKept
  <2>5. ReceiptsTruthful'
    BY <1>19 DEF DropTask, Step, GateFault, GateTypeInv, GateRootInv, GateReceiptInv,
        GateTransitionInv, ReceiptsTruthful
  <2>6. MachineryKept'
    BY <1>19 DEF DropTask, Step, GateFault, GateTypeInv, GateRootInv, GateReceiptInv,
        GateTransitionInv, MachineryKept
  <2> QED
    BY <2>1, <2>2, <2>3, <2>4, <2>5, <2>6 DEF GateIInv
<1>20. CASE StartExplorer
  <2>1. GateTypeInv'
    BY <1>20 DEF StartExplorer, Step, Quiet, GateTypeInv
  <2>2. GateRootInv'
    BY <1>20 DEF StartExplorer, Step, Quiet, GateTypeInv, GateRootInv, GateReceiptInv,
        GateTransitionInv, ReceiptsTruthful
  <2>3. GateReceiptInv'
    BY <1>20 DEF StartExplorer, Step, Quiet, GateTypeInv, GateRootInv, GateReceiptInv,
        GateTransitionInv, ReceiptsTruthful
  <2>4. GateTransitionInv'
    BY <1>20 DEF StartExplorer, Step, Quiet, GateTypeInv, GateRootInv, GateReceiptInv,
        GateTransitionInv, ReceiptsTruthful, MachineryKept
  <2>5. ReceiptsTruthful'
    BY <1>20 DEF StartExplorer, Step, Quiet, GateTypeInv, GateRootInv, GateReceiptInv,
        GateTransitionInv, ReceiptsTruthful
  <2>6. MachineryKept'
    BY <1>20 DEF StartExplorer, Step, Quiet, GateTypeInv, GateRootInv, GateReceiptInv,
        GateTransitionInv, MachineryKept
  <2> QED
    BY <2>1, <2>2, <2>3, <2>4, <2>5, <2>6 DEF GateIInv
<1>21. CASE RecordVerified
  <2>1. GateTypeInv'
    BY <1>21 DEF RecordVerified, Step, Quiet, GateTypeInv
  <2>2. GateRootInv'
    BY <1>21 DEF RecordVerified, Step, Quiet, GateTypeInv, GateRootInv, GateReceiptInv,
        GateTransitionInv, ReceiptsTruthful
  <2>3. GateReceiptInv'
    BY <1>21 DEF RecordVerified, Step, Quiet, GateTypeInv, GateRootInv, GateReceiptInv,
        GateTransitionInv, ReceiptsTruthful
  <2>4. GateTransitionInv'
    BY <1>21 DEF RecordVerified, Step, Quiet, GateTypeInv, GateRootInv, GateReceiptInv,
        GateTransitionInv, ReceiptsTruthful, MachineryKept
  <2>5. ReceiptsTruthful'
    BY <1>21 DEF RecordVerified, Step, Quiet, GateTypeInv, GateRootInv, GateReceiptInv,
        GateTransitionInv, ReceiptsTruthful
  <2>6. MachineryKept'
    BY <1>21 DEF RecordVerified, Step, Quiet, GateTypeInv, GateRootInv, GateReceiptInv,
        GateTransitionInv, MachineryKept
  <2> QED
    BY <2>1, <2>2, <2>3, <2>4, <2>5, <2>6 DEF GateIInv
<1>22. CASE WorkerError
  <2>1. GateTypeInv'
    BY <1>22 DEF WorkerError, NeedsMissing, GateFault, GateTypeInv
  <2>2. GateRootInv'
    BY <1>22 DEF WorkerError, NeedsMissing, GateFault, GateTypeInv, GateRootInv, GateReceiptInv,
        GateTransitionInv, ReceiptsTruthful
  <2>3. GateReceiptInv'
    BY <1>22 DEF WorkerError, NeedsMissing, GateFault, GateTypeInv, GateRootInv, GateReceiptInv,
        GateTransitionInv, ReceiptsTruthful
  <2>4. GateTransitionInv'
    BY <1>22 DEF WorkerError, NeedsMissing, GateFault, GateTypeInv, GateRootInv, GateReceiptInv,
        GateTransitionInv, ReceiptsTruthful, MachineryKept
  <2>5. ReceiptsTruthful'
    BY <1>22 DEF WorkerError, NeedsMissing, GateFault, GateTypeInv, GateRootInv, GateReceiptInv,
        GateTransitionInv, ReceiptsTruthful
  <2>6. MachineryKept'
    BY <1>22 DEF WorkerError, NeedsMissing, GateFault, GateTypeInv, GateRootInv, GateReceiptInv,
        GateTransitionInv, MachineryKept
  <2> QED
    BY <2>1, <2>2, <2>3, <2>4, <2>5, <2>6 DEF GateIInv
<1>23. CASE WorkerFailed
  <2>1. GateTypeInv'
    BY <1>23 DEF WorkerFailed, Step, Quiet, GateTypeInv
  <2>2. GateRootInv'
    BY <1>23 DEF WorkerFailed, Step, Quiet, GateTypeInv, GateRootInv, GateReceiptInv,
        GateTransitionInv, ReceiptsTruthful
  <2>3. GateReceiptInv'
    BY <1>23 DEF WorkerFailed, Step, Quiet, GateTypeInv, GateRootInv, GateReceiptInv,
        GateTransitionInv, ReceiptsTruthful
  <2>4. GateTransitionInv'
    BY <1>23 DEF WorkerFailed, Step, Quiet, GateTypeInv, GateRootInv, GateReceiptInv,
        GateTransitionInv, ReceiptsTruthful, MachineryKept
  <2>5. ReceiptsTruthful'
    BY <1>23 DEF WorkerFailed, Step, Quiet, GateTypeInv, GateRootInv, GateReceiptInv,
        GateTransitionInv, ReceiptsTruthful
  <2>6. MachineryKept'
    BY <1>23 DEF WorkerFailed, Step, Quiet, GateTypeInv, GateRootInv, GateReceiptInv,
        GateTransitionInv, MachineryKept
  <2> QED
    BY <2>1, <2>2, <2>3, <2>4, <2>5, <2>6 DEF GateIInv
<1>24. CASE After
  <2>1. GateTypeInv'
    BY <1>24 DEF After, Step, Quiet, GateTypeInv
  <2>2. GateRootInv'
    BY <1>24 DEF After, Step, Quiet, GateTypeInv, GateRootInv, GateReceiptInv, GateTransitionInv,
        ReceiptsTruthful
  <2>3. GateReceiptInv'
    BY <1>24 DEF After, Step, Quiet, GateTypeInv, GateRootInv, GateReceiptInv, GateTransitionInv,
        ReceiptsTruthful
  <2>4. GateTransitionInv'
    BY <1>24 DEF After, Step, Quiet, GateTypeInv, GateRootInv, GateReceiptInv, GateTransitionInv,
        ReceiptsTruthful, MachineryKept
  <2>5. ReceiptsTruthful'
    BY <1>24 DEF After, Step, Quiet, GateTypeInv, GateRootInv, GateReceiptInv, GateTransitionInv,
        ReceiptsTruthful
  <2>6. MachineryKept'
    BY <1>24 DEF After, Step, Quiet, GateTypeInv, GateRootInv, GateReceiptInv, GateTransitionInv,
        MachineryKept
  <2> QED
    BY <2>1, <2>2, <2>3, <2>4, <2>5, <2>6 DEF GateIInv
<1>25. CASE RetireTransition
  <2>1. GateTypeInv'
    BY <1>25 DEF RetireTransition, Step, Quiet, GateTypeInv
  <2>2. GateRootInv'
    BY <1>25 DEF RetireTransition, Step, Quiet, GateTypeInv, GateRootInv, GateReceiptInv,
        GateTransitionInv, ReceiptsTruthful
  <2>3. GateReceiptInv'
    BY <1>25 DEF RetireTransition, Step, Quiet, GateTypeInv, GateRootInv, GateReceiptInv,
        GateTransitionInv, ReceiptsTruthful
  <2>4. GateTransitionInv'
    BY <1>25 DEF RetireTransition, Step, Quiet, GateTypeInv, GateRootInv, GateReceiptInv,
        GateTransitionInv, ReceiptsTruthful, MachineryKept
  <2>5. ReceiptsTruthful'
    BY <1>25 DEF RetireTransition, Step, Quiet, GateTypeInv, GateRootInv, GateReceiptInv,
        GateTransitionInv, ReceiptsTruthful
  <2>6. MachineryKept'
    BY <1>25 DEF RetireTransition, Step, Quiet, GateTypeInv, GateRootInv, GateReceiptInv,
        GateTransitionInv, MachineryKept
  <2> QED
    BY <2>1, <2>2, <2>3, <2>4, <2>5, <2>6 DEF GateIInv
<1>26. CASE AwaitVerified
  <2>1. GateTypeInv'
    BY <1>26 DEF AwaitVerified, Step, Quiet, GateTypeInv
  <2>2. GateRootInv'
    BY <1>26 DEF AwaitVerified, Step, Quiet, GateTypeInv, GateRootInv, GateReceiptInv,
        GateTransitionInv, ReceiptsTruthful
  <2>3. GateReceiptInv'
    BY <1>26 DEF AwaitVerified, Step, Quiet, GateTypeInv, GateRootInv, GateReceiptInv,
        GateTransitionInv, ReceiptsTruthful
  <2>4. GateTransitionInv'
    BY <1>26 DEF AwaitVerified, Step, Quiet, GateTypeInv, GateRootInv, GateReceiptInv,
        GateTransitionInv, ReceiptsTruthful, MachineryKept
  <2>5. ReceiptsTruthful'
    BY <1>26 DEF AwaitVerified, Step, Quiet, GateTypeInv, GateRootInv, GateReceiptInv,
        GateTransitionInv, ReceiptsTruthful
  <2>6. MachineryKept'
    BY <1>26 DEF AwaitVerified, Step, Quiet, GateTypeInv, GateRootInv, GateReceiptInv,
        GateTransitionInv, MachineryKept
  <2> QED
    BY <2>1, <2>2, <2>3, <2>4, <2>5, <2>6 DEF GateIInv
<1>27. CASE ScriptError
  <2>1. GateTypeInv'
    BY <1>27 DEF ScriptError, GateFault, GateTypeInv
  <2>2. GateRootInv'
    BY <1>27 DEF ScriptError, GateFault, GateTypeInv, GateRootInv, GateReceiptInv,
        GateTransitionInv, ReceiptsTruthful
  <2>3. GateReceiptInv'
    BY <1>27 DEF ScriptError, GateFault, GateTypeInv, GateRootInv, GateReceiptInv,
        GateTransitionInv, ReceiptsTruthful
  <2>4. GateTransitionInv'
    BY <1>27 DEF ScriptError, GateFault, GateTypeInv, GateRootInv, GateReceiptInv,
        GateTransitionInv, ReceiptsTruthful, MachineryKept
  <2>5. ReceiptsTruthful'
    BY <1>27 DEF ScriptError, GateFault, GateTypeInv, GateRootInv, GateReceiptInv,
        GateTransitionInv, ReceiptsTruthful
  <2>6. MachineryKept'
    BY <1>27 DEF ScriptError, GateFault, GateTypeInv, GateRootInv, GateReceiptInv,
        GateTransitionInv, MachineryKept
  <2> QED
    BY <2>1, <2>2, <2>3, <2>4, <2>5, <2>6 DEF GateIInv
<1>28. CASE Decide
  <2>1. GateTypeInv'
    BY <1>28 DEF Decide, Deferred, RemoveStaging, HelperRuns, GateTypeInv
  <2>2. GateRootInv'
    BY <1>28 DEF Decide, Deferred, RemoveStaging, HelperRuns, GateTypeInv, GateRootInv,
        GateReceiptInv, GateTransitionInv, ReceiptsTruthful
  <2>3. GateReceiptInv'
    BY <1>28 DEF Decide, Deferred, RemoveStaging, HelperRuns, GateTypeInv, GateRootInv,
        GateReceiptInv, GateTransitionInv, ReceiptsTruthful
  <2>4. GateTransitionInv'
    BY <1>28 DEF Decide, Deferred, RemoveStaging, HelperRuns, GateTypeInv, GateRootInv,
        GateReceiptInv, GateTransitionInv, ReceiptsTruthful, MachineryKept
  <2>5. ReceiptsTruthful'
    BY <1>28 DEF Decide, Deferred, RemoveStaging, HelperRuns, GateTypeInv, GateRootInv,
        GateReceiptInv, GateTransitionInv, ReceiptsTruthful
  <2>6. MachineryKept'
    BY <1>28 DEF Decide, Deferred, RemoveStaging, HelperRuns, GateTypeInv, GateRootInv,
        GateReceiptInv, GateTransitionInv, MachineryKept
  <2> QED
    BY <2>1, <2>2, <2>3, <2>4, <2>5, <2>6 DEF GateIInv
<1>29. CASE Sweep
  <2>1. GateTypeInv'
    BY <1>29 DEF Sweep, SweepAllowed, RemoveStaging, HelperRuns, GateTypeInv
  <2>2. GateRootInv'
    BY <1>29 DEF Sweep, SweepAllowed, RemoveStaging, HelperRuns, GateTypeInv, GateRootInv,
        GateReceiptInv, GateTransitionInv, ReceiptsTruthful
  <2>3. GateReceiptInv'
    BY <1>29 DEF Sweep, SweepAllowed, RemoveStaging, HelperRuns, GateTypeInv, GateRootInv,
        GateReceiptInv, GateTransitionInv, ReceiptsTruthful
  <2>4. GateTransitionInv'
    BY <1>29 DEF Sweep, SweepAllowed, RemoveStaging, HelperRuns, GateTypeInv, GateRootInv,
        GateReceiptInv, GateTransitionInv, ReceiptsTruthful, MachineryKept
  <2>5. ReceiptsTruthful'
    BY <1>29 DEF Sweep, SweepAllowed, RemoveStaging, HelperRuns, GateTypeInv, GateRootInv,
        GateReceiptInv, GateTransitionInv, ReceiptsTruthful
  <2>6. MachineryKept'
    BY <1>29 DEF Sweep, SweepAllowed, RemoveStaging, HelperRuns, GateTypeInv, GateRootInv,
        GateReceiptInv, GateTransitionInv, MachineryKept
  <2> QED
    BY <2>1, <2>2, <2>3, <2>4, <2>5, <2>6 DEF GateIInv
<1>30. CASE Poll
  <2>1. GateTypeInv'
    BY <1>30 DEF Poll, GateTypeInv
  <2>2. GateRootInv'
    BY <1>30 DEF Poll, GateTypeInv, GateRootInv, GateReceiptInv, GateTransitionInv,
        ReceiptsTruthful
  <2>3. GateReceiptInv'
    BY <1>30 DEF Poll, GateTypeInv, GateRootInv, GateReceiptInv, GateTransitionInv,
        ReceiptsTruthful
  <2>4. GateTransitionInv'
    BY <1>30 DEF Poll, GateTypeInv, GateRootInv, GateReceiptInv, GateTransitionInv,
        ReceiptsTruthful, MachineryKept
  <2>5. ReceiptsTruthful'
    BY <1>30 DEF Poll, GateTypeInv, GateRootInv, GateReceiptInv, GateTransitionInv,
        ReceiptsTruthful
  <2>6. MachineryKept'
    BY <1>30 DEF Poll, GateTypeInv, GateRootInv, GateReceiptInv, GateTransitionInv, MachineryKept
  <2> QED
    BY <2>1, <2>2, <2>3, <2>4, <2>5, <2>6 DEF GateIInv
<1>31. CASE Logon
  <2>1. GateTypeInv'
    BY <1>31 DEF Logon, GateTypeInv
  <2>2. GateRootInv'
    BY <1>31 DEF Logon, GateTypeInv, GateRootInv, GateReceiptInv, GateTransitionInv,
        ReceiptsTruthful
  <2>3. GateReceiptInv'
    BY <1>31 DEF Logon, GateTypeInv, GateRootInv, GateReceiptInv, GateTransitionInv,
        ReceiptsTruthful
  <2>4. GateTransitionInv'
    BY <1>31 DEF Logon, GateTypeInv, GateRootInv, GateReceiptInv, GateTransitionInv,
        ReceiptsTruthful, MachineryKept
  <2>5. ReceiptsTruthful'
    BY <1>31 DEF Logon, GateTypeInv, GateRootInv, GateReceiptInv, GateTransitionInv,
        ReceiptsTruthful
  <2>6. MachineryKept'
    BY <1>31 DEF Logon, GateTypeInv, GateRootInv, GateReceiptInv, GateTransitionInv, MachineryKept
  <2> QED
    BY <2>1, <2>2, <2>3, <2>4, <2>5, <2>6 DEF GateIInv
<1>32. CASE GatePowerLoss
  <2>1. GateTypeInv'
    BY <1>32 DEF GatePowerLoss, Reboot, GateFault, GateTypeInv
  <2>2. GateRootInv'
    BY <1>32 DEF GatePowerLoss, Reboot, GateFault, GateTypeInv, GateRootInv, GateReceiptInv,
        GateTransitionInv, ReceiptsTruthful
  <2>3. GateReceiptInv'
    BY <1>32 DEF GatePowerLoss, Reboot, GateFault, GateTypeInv, GateRootInv, GateReceiptInv,
        GateTransitionInv, ReceiptsTruthful
  <2>4. GateTransitionInv'
    BY <1>32 DEF GatePowerLoss, Reboot, GateFault, GateTypeInv, GateRootInv, GateReceiptInv,
        GateTransitionInv, ReceiptsTruthful, MachineryKept
  <2>5. ReceiptsTruthful'
    BY <1>32 DEF GatePowerLoss, Reboot, GateFault, GateTypeInv, GateRootInv, GateReceiptInv,
        GateTransitionInv, ReceiptsTruthful
  <2>6. MachineryKept'
    BY <1>32 DEF GatePowerLoss, Reboot, GateFault, GateTypeInv, GateRootInv, GateReceiptInv,
        GateTransitionInv, MachineryKept
  <2> QED
    BY <2>1, <2>2, <2>3, <2>4, <2>5, <2>6 DEF GateIInv
<1>33. CASE UserRestarts
  <2>1. GateTypeInv'
    BY <1>33 DEF UserRestarts, Reboot, GateTypeInv
  <2>2. GateRootInv'
    BY <1>33 DEF UserRestarts, Reboot, GateTypeInv, GateRootInv, GateReceiptInv,
        GateTransitionInv, ReceiptsTruthful
  <2>3. GateReceiptInv'
    BY <1>33 DEF UserRestarts, Reboot, GateTypeInv, GateRootInv, GateReceiptInv,
        GateTransitionInv, ReceiptsTruthful
  <2>4. GateTransitionInv'
    BY <1>33 DEF UserRestarts, Reboot, GateTypeInv, GateRootInv, GateReceiptInv,
        GateTransitionInv, ReceiptsTruthful, MachineryKept
  <2>5. ReceiptsTruthful'
    BY <1>33 DEF UserRestarts, Reboot, GateTypeInv, GateRootInv, GateReceiptInv,
        GateTransitionInv, ReceiptsTruthful
  <2>6. MachineryKept'
    BY <1>33 DEF UserRestarts, Reboot, GateTypeInv, GateRootInv, GateReceiptInv,
        GateTransitionInv, MachineryKept
  <2> QED
    BY <2>1, <2>2, <2>3, <2>4, <2>5, <2>6 DEF GateIInv
<1>34. CASE UNCHANGED gateVars
  BY <1>34 DEF gateVars, GateTypeInv, GateRootInv, GateReceiptInv, GateTransitionInv,
      ReceiptsTruthful, MachineryKept, world, staging
<1> QED
  BY <1>1, <1>2, <1>3, <1>4, <1>5, <1>6, <1>7, <1>8, <1>9, <1>10, <1>11, <1>12, <1>13, <1>14,
     <1>15, <1>16, <1>17, <1>18, <1>19, <1>20, <1>21, <1>22, <1>23, <1>24, <1>25, <1>26, <1>27,
     <1>28, <1>29, <1>30, <1>31, <1>32, <1>33, <1>34
  DEF GateNext, Finalizer

----------------------------------------------------------------------------

(* However many calls fail and however often power is lost or the sweep    *)
(* runs: the completion receipt means that every preserved file is back,   *)
(* the release that the Shell value is, the verification comes after both, *)
(* and behind the gate no desktop comes before the files.                  *)
THEOREM ReceiptsTruthfulHolds == GateSpec => []ReceiptsTruthful
  BY InitGate, NextGate, PTL DEF GateSpec, GateIInv

(* However many calls fail and however often power is lost or the sweep    *)
(* runs: as long as files are preserved, what restores them stays, and the *)
(* built-in Administrator's saved Shell value stays as long as the gate.   *)
THEOREM MachineryKeptHolds == GateSpec => []MachineryKept
  BY InitGate, NextGate, PTL DEF GateSpec, GateIInv
=============================================================================
