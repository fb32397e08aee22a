---------------------------- MODULE PeBootProofs ----------------------------
(***************************************************************************)
(* Proofs about the way into WinPE: for any number of tasks, failing calls *)
(* and power losses, boot entries are complete, only the last task starts  *)
(* WinPE, and a committed task does.                                       *)
(***************************************************************************)
EXTENDS PeBoot, WellFoundedInduction, TLAPS

(* The steps of a task in Windows, and of WinPE.                           *)
Preparing == {"recover", "dropPending", "oldEntries", "dropActive", "orphans", "journal"}
Rollback  == {"rbSequence", "rbLoader", "rbRamdisk", "rbWim", "rbSdi"}
Building  == {"copyWim", "inject", "copySdi", "ramdisk", "setRamdisk", "loader", "setLoader",
              "arm"}
Armed     == {"armed", "committed", "ready"}
Windows   == Preparing \cup Rollback \cup Building \cup Armed \cup {"idle", "undo", "undoJournal"}
Pe        == {"peMatch", "peLoader", "peRamdisk", "peWim", "peSdi", "peJournal", "peWork",
              "peRefused"}

TypeInv ==
    /\ seq \in Seq(Record)
    /\ loader \in [Record -> {"absent", "bare", "set"}]
    /\ ramdisk \in [Record -> {"absent", "bare", "set"}]
    /\ wim \in [Record -> {"absent", "plain", "handoff"}]
    /\ sdi \subseteq Record
    /\ started \in 0..MaxTasks
    /\ answer \in [Record -> {"none", "committed", "rolledback", "failed"}]
    /\ faults \in Nat /\ crashes \in Nat

(* What runs where; every rollback is one of the latest record, which some *)
(* journal names while it lasts; only a failing call makes it unclean.     *)
SideInv ==
    /\ \/ side = "windows" /\ pc \in Windows
       \/ side = "pe" /\ pc \in Pe /\ todo = <<started>> /\ started # 0
       \/ side = "off" /\ pc = "off"
    /\ pc \in Preparing => started < MaxTasks
    /\ pc \in Rollback =>
          /\ todo = <<started>> /\ started # 0
          /\ \/ caller = "undo" /\ pending = started
             \/ caller = "recover" /\ pending = started /\ active = <<>> /\ started < MaxTasks
             \/ caller = "old" /\ pending = None /\ active = <<started>> /\ started < MaxTasks
    /\ ~clean => faults > 0

(* The journals never name more than the latest record, the active one not *)
(* twice, and before the next record is written they are empty.            *)
JournalInv ==
    /\ pending \in {None, started}
    /\ active = <<>> \/ (active = <<started>> /\ started # 0)
    /\ pc \in {"oldEntries", "dropActive", "orphans", "journal"} => pending = None
    /\ pc \in {"orphans", "journal"} => active = <<>>
    /\ pc \in Building \cup {"armed", "committed", "undo", "undoJournal"} =>
          pending = started /\ started # 0
    /\ pc \in Building => active = <<>>
    /\ pc \in {"committed", "ready"} => active = <<started>> /\ started # 0
    /\ pc = "armed" => active = <<>>

(* A record that is still to come has left nothing.                        *)
NewInv == \A r \in Record : r > started =>
    ~Contains(seq, r) /\ loader[r] = "absent" /\ ramdisk[r] = "absent" /\ answer[r] = "none"

(* No image but the latest: the clean-up by name comes before a new record,*)
(* so an older entry that nothing names any more cannot start.             *)
OldInv ==
    /\ \A r \in Record : r < started => wim[r] = "absent"
    /\ pc = "journal" => \A r \in Record : wim[r] = "absent"
    /\ \A r \in Record : r > started => wim[r] = "absent"

(* The latest record is in the boot sequence at most once, in front.       *)
SeqInv ==
    /\ seq # <<>> => ~Contains(Tail(seq), started)
    /\ side = "pe" => ~Contains(seq, started)
    /\ pc \in Building => ~Contains(seq, started)
    /\ pc \in Armed => seq # <<>> /\ Head(seq) = started

(* What the latest record has at each step of its construction.            *)
BuildInv ==
    /\ pc \in {"copyWim", "inject", "copySdi", "ramdisk"} => ramdisk[started] = "absent"
    /\ pc \in {"copyWim", "inject", "copySdi", "ramdisk", "setRamdisk", "loader"} =>
          loader[started] = "absent"
    /\ pc = "inject" /\ iso => started \in sdi
    /\ pc = "copySdi" /\ ~iso => wim[started] = "handoff"
    /\ pc \in {"ramdisk", "setRamdisk"} => wim[started] = "handoff" /\ started \in sdi
    /\ pc \in {"loader", "setLoader", "arm"} \cup Armed => ramdisk[started] = "set"
    /\ pc \in {"arm"} \cup Armed => loader[started] = "set"
    /\ pc \in Armed => wim[started] = "handoff" /\ started \in sdi
    /\ pc \in Building => answer[started] = "none"

Gone == ~Contains(seq, started) /\ loader[started] = "absent" /\ ramdisk[started] = "absent"

(* What a rollback and WinPE's clean-up have removed at each step; a       *)
(* record loses its name only when its objects are gone, unless a call     *)
(* failed, and one reported as rolled back has no loader.                  *)
UndoInv ==
    /\ pc \in Rollback \ {"rbSequence"} => ~Contains(seq, started)
    /\ pc \in {"rbRamdisk", "rbWim", "rbSdi"} => loader[started] = "absent"
    /\ pc \in {"rbWim", "rbSdi"} => ramdisk[started] = "absent"
    /\ pc = "dropActive" => Gone
    /\ pc = "undoJournal" /\ clean => Gone
    /\ pc = "dropPending" /\ active = <<>> => Gone
    /\ pc \in {"peRamdisk", "peWim", "peSdi", "peJournal"} => loader[started] = "absent"
    /\ pc \in {"peWim", "peSdi", "peJournal"} => ramdisk[started] = "absent"
    /\ started # 0 /\ answer[started] = "rolledback" => loader[started] = "absent"
    /\ side = "pe" => answer[started] # "rolledback"

IInv ==
    /\ TypeInv /\ SideInv /\ JournalInv /\ NewInv /\ OldInv /\ SeqInv /\ BuildInv /\ UndoInv
    /\ EntryComplete

----------------------------------------------------------------------------
(* Lists.                                                                  *)

(* Every set of natural numbers that is not empty has a least member.      *)
LEMMA LeastNumber ==
    ASSUME NEW T, T \subseteq Nat, T # {}
    PROVE  \E n \in T : \A m \in T : n <= m
<1> DEFINE R == OpToRel(<, Nat)
<1>1. PICK n \in T : \A m \in T : ~(<<m, n>> \in R)
  <2>1. IsWellFoundedOn(R, Nat)
    BY NatLessThanWellFounded
  <2> HIDE DEF R
  <2> QED
    BY <2>1, WFMin
<1>2. \A m \in T : ~(m < n)
  BY <1>1 DEF OpToRel
<1> QED
  BY <1>2

(* What holds at 0 and passes from each number to the next holds up to N.   *)
LEMMA UpTo ==
    ASSUME NEW N \in Nat, NEW G, 0 \in G, \A n \in 0..(N - 1) : n \in G => n + 1 \in G
    PROVE  0..N \subseteq G
<1> DEFINE Bad == {n \in 0..N : n \notin G}
<1>1. SUFFICES ASSUME Bad # {} PROVE FALSE
  OBVIOUS
<1>2. Bad \subseteq Nat
  OBVIOUS
<1>3. PICK n \in Bad : \A m \in Bad : n <= m
  <2> HIDE DEF Bad
  <2> QED
    BY <1>1, <1>2, LeastNumber
<1>4. n \in Nat /\ n # 0 /\ n <= N /\ n \notin G
  OBVIOUS
<1>5. n - 1 \in 0..(N - 1) /\ n - 1 \in G
  BY <1>3, <1>4
<1>6. (n - 1) + 1 = n
  BY <1>4
<1> QED
  BY <1>4, <1>5, <1>6

(* The list without x holds the other records of the list and no others.   *)
LEMMA WithoutFacts ==
    ASSUME NEW S, NEW s \in Seq(S), NEW x
    PROVE  /\ Without(s, x) \in Seq(S)
           /\ \A r : Contains(Without(s, x), r) <=> Contains(s, r) /\ r # x
<1> DEFINE Body(f, i) ==
               IF i = 0 THEN <<>> ELSE IF s[i] = x THEN f[i - 1] ELSE Append(f[i - 1], s[i])
           Good == {n \in Nat : \E f : f = [i \in 0..n |-> Body(f, i)]}
           F == CHOOSE f : f = [i \in 0..Len(s) |-> Body(f, i)]
           Holds(g, n) == /\ g \in Seq(S)
                          /\ \A r : Contains(g, r) <=> (\E j \in 1..n : s[j] = r) /\ r # x
           Right == {n \in Nat : Holds(F[n], n)}
<1>0. Len(s) \in Nat /\ \A i \in 1..Len(s) : s[i] \in S
  OBVIOUS
<1>1. 0 \in Good
  <2> DEFINE f == [i \in 0..0 |-> <<>>]
  <2>1. f = [i \in 0..0 |-> Body(f, i)]
    OBVIOUS
  <2> QED
    BY <2>1
<1>2. ASSUME NEW n \in 0..(Len(s) - 1), n \in Good PROVE n + 1 \in Good
  <2>0. n \in Nat /\ n \in 0..n
    OBVIOUS
  <2>1. PICK f : f = [i \in 0..n |-> Body(f, i)]
    BY <1>2
  <2> DEFINE g == [i \in 0..(n + 1) |-> IF i = n + 1 THEN Body(f, i) ELSE f[i]]
  <2>2. \A i \in 0..n : g[i] = f[i]
    OBVIOUS
  <2>3. g[n + 1] = IF s[n + 1] = x THEN f[n] ELSE Append(f[n], s[n + 1])
    BY <2>0
  <2>4. \A i \in 0..n : f[i] = Body(f, i)
    BY <2>1
  <2>5. \A i \in 0..(n + 1) : g[i] = Body(g, i)
    <3> SUFFICES ASSUME NEW i \in 0..(n + 1) PROVE g[i] = Body(g, i)
      OBVIOUS
    <3>1. CASE i = n + 1
      <4>1. i - 1 = n /\ i # 0
        BY <3>1
      <4> HIDE DEF g
      <4> QED
        BY <2>0, <2>2, <2>3, <3>1, <4>1
    <3>2. CASE i = 0
      <4>1. 0 \in 0..n
        BY <2>0
      <4> HIDE DEF g
      <4> QED
        BY <2>2, <2>4, <3>2, <4>1
    <3>3. CASE i # 0 /\ i # n + 1
      <4>1. i \in 0..n /\ i - 1 \in 0..n
        BY <3>3
      <4> HIDE DEF g
      <4> QED
        BY <2>2, <2>4, <3>3, <4>1
    <3> QED
      BY <3>1, <3>2, <3>3
  <2>6. g = [i \in 0..(n + 1) |-> Body(g, i)]
    <3>1. g = [i \in 0..(n + 1) |-> g[i]]
      OBVIOUS
    <3> HIDE DEF g
    <3> QED
      BY <2>5, <3>1
  <2> HIDE DEF g, Body
  <2> QED
    BY <2>0, <2>6
<1>3. F = [i \in 0..Len(s) |-> Body(F, i)]
  <2>1. Len(s) \in Good
    <3> HIDE DEF Good
    <3>1. 0..Len(s) \subseteq Good
      BY <1>0, <1>1, <1>2, UpTo
    <3> QED
      BY <1>0, <3>1
  <2> HIDE DEF Body
  <2> QED
    BY <2>1
<1>4. \A i \in 0..Len(s) : F[i] = Body(F, i)
  <2> HIDE DEF F
  <2> QED
    BY <1>3
<1> HIDE DEF F
<1>5. 0 \in Right
  <2>1. F[0] = <<>> /\ <<>> \in Seq(S) /\ Len(<<>>) = 0
    BY <1>0, <1>4
  <2>2. \A r : ~Contains(<<>>, r) /\ ~(\E j \in 1..0 : s[j] = r)
    BY <2>1 DEF Contains
  <2>3. Holds(F[0], 0)
    BY <2>1, <2>2
  <2> HIDE DEF Holds
  <2> QED
    BY <2>3
<1>6. ASSUME NEW n \in 0..(Len(s) - 1), n \in Right PROVE n + 1 \in Right
  <2> DEFINE h == F[n]
             e == s[n + 1]
  <2>1. n \in Nat /\ n + 1 \in 0..Len(s) /\ n + 1 \in 1..Len(s) /\ n + 1 # 0 /\ (n + 1) - 1 = n
    BY <1>0
  <2>2. F[n + 1] = IF e = x THEN h ELSE Append(h, e)
    BY <1>4, <2>1
  <2>3. Holds(h, n)
    BY <1>6
  <2>4. \A r : (\E j \in 1..(n + 1) : s[j] = r) <=> (\E j \in 1..n : s[j] = r) \/ e = r
    <3>1. 1..(n + 1) = 1..n \cup {n + 1}
      BY <2>1
    <3> QED
      BY <3>1
  <2>5. e \in S /\ h \in Seq(S)
    BY <1>0, <2>1, <2>3
  <2>6. \A r : Contains(Append(h, e), r) <=> Contains(h, r) \/ r = e
    <3> HIDE DEF h, e
    <3>1. Len(Append(h, e)) = Len(h) + 1 /\ 1..(Len(h) + 1) = 1..Len(h) \cup {Len(h) + 1}
      BY <2>5
    <3>2. Append(h, e)[Len(h) + 1] = e /\ \A i \in 1..Len(h) : Append(h, e)[i] = h[i]
      BY <2>5
    <3> QED
      BY <3>1, <3>2 DEF Contains
  <2>7. Append(h, e) \in Seq(S)
    BY <2>5
  <2>8. Holds(F[n + 1], n + 1)
    <3> HIDE DEF h, e
    <3> QED
      BY <2>2, <2>3, <2>4, <2>6, <2>7
  <2> HIDE DEF Holds
  <2> QED
    BY <2>1, <2>8
<1>7. Len(s) \in Right
  <2> HIDE DEF Right
  <2>1. 0..Len(s) \subseteq Right
    BY <1>0, <1>5, <1>6, UpTo
  <2> QED
    BY <1>0, <2>1
<1>8. Without(s, x) = F[Len(s)]
  BY DEF Without, F
<1> QED
  BY <1>0, <1>7, <1>8 DEF Contains

(* Lists of no record and of one.                                          *)
LEMMA ListFacts ==
    /\ \A r : ~Contains(<<>>, r)
    /\ \A x, r : Contains(<<x>>, r) <=> r = x
    /\ \A x : Without(<<x>>, x) = <<>> /\ Without(<<>>, x) = <<>>
    /\ \A x : Reverse(<<x>>) = <<x>>
<1>1. \A r : ~Contains(<<>>, r)
  BY DEF Contains
<1>2. \A x, r : Contains(<<x>>, r) <=> r = x
  BY DEF Contains
<1>3. ASSUME NEW x PROVE Without(<<x>>, x) = <<>>
  <2>1. <<x>> \in Seq({x}) /\ Without(<<x>>, x) \in Seq({x})
    <3>1. <<x>> \in Seq({x})
      OBVIOUS
    <3> QED
      BY <3>1, WithoutFacts
  <2>2. ~Contains(Without(<<x>>, x), x)
    BY <2>1, WithoutFacts
  <2> DEFINE w == Without(<<x>>, x)
  <2>3. w \in Seq({x}) /\ \A i \in 1..Len(w) : w[i] # x
    BY <2>1, <2>2 DEF Contains
  <2> HIDE DEF w
  <2>4. w = <<>>
    BY <2>3
  <2> QED
    BY <2>4 DEF w
<1>4. ASSUME NEW x PROVE Without(<<>>, x) = <<>>
  <2>1. Without(<<>>, x) \in Seq({})
    <3>1. <<>> \in Seq({})
      OBVIOUS
    <3> QED
      BY <3>1, WithoutFacts
  <2> QED
    BY <2>1
<1>5. \A x : Reverse(<<x>>) = <<x>>
  BY DEF Reverse
<1> QED
  BY <1>1, <1>2, <1>3, <1>4, <1>5

(* A list with one more record in front.                                   *)
LEMMA FrontFacts ==
    ASSUME NEW s \in Seq(Record), NEW x \in Record
    PROVE  /\ <<x>> \o s \in Seq(Record) /\ <<x>> \o s # <<>>
           /\ Head(<<x>> \o s) = x /\ Tail(<<x>> \o s) = s
           /\ \A r : Contains(<<x>> \o s, r) <=> r = x \/ Contains(s, r)
<1> DEFINE t == <<x>> \o s
<1>1. /\ t \in Seq(Record) /\ Len(t) = Len(s) + 1 /\ t[1] = x /\ Len(s) \in Nat
      /\ \A i \in 1..Len(s) : t[i + 1] = s[i]
  OBVIOUS
<1> HIDE DEF t
<1>2. Len(t) # 0 /\ t # <<>> /\ Head(t) = x
  BY <1>1
<1>3. Tail(t) = s
  <2>1. Tail(t) \in Seq(Record) /\ Len(Tail(t)) = Len(s)
    BY <1>1, <1>2
  <2>2. \A i \in 1..Len(s) : Tail(t)[i] = s[i]
    BY <1>1, <1>2
  <2> QED
    BY <2>1, <2>2
<1>4. \A r : Contains(t, r) <=> r = x \/ Contains(s, r)
  <2>1. \A i \in 1..Len(t) : i = 1 \/ i - 1 \in 1..Len(s)
    BY <1>1
  <2>2. \A i \in 1..Len(s) : i + 1 \in 1..Len(t)
    BY <1>1
  <2>3. 1 \in 1..Len(t) /\ \A i \in 1..Len(t) : (i - 1) + 1 = i
    BY <1>1
  <2>4. ASSUME NEW r, Contains(t, r) PROVE r = x \/ Contains(s, r)
    BY <1>1, <2>1, <2>3, <2>4 DEF Contains
  <2>5. ASSUME NEW r, Contains(s, r) PROVE Contains(t, r)
    BY <1>1, <2>2, <2>5 DEF Contains
  <2>6. Contains(t, x)
    BY <1>1, <2>3 DEF Contains
  <2> QED
    BY <2>4, <2>5, <2>6
<1> QED
  BY <1>1, <1>2, <1>3, <1>4 DEF t

(* What a list holds, its front or its rest holds.                         *)
LEMMA TailFacts ==
    ASSUME NEW s \in Seq(Record), s # <<>>
    PROVE  /\ Tail(s) \in Seq(Record) /\ Head(s) \in Record
           /\ \A r : Contains(s, r) <=> r = Head(s) \/ Contains(Tail(s), r)
<1>1. Len(s) \in Nat /\ Len(s) # 0
  OBVIOUS
<1>2. /\ Tail(s) \in Seq(Record) /\ Len(Tail(s)) = Len(s) - 1 /\ Head(s) = s[1]
      /\ Head(s) \in Record
      /\ \A i \in 1..(Len(s) - 1) : Tail(s)[i] = s[i + 1]
  BY <1>1
<1>3. \A r : Contains(s, r) <=> r = Head(s) \/ Contains(Tail(s), r)
  <2>1. \A i \in 1..Len(s) : i = 1 \/ i - 1 \in 1..(Len(s) - 1)
    BY <1>1
  <2>2. \A i \in 1..(Len(s) - 1) : i + 1 \in 1..Len(s)
    BY <1>1
  <2>3. 1 \in 1..Len(s) /\ \A i \in 1..Len(s) : (i - 1) + 1 = i
    BY <1>1
  <2> QED
    BY <1>2, <2>1, <2>2, <2>3 DEF Contains
<1> QED
  BY <1>2, <1>3

----------------------------------------------------------------------------
(* The invariant.                                                          *)

(* Before the first task there is nothing.                                 *)
LEMMA InitIInv == Init => IInv
<1> SUFFICES ASSUME Init PROVE IInv
  OBVIOUS
<1> USE BoundAssumption DEF Init, Record, None
<1>1. TypeInv
  BY DEF TypeInv
<1>2. SideInv /\ JournalInv
  BY DEF SideInv, JournalInv, Preparing, Rollback, Building, Armed, Windows, Pe
<1>3. NewInv /\ OldInv /\ SeqInv
  BY ListFacts DEF NewInv, OldInv, SeqInv, Building, Armed
<1>4. BuildInv /\ UndoInv
  BY DEF BuildInv, UndoInv, Armed, Building, Rollback
<1>5. EntryComplete
  BY ListFacts DEF EntryComplete, Named, Residue
<1> QED
  BY <1>1, <1>2, <1>3, <1>4, <1>5 DEF IInv

(* Every step in Windows, of the boot manager, in WinPE and of the power   *)
(* switch preserves the invariant.                                         *)
LEMMA NextIInv == IInv /\ [Next]_vars => IInv'
<1> SUFFICES ASSUME IInv, [Next]_vars PROVE IInv'
  OBVIOUS
<1> USE BoundAssumption DEF Record, None, Current, Preparing, Rollback, Building, Armed, Windows,
    Pe, store, files, journal, bounds, call
<1>0. /\ TypeInv /\ SideInv /\ JournalInv /\ NewInv /\ OldInv /\ SeqInv /\ BuildInv /\ UndoInv
      /\ EntryComplete
  BY DEF IInv
<1>1. CASE StartTask
  <2>1. TypeInv'
    BY <1>1, <1>0 DEF StartTask, TypeInv, SideInv, JournalInv
  <2>2. SideInv'
    BY <1>1, <1>0, ListFacts DEF StartTask, SideInv, JournalInv, TypeInv
  <2>3. JournalInv'
    BY <1>1, <1>0, ListFacts DEF StartTask, SideInv, JournalInv, TypeInv
  <2>4. NewInv'
    BY <1>1, <1>0, ListFacts DEF StartTask, SideInv, JournalInv, TypeInv, NewInv
  <2>5. OldInv'
    BY <1>1, <1>0 DEF StartTask, SideInv, JournalInv, TypeInv, OldInv
  <2>6. SeqInv'
    BY <1>1, <1>0, ListFacts DEF StartTask, SideInv, JournalInv, TypeInv, NewInv, SeqInv
  <2>7. BuildInv'
    BY <1>1, <1>0 DEF StartTask, SideInv, JournalInv, TypeInv, NewInv, BuildInv, EntryComplete,
        Named
  <2>8. UndoInv'
    BY <1>1, <1>0, ListFacts DEF StartTask, SideInv, JournalInv, TypeInv, NewInv, SeqInv,
        BuildInv, UndoInv, Gone
  <2>9. EntryComplete'
    BY <1>1, <1>0, ListFacts DEF StartTask, SideInv, JournalInv, TypeInv, NewInv, SeqInv,
        BuildInv, UndoInv, Gone, EntryComplete, Named, Residue
  <2> QED
    BY <2>1, <2>2, <2>3, <2>4, <2>5, <2>6, <2>7, <2>8, <2>9 DEF IInv
<1>2. CASE RecoverPending
  <2>1. TypeInv'
    BY <1>2, <1>0 DEF RecoverPending, TypeInv, SideInv, JournalInv
  <2>2. SideInv'
    BY <1>2, <1>0, ListFacts DEF RecoverPending, SideInv, JournalInv, TypeInv
  <2>3. JournalInv'
    BY <1>2, <1>0, ListFacts DEF RecoverPending, SideInv, JournalInv, TypeInv
  <2>4. NewInv'
    BY <1>2, <1>0, ListFacts DEF RecoverPending, SideInv, JournalInv, TypeInv, NewInv
  <2>5. OldInv'
    BY <1>2, <1>0 DEF RecoverPending, SideInv, JournalInv, TypeInv, OldInv
  <2>6. SeqInv'
    BY <1>2, <1>0, ListFacts DEF RecoverPending, SideInv, JournalInv, TypeInv, NewInv, SeqInv
  <2>7. BuildInv'
    BY <1>2, <1>0 DEF RecoverPending, SideInv, JournalInv, TypeInv, NewInv, BuildInv,
        EntryComplete, Named
  <2>8. UndoInv'
    BY <1>2, <1>0, ListFacts DEF RecoverPending, SideInv, JournalInv, TypeInv, NewInv, SeqInv,
        BuildInv, UndoInv, Gone
  <2>9. EntryComplete'
    BY <1>2, <1>0, ListFacts DEF RecoverPending, SideInv, JournalInv, TypeInv, NewInv, SeqInv,
        BuildInv, UndoInv, Gone, EntryComplete, Named, Residue
  <2> QED
    BY <2>1, <2>2, <2>3, <2>4, <2>5, <2>6, <2>7, <2>8, <2>9 DEF IInv
<1>3. CASE DropPending
  <2>1. TypeInv'
    BY <1>3, <1>0 DEF DropPending, Attempt, Fault, Set, TypeInv, SideInv, JournalInv
  <2>2. SideInv'
    BY <1>3, <1>0, ListFacts DEF DropPending, Attempt, Fault, Set, SideInv, JournalInv, TypeInv
  <2>3. JournalInv'
    BY <1>3, <1>0, ListFacts DEF DropPending, Attempt, Fault, Set, SideInv, JournalInv, TypeInv
  <2>4. NewInv'
    BY <1>3, <1>0, ListFacts DEF DropPending, Attempt, Fault, Set, SideInv, JournalInv, TypeInv,
        NewInv
  <2>5. OldInv'
    BY <1>3, <1>0 DEF DropPending, Attempt, Fault, Set, SideInv, JournalInv, TypeInv, OldInv
  <2>6. SeqInv'
    BY <1>3, <1>0, ListFacts DEF DropPending, Attempt, Fault, Set, SideInv, JournalInv, TypeInv,
        NewInv, SeqInv
  <2>7. BuildInv'
    BY <1>3, <1>0 DEF DropPending, Attempt, Fault, Set, SideInv, JournalInv, TypeInv, NewInv,
        BuildInv, EntryComplete, Named
  <2>8. UndoInv'
    BY <1>3, <1>0, ListFacts DEF DropPending, Attempt, Fault, Set, SideInv, JournalInv, TypeInv,
        NewInv, SeqInv, BuildInv, UndoInv, Gone
  <2>9. EntryComplete'
    BY <1>3, <1>0, ListFacts DEF DropPending, Attempt, Fault, Set, SideInv, JournalInv, TypeInv,
        NewInv, SeqInv, BuildInv, UndoInv, Gone, EntryComplete, Named, Residue
  <2> QED
    BY <2>1, <2>2, <2>3, <2>4, <2>5, <2>6, <2>7, <2>8, <2>9 DEF IInv
<1>4. CASE CleanupOldEntries
  <2>1. TypeInv'
    BY <1>4, <1>0 DEF CleanupOldEntries, TypeInv, SideInv, JournalInv
  <2>2. SideInv'
    BY <1>4, <1>0, ListFacts DEF CleanupOldEntries, SideInv, JournalInv, TypeInv
  <2>3. JournalInv'
    BY <1>4, <1>0, ListFacts DEF CleanupOldEntries, SideInv, JournalInv, TypeInv
  <2>4. NewInv'
    BY <1>4, <1>0, ListFacts DEF CleanupOldEntries, SideInv, JournalInv, TypeInv, NewInv
  <2>5. OldInv'
    BY <1>4, <1>0 DEF CleanupOldEntries, SideInv, JournalInv, TypeInv, OldInv
  <2>6. SeqInv'
    BY <1>4, <1>0, ListFacts DEF CleanupOldEntries, SideInv, JournalInv, TypeInv, NewInv, SeqInv
  <2>7. BuildInv'
    BY <1>4, <1>0 DEF CleanupOldEntries, SideInv, JournalInv, TypeInv, NewInv, BuildInv,
        EntryComplete, Named
  <2>8. UndoInv'
    BY <1>4, <1>0, ListFacts DEF CleanupOldEntries, SideInv, JournalInv, TypeInv, NewInv, SeqInv,
        BuildInv, UndoInv, Gone
  <2>9. EntryComplete'
    BY <1>4, <1>0, ListFacts DEF CleanupOldEntries, SideInv, JournalInv, TypeInv, NewInv, SeqInv,
        BuildInv, UndoInv, Gone, EntryComplete, Named, Residue
  <2> QED
    BY <2>1, <2>2, <2>3, <2>4, <2>5, <2>6, <2>7, <2>8, <2>9 DEF IInv
<1>5. CASE DropActive
  <2>1. TypeInv'
    BY <1>5, <1>0 DEF DropActive, Attempt, Fault, Set, TypeInv, SideInv, JournalInv
  <2>2. SideInv'
    BY <1>5, <1>0, ListFacts DEF DropActive, Attempt, Fault, Set, SideInv, JournalInv, TypeInv
  <2>3. JournalInv'
    BY <1>5, <1>0, ListFacts DEF DropActive, Attempt, Fault, Set, SideInv, JournalInv, TypeInv
  <2>4. NewInv'
    BY <1>5, <1>0, ListFacts DEF DropActive, Attempt, Fault, Set, SideInv, JournalInv, TypeInv,
        NewInv
  <2>5. OldInv'
    BY <1>5, <1>0 DEF DropActive, Attempt, Fault, Set, SideInv, JournalInv, TypeInv, OldInv
  <2>6. SeqInv'
    BY <1>5, <1>0, ListFacts DEF DropActive, Attempt, Fault, Set, SideInv, JournalInv, TypeInv,
        NewInv, SeqInv
  <2>7. BuildInv'
    BY <1>5, <1>0 DEF DropActive, Attempt, Fault, Set, SideInv, JournalInv, TypeInv, NewInv,
        BuildInv, EntryComplete, Named
  <2>8. UndoInv'
    BY <1>5, <1>0, ListFacts DEF DropActive, Attempt, Fault, Set, SideInv, JournalInv, TypeInv,
        NewInv, SeqInv, BuildInv, UndoInv, Gone
  <2>9. EntryComplete'
    BY <1>5, <1>0, ListFacts DEF DropActive, Attempt, Fault, Set, SideInv, JournalInv, TypeInv,
        NewInv, SeqInv, BuildInv, UndoInv, Gone, EntryComplete, Named, Residue
  <2> QED
    BY <2>1, <2>2, <2>3, <2>4, <2>5, <2>6, <2>7, <2>8, <2>9 DEF IInv
<1>6. CASE CleanupOrphans
  <2>1. TypeInv'
    <3>1. wim' \in [Record -> {"absent", "plain", "handoff"}]
      BY <1>6, <1>0 DEF CleanupOrphans, TypeInv
    <3>2. sdi' \subseteq Record
      BY <1>6, <1>0 DEF CleanupOrphans, TypeInv
    <3>3. faults' \in Nat /\ crashes' \in Nat
      BY <1>6, <1>0 DEF CleanupOrphans, Fault, TypeInv
    <3> QED
      BY <1>6, <1>0, <3>1, <3>2, <3>3 DEF CleanupOrphans, TypeInv
  <2>2. SideInv'
    BY <1>6, <1>0, ListFacts DEF CleanupOrphans, Fault, SideInv, JournalInv, TypeInv
  <2>3. JournalInv'
    BY <1>6, <1>0, ListFacts DEF CleanupOrphans, Fault, SideInv, JournalInv, TypeInv
  <2>4. NewInv'
    BY <1>6, <1>0, ListFacts DEF CleanupOrphans, Fault, SideInv, JournalInv, TypeInv, NewInv
  <2>5. OldInv'
    BY <1>6, <1>0 DEF CleanupOrphans, Fault, SideInv, JournalInv, TypeInv, OldInv
  <2>6. SeqInv'
    BY <1>6, <1>0, ListFacts DEF CleanupOrphans, Fault, SideInv, JournalInv, TypeInv, NewInv,
        SeqInv
  <2>7. BuildInv'
    BY <1>6, <1>0 DEF CleanupOrphans, Fault, SideInv, JournalInv, TypeInv, NewInv, BuildInv,
        EntryComplete, Named
  <2>8. UndoInv'
    BY <1>6, <1>0, ListFacts DEF CleanupOrphans, Fault, SideInv, JournalInv, TypeInv, NewInv,
        SeqInv, BuildInv, UndoInv, Gone
  <2>9. EntryComplete'
    BY <1>6, <1>0, ListFacts DEF CleanupOrphans, Fault, SideInv, JournalInv, TypeInv, NewInv,
        SeqInv, BuildInv, UndoInv, Gone, EntryComplete, Named, Residue
  <2> QED
    BY <2>1, <2>2, <2>3, <2>4, <2>5, <2>6, <2>7, <2>8, <2>9 DEF IInv
<1>7. CASE WritePending
  <2>a. started + 1 \in Record /\ started \in Nat /\ pending = None /\ active = <<>>
    BY <1>7, <1>0 DEF WritePending, TypeInv, SideInv, JournalInv
  <2>1. TypeInv'
    BY <1>7, <1>0, <2>a DEF WritePending, Attempt, Fault, Set, TypeInv, SideInv, JournalInv
  <2>2. SideInv'
    BY <1>7, <1>0, <2>a, ListFacts DEF WritePending, Attempt, Fault, Set, SideInv, JournalInv,
        TypeInv
  <2>3. JournalInv'
    BY <1>7, <1>0, <2>a, ListFacts DEF WritePending, Attempt, Fault, Set, SideInv, JournalInv,
        TypeInv
  <2>4. NewInv'
    BY <1>7, <1>0, <2>a, ListFacts DEF WritePending, Attempt, Fault, Set, SideInv, JournalInv,
        TypeInv, NewInv
  <2>5. OldInv'
    BY <1>7, <1>0, <2>a DEF WritePending, Attempt, Fault, Set, SideInv, JournalInv, TypeInv,
        OldInv
  <2>6. SeqInv'
    <3>1. ~Contains(seq, started + 1)
      BY <1>0, <2>a DEF NewInv
    <3>2. seq # <<>> => ~Contains(Tail(seq), started + 1)
      BY <1>0, <3>1, TailFacts DEF TypeInv
    <3> QED
      BY <1>7, <1>0, <2>a, <3>1, <3>2 DEF WritePending, Attempt, Fault, SideInv, SeqInv
  <2>7. BuildInv'
    BY <1>7, <1>0, <2>a DEF WritePending, Attempt, Fault, Set, SideInv, JournalInv, TypeInv,
        NewInv, BuildInv, EntryComplete, Named
  <2>8. UndoInv'
    BY <1>7, <1>0, <2>a, ListFacts DEF WritePending, Attempt, Fault, Set, SideInv, JournalInv,
        TypeInv, NewInv, SeqInv, BuildInv, UndoInv, Gone
  <2>9. EntryComplete'
    BY <1>7, <1>0, <2>a, ListFacts DEF WritePending, Attempt, Fault, Set, SideInv, JournalInv,
        TypeInv, NewInv, SeqInv, BuildInv, UndoInv, Gone, EntryComplete, Named, Residue
  <2> QED
    BY <2>1, <2>2, <2>3, <2>4, <2>5, <2>6, <2>7, <2>8, <2>9 DEF IInv
<1>8. CASE CopyWim
  <2>1. TypeInv'
    BY <1>8, <1>0 DEF CopyWim, Attempt, Fault, Set, TypeInv, SideInv, JournalInv
  <2>2. SideInv'
    BY <1>8, <1>0, ListFacts DEF CopyWim, Attempt, Fault, Set, SideInv, JournalInv, TypeInv
  <2>3. JournalInv'
    BY <1>8, <1>0, ListFacts DEF CopyWim, Attempt, Fault, Set, SideInv, JournalInv, TypeInv
  <2>4. NewInv'
    BY <1>8, <1>0, ListFacts DEF CopyWim, Attempt, Fault, Set, SideInv, JournalInv, TypeInv,
        NewInv
  <2>5. OldInv'
    BY <1>8, <1>0 DEF CopyWim, Attempt, Fault, Set, SideInv, JournalInv, TypeInv, OldInv
  <2>6. SeqInv'
    BY <1>8, <1>0, ListFacts DEF CopyWim, Attempt, Fault, Set, SideInv, JournalInv, TypeInv,
        NewInv, SeqInv
  <2>7. BuildInv'
    BY <1>8, <1>0 DEF CopyWim, Attempt, Fault, Set, SideInv, JournalInv, TypeInv, NewInv,
        BuildInv, EntryComplete, Named
  <2>8. UndoInv'
    BY <1>8, <1>0, ListFacts DEF CopyWim, Attempt, Fault, Set, SideInv, JournalInv, TypeInv,
        NewInv, SeqInv, BuildInv, UndoInv, Gone
  <2>9. EntryComplete'
    BY <1>8, <1>0, ListFacts DEF CopyWim, Attempt, Fault, Set, SideInv, JournalInv, TypeInv,
        NewInv, SeqInv, BuildInv, UndoInv, Gone, EntryComplete, Named, Residue
  <2> QED
    BY <2>1, <2>2, <2>3, <2>4, <2>5, <2>6, <2>7, <2>8, <2>9 DEF IInv
<1>9. CASE InjectHandoff
  <2>1. TypeInv'
    BY <1>9, <1>0 DEF InjectHandoff, Attempt, Fault, Set, TypeInv, SideInv, JournalInv
  <2>2. SideInv'
    BY <1>9, <1>0, ListFacts DEF InjectHandoff, Attempt, Fault, Set, SideInv, JournalInv, TypeInv
  <2>3. JournalInv'
    BY <1>9, <1>0, ListFacts DEF InjectHandoff, Attempt, Fault, Set, SideInv, JournalInv, TypeInv
  <2>4. NewInv'
    BY <1>9, <1>0, ListFacts DEF InjectHandoff, Attempt, Fault, Set, SideInv, JournalInv,
        TypeInv, NewInv
  <2>5. OldInv'
    BY <1>9, <1>0 DEF InjectHandoff, Attempt, Fault, Set, SideInv, JournalInv, TypeInv, OldInv
  <2>6. SeqInv'
    BY <1>9, <1>0, ListFacts DEF InjectHandoff, Attempt, Fault, Set, SideInv, JournalInv,
        TypeInv, NewInv, SeqInv
  <2>7. BuildInv'
    BY <1>9, <1>0 DEF InjectHandoff, Attempt, Fault, Set, SideInv, JournalInv, TypeInv, NewInv,
        BuildInv, EntryComplete, Named
  <2>8. UndoInv'
    BY <1>9, <1>0, ListFacts DEF InjectHandoff, Attempt, Fault, Set, SideInv, JournalInv,
        TypeInv, NewInv, SeqInv, BuildInv, UndoInv, Gone
  <2>9. EntryComplete'
    BY <1>9, <1>0, ListFacts DEF InjectHandoff, Attempt, Fault, Set, SideInv, JournalInv,
        TypeInv, NewInv, SeqInv, BuildInv, UndoInv, Gone, EntryComplete, Named, Residue
  <2> QED
    BY <2>1, <2>2, <2>3, <2>4, <2>5, <2>6, <2>7, <2>8, <2>9 DEF IInv
<1>10. CASE CopySdi
  <2>a. started \in Record
    BY <1>10, <1>0 DEF CopySdi, TypeInv, SideInv, JournalInv
  <2>1. TypeInv'
    <3>1. sdi' \subseteq Record
      BY <1>10, <1>0, <2>a DEF CopySdi, Attempt, TypeInv
    <3> QED
      BY <1>10, <1>0, <3>1 DEF CopySdi, Attempt, Fault, TypeInv
  <2>2. SideInv'
    BY <1>10, <1>0, <2>a, ListFacts DEF CopySdi, Attempt, Fault, Set, SideInv, JournalInv, TypeInv
  <2>3. JournalInv'
    BY <1>10, <1>0, <2>a, ListFacts DEF CopySdi, Attempt, Fault, Set, SideInv, JournalInv, TypeInv
  <2>4. NewInv'
    BY <1>10, <1>0, <2>a, ListFacts DEF CopySdi, Attempt, Fault, Set, SideInv, JournalInv,
        TypeInv, NewInv
  <2>5. OldInv'
    BY <1>10, <1>0, <2>a DEF CopySdi, Attempt, Fault, Set, SideInv, JournalInv, TypeInv, OldInv
  <2>6. SeqInv'
    BY <1>10, <1>0, <2>a, ListFacts DEF CopySdi, Attempt, Fault, Set, SideInv, JournalInv,
        TypeInv, NewInv, SeqInv
  <2>7. BuildInv'
    BY <1>10, <1>0, <2>a DEF CopySdi, Attempt, Fault, Set, SideInv, JournalInv, TypeInv, NewInv,
        BuildInv, EntryComplete, Named
  <2>8. UndoInv'
    BY <1>10, <1>0, <2>a, ListFacts DEF CopySdi, Attempt, Fault, Set, SideInv, JournalInv,
        TypeInv, NewInv, SeqInv, BuildInv, UndoInv, Gone
  <2>9. EntryComplete'
    BY <1>10, <1>0, <2>a, ListFacts DEF CopySdi, Attempt, Fault, Set, SideInv, JournalInv,
        TypeInv, NewInv, SeqInv, BuildInv, UndoInv, Gone, EntryComplete, Named, Residue
  <2> QED
    BY <2>1, <2>2, <2>3, <2>4, <2>5, <2>6, <2>7, <2>8, <2>9 DEF IInv
<1>11. CASE CreateRamdisk
  <2>1. TypeInv'
    BY <1>11, <1>0 DEF CreateRamdisk, Attempt, Fault, Set, TypeInv, SideInv, JournalInv
  <2>2. SideInv'
    BY <1>11, <1>0, ListFacts DEF CreateRamdisk, Attempt, Fault, Set, SideInv, JournalInv, TypeInv
  <2>3. JournalInv'
    BY <1>11, <1>0, ListFacts DEF CreateRamdisk, Attempt, Fault, Set, SideInv, JournalInv, TypeInv
  <2>4. NewInv'
    BY <1>11, <1>0, ListFacts DEF CreateRamdisk, Attempt, Fault, Set, SideInv, JournalInv,
        TypeInv, NewInv
  <2>5. OldInv'
    BY <1>11, <1>0 DEF CreateRamdisk, Attempt, Fault, Set, SideInv, JournalInv, TypeInv, OldInv
  <2>6. SeqInv'
    BY <1>11, <1>0, ListFacts DEF CreateRamdisk, Attempt, Fault, Set, SideInv, JournalInv,
        TypeInv, NewInv, SeqInv
  <2>7. BuildInv'
    BY <1>11, <1>0 DEF CreateRamdisk, Attempt, Fault, Set, SideInv, JournalInv, TypeInv, NewInv,
        BuildInv, EntryComplete, Named
  <2>8. UndoInv'
    BY <1>11, <1>0, ListFacts DEF CreateRamdisk, Attempt, Fault, Set, SideInv, JournalInv,
        TypeInv, NewInv, SeqInv, BuildInv, UndoInv, Gone
  <2>9. EntryComplete'
    BY <1>11, <1>0, ListFacts DEF CreateRamdisk, Attempt, Fault, Set, SideInv, JournalInv,
        TypeInv, NewInv, SeqInv, BuildInv, UndoInv, Gone, EntryComplete, Named, Residue
  <2> QED
    BY <2>1, <2>2, <2>3, <2>4, <2>5, <2>6, <2>7, <2>8, <2>9 DEF IInv
<1>12. CASE SetRamdisk
  <2>1. TypeInv'
    BY <1>12, <1>0 DEF SetRamdisk, Attempt, Fault, Set, TypeInv, SideInv, JournalInv
  <2>2. SideInv'
    BY <1>12, <1>0, ListFacts DEF SetRamdisk, Attempt, Fault, Set, SideInv, JournalInv, TypeInv
  <2>3. JournalInv'
    BY <1>12, <1>0, ListFacts DEF SetRamdisk, Attempt, Fault, Set, SideInv, JournalInv, TypeInv
  <2>4. NewInv'
    BY <1>12, <1>0, ListFacts DEF SetRamdisk, Attempt, Fault, Set, SideInv, JournalInv, TypeInv,
        NewInv
  <2>5. OldInv'
    BY <1>12, <1>0 DEF SetRamdisk, Attempt, Fault, Set, SideInv, JournalInv, TypeInv, OldInv
  <2>6. SeqInv'
    BY <1>12, <1>0, ListFacts DEF SetRamdisk, Attempt, Fault, Set, SideInv, JournalInv, TypeInv,
        NewInv, SeqInv
  <2>7. BuildInv'
    BY <1>12, <1>0 DEF SetRamdisk, Attempt, Fault, Set, SideInv, JournalInv, TypeInv, NewInv,
        BuildInv, EntryComplete, Named
  <2>8. UndoInv'
    BY <1>12, <1>0, ListFacts DEF SetRamdisk, Attempt, Fault, Set, SideInv, JournalInv, TypeInv,
        NewInv, SeqInv, BuildInv, UndoInv, Gone
  <2>9. EntryComplete'
    BY <1>12, <1>0, ListFacts DEF SetRamdisk, Attempt, Fault, Set, SideInv, JournalInv, TypeInv,
        NewInv, SeqInv, BuildInv, UndoInv, Gone, EntryComplete, Named, Residue
  <2> QED
    BY <2>1, <2>2, <2>3, <2>4, <2>5, <2>6, <2>7, <2>8, <2>9 DEF IInv
<1>13. CASE CreateLoader
  <2>1. TypeInv'
    BY <1>13, <1>0 DEF CreateLoader, Attempt, Fault, Set, TypeInv, SideInv, JournalInv
  <2>2. SideInv'
    BY <1>13, <1>0, ListFacts DEF CreateLoader, Attempt, Fault, Set, SideInv, JournalInv, TypeInv
  <2>3. JournalInv'
    BY <1>13, <1>0, ListFacts DEF CreateLoader, Attempt, Fault, Set, SideInv, JournalInv, TypeInv
  <2>4. NewInv'
    BY <1>13, <1>0, ListFacts DEF CreateLoader, Attempt, Fault, Set, SideInv, JournalInv,
        TypeInv, NewInv
  <2>5. OldInv'
    BY <1>13, <1>0 DEF CreateLoader, Attempt, Fault, Set, SideInv, JournalInv, TypeInv, OldInv
  <2>6. SeqInv'
    BY <1>13, <1>0, ListFacts DEF CreateLoader, Attempt, Fault, Set, SideInv, JournalInv,
        TypeInv, NewInv, SeqInv
  <2>7. BuildInv'
    BY <1>13, <1>0 DEF CreateLoader, Attempt, Fault, Set, SideInv, JournalInv, TypeInv, NewInv,
        BuildInv, EntryComplete, Named
  <2>8. UndoInv'
    BY <1>13, <1>0, ListFacts DEF CreateLoader, Attempt, Fault, Set, SideInv, JournalInv,
        TypeInv, NewInv, SeqInv, BuildInv, UndoInv, Gone
  <2>9. EntryComplete'
    BY <1>13, <1>0, ListFacts DEF CreateLoader, Attempt, Fault, Set, SideInv, JournalInv,
        TypeInv, NewInv, SeqInv, BuildInv, UndoInv, Gone, EntryComplete, Named, Residue
  <2> QED
    BY <2>1, <2>2, <2>3, <2>4, <2>5, <2>6, <2>7, <2>8, <2>9 DEF IInv
<1>14. CASE SetLoader
  <2>1. TypeInv'
    BY <1>14, <1>0 DEF SetLoader, Attempt, Fault, Set, TypeInv, SideInv, JournalInv
  <2>2. SideInv'
    BY <1>14, <1>0, ListFacts DEF SetLoader, Attempt, Fault, Set, SideInv, JournalInv, TypeInv
  <2>3. JournalInv'
    BY <1>14, <1>0, ListFacts DEF SetLoader, Attempt, Fault, Set, SideInv, JournalInv, TypeInv
  <2>4. NewInv'
    BY <1>14, <1>0, ListFacts DEF SetLoader, Attempt, Fault, Set, SideInv, JournalInv, TypeInv,
        NewInv
  <2>5. OldInv'
    BY <1>14, <1>0 DEF SetLoader, Attempt, Fault, Set, SideInv, JournalInv, TypeInv, OldInv
  <2>6. SeqInv'
    BY <1>14, <1>0, ListFacts DEF SetLoader, Attempt, Fault, Set, SideInv, JournalInv, TypeInv,
        NewInv, SeqInv
  <2>7. BuildInv'
    BY <1>14, <1>0 DEF SetLoader, Attempt, Fault, Set, SideInv, JournalInv, TypeInv, NewInv,
        BuildInv, EntryComplete, Named
  <2>8. UndoInv'
    BY <1>14, <1>0, ListFacts DEF SetLoader, Attempt, Fault, Set, SideInv, JournalInv, TypeInv,
        NewInv, SeqInv, BuildInv, UndoInv, Gone
  <2>9. EntryComplete'
    BY <1>14, <1>0, ListFacts DEF SetLoader, Attempt, Fault, Set, SideInv, JournalInv, TypeInv,
        NewInv, SeqInv, BuildInv, UndoInv, Gone, EntryComplete, Named, Residue
  <2> QED
    BY <2>1, <2>2, <2>3, <2>4, <2>5, <2>6, <2>7, <2>8, <2>9 DEF IInv
<1>15. CASE AddOneShotBoot
  <2>a. /\ started \in Record /\ pc = "arm" /\ ~Contains(seq, started) /\ seq \in Seq(Record)
        /\ UNCHANGED <<loader, ramdisk, wim, sdi, pending, active, side, started, iso, caller>>
        /\ UNCHANGED <<todo, clean, answer>>
        /\ \/ pc' = "armed" /\ UNCHANGED <<faults, crashes>>
           \/ pc' = "undo" /\ faults' = faults + 1 /\ UNCHANGED crashes
    BY <1>15, <1>0 DEF AddOneShotBoot, Attempt, Fault, TypeInv, JournalInv, SeqInv
  <2>b. /\ seq' \in Seq(Record)
        /\ \A r : Contains(seq', r) => r = started \/ Contains(seq, r)
        /\ seq' # <<>> => ~Contains(Tail(seq'), started)
        /\ pc' = "armed" => seq' # <<>> /\ Head(seq') = started
    <3> DEFINE t == <<started>> \o seq
    <3>1. (pc' = "armed" /\ seq' = t) \/ (pc' = "undo" /\ (seq' = t \/ seq' = seq))
      BY <1>15 DEF AddOneShotBoot, Attempt
    <3>2. /\ t \in Seq(Record) /\ t # <<>> /\ Head(t) = started /\ Tail(t) = seq
          /\ \A r : Contains(t, r) <=> r = started \/ Contains(seq, r)
      BY <2>a, FrontFacts
    <3> HIDE DEF t
    <3>3. seq # <<>> => ~Contains(Tail(seq), started)
      BY <1>0 DEF SeqInv
    <3>4. CASE seq' = t
      BY <2>a, <3>2, <3>4
    <3>5. CASE seq' = seq /\ pc' = "undo"
      BY <2>a, <3>3, <3>5
    <3> QED
      BY <3>1, <3>4, <3>5
  <2>1. TypeInv'
    BY <1>0, <2>a, <2>b DEF TypeInv, SideInv, JournalInv
  <2>2. SideInv'
    BY <1>0, <2>a, <2>b DEF SideInv, JournalInv, TypeInv
  <2>3. JournalInv'
    BY <1>0, <2>a, <2>b DEF SideInv, JournalInv, TypeInv
  <2>4. NewInv'
    BY <1>0, <2>a, <2>b DEF SideInv, JournalInv, TypeInv, NewInv
  <2>5. OldInv'
    BY <1>0, <2>a, <2>b DEF SideInv, JournalInv, TypeInv, OldInv
  <2>6. SeqInv'
    BY <1>0, <2>a, <2>b DEF SideInv, JournalInv, TypeInv, NewInv, SeqInv
  <2>7. BuildInv'
    BY <1>0, <2>a, <2>b DEF SideInv, JournalInv, TypeInv, NewInv, BuildInv, EntryComplete, Named
  <2>8. UndoInv'
    BY <1>0, <2>a, <2>b DEF SideInv, JournalInv, TypeInv, NewInv, SeqInv, BuildInv, UndoInv, Gone
  <2>9. EntryComplete'
    BY <1>0, <2>a, <2>b DEF SideInv, JournalInv, TypeInv, NewInv, SeqInv, BuildInv, UndoInv,
        Gone, EntryComplete, Named, Residue
  <2> QED
    BY <2>1, <2>2, <2>3, <2>4, <2>5, <2>6, <2>7, <2>8, <2>9 DEF IInv
<1>16. CASE CommitRecord
  <2>1. TypeInv'
    BY <1>16, <1>0 DEF CommitRecord, Attempt, Fault, Set, TypeInv, SideInv, JournalInv
  <2>2. SideInv'
    BY <1>16, <1>0, ListFacts DEF CommitRecord, Attempt, Fault, Set, SideInv, JournalInv, TypeInv
  <2>3. JournalInv'
    BY <1>16, <1>0, ListFacts DEF CommitRecord, Attempt, Fault, Set, SideInv, JournalInv, TypeInv
  <2>4. NewInv'
    BY <1>16, <1>0, ListFacts DEF CommitRecord, Attempt, Fault, Set, SideInv, JournalInv,
        TypeInv, NewInv
  <2>5. OldInv'
    BY <1>16, <1>0 DEF CommitRecord, Attempt, Fault, Set, SideInv, JournalInv, TypeInv, OldInv
  <2>6. SeqInv'
    BY <1>16, <1>0, ListFacts DEF CommitRecord, Attempt, Fault, Set, SideInv, JournalInv,
        TypeInv, NewInv, SeqInv
  <2>7. BuildInv'
    BY <1>16, <1>0 DEF CommitRecord, Attempt, Fault, Set, SideInv, JournalInv, TypeInv, NewInv,
        BuildInv, EntryComplete, Named
  <2>8. UndoInv'
    BY <1>16, <1>0, ListFacts DEF CommitRecord, Attempt, Fault, Set, SideInv, JournalInv,
        TypeInv, NewInv, SeqInv, BuildInv, UndoInv, Gone
  <2>9. EntryComplete'
    BY <1>16, <1>0, ListFacts DEF CommitRecord, Attempt, Fault, Set, SideInv, JournalInv,
        TypeInv, NewInv, SeqInv, BuildInv, UndoInv, Gone, EntryComplete, Named, Residue
  <2> QED
    BY <2>1, <2>2, <2>3, <2>4, <2>5, <2>6, <2>7, <2>8, <2>9 DEF IInv
<1>17. CASE CommitPending
  <2>1. TypeInv'
    BY <1>17, <1>0 DEF CommitPending, Attempt, Fault, Set, TypeInv, SideInv, JournalInv
  <2>2. SideInv'
    BY <1>17, <1>0, ListFacts DEF CommitPending, Attempt, Fault, Set, SideInv, JournalInv, TypeInv
  <2>3. JournalInv'
    BY <1>17, <1>0, ListFacts DEF CommitPending, Attempt, Fault, Set, SideInv, JournalInv, TypeInv
  <2>4. NewInv'
    BY <1>17, <1>0, ListFacts DEF CommitPending, Attempt, Fault, Set, SideInv, JournalInv,
        TypeInv, NewInv
  <2>5. OldInv'
    BY <1>17, <1>0 DEF CommitPending, Attempt, Fault, Set, SideInv, JournalInv, TypeInv, OldInv
  <2>6. SeqInv'
    BY <1>17, <1>0, ListFacts DEF CommitPending, Attempt, Fault, Set, SideInv, JournalInv,
        TypeInv, NewInv, SeqInv
  <2>7. BuildInv'
    BY <1>17, <1>0 DEF CommitPending, Attempt, Fault, Set, SideInv, JournalInv, TypeInv, NewInv,
        BuildInv, EntryComplete, Named
  <2>8. UndoInv'
    BY <1>17, <1>0, ListFacts DEF CommitPending, Attempt, Fault, Set, SideInv, JournalInv,
        TypeInv, NewInv, SeqInv, BuildInv, UndoInv, Gone
  <2>9. EntryComplete'
    BY <1>17, <1>0, ListFacts DEF CommitPending, Attempt, Fault, Set, SideInv, JournalInv,
        TypeInv, NewInv, SeqInv, BuildInv, UndoInv, Gone, EntryComplete, Named, Residue
  <2> QED
    BY <2>1, <2>2, <2>3, <2>4, <2>5, <2>6, <2>7, <2>8, <2>9 DEF IInv
<1>18. CASE Cancel
  <2>1. TypeInv'
    BY <1>18, <1>0 DEF Cancel, TypeInv, SideInv, JournalInv
  <2>2. SideInv'
    BY <1>18, <1>0, ListFacts DEF Cancel, SideInv, JournalInv, TypeInv
  <2>3. JournalInv'
    BY <1>18, <1>0, ListFacts DEF Cancel, SideInv, JournalInv, TypeInv
  <2>4. NewInv'
    BY <1>18, <1>0, ListFacts DEF Cancel, SideInv, JournalInv, TypeInv, NewInv
  <2>5. OldInv'
    BY <1>18, <1>0 DEF Cancel, SideInv, JournalInv, TypeInv, OldInv
  <2>6. SeqInv'
    BY <1>18, <1>0, ListFacts DEF Cancel, SideInv, JournalInv, TypeInv, NewInv, SeqInv
  <2>7. BuildInv'
    BY <1>18, <1>0 DEF Cancel, SideInv, JournalInv, TypeInv, NewInv, BuildInv, EntryComplete,
        Named
  <2>8. UndoInv'
    BY <1>18, <1>0, ListFacts DEF Cancel, SideInv, JournalInv, TypeInv, NewInv, SeqInv, BuildInv,
        UndoInv, Gone
  <2>9. EntryComplete'
    BY <1>18, <1>0, ListFacts DEF Cancel, SideInv, JournalInv, TypeInv, NewInv, SeqInv, BuildInv,
        UndoInv, Gone, EntryComplete, Named, Residue
  <2> QED
    BY <2>1, <2>2, <2>3, <2>4, <2>5, <2>6, <2>7, <2>8, <2>9 DEF IInv
<1>19. CASE Undo
  <2>1. TypeInv'
    BY <1>19, <1>0 DEF Undo, TypeInv, SideInv, JournalInv
  <2>2. SideInv'
    BY <1>19, <1>0, ListFacts DEF Undo, SideInv, JournalInv, TypeInv
  <2>3. JournalInv'
    BY <1>19, <1>0, ListFacts DEF Undo, SideInv, JournalInv, TypeInv
  <2>4. NewInv'
    BY <1>19, <1>0, ListFacts DEF Undo, SideInv, JournalInv, TypeInv, NewInv
  <2>5. OldInv'
    BY <1>19, <1>0 DEF Undo, SideInv, JournalInv, TypeInv, OldInv
  <2>6. SeqInv'
    BY <1>19, <1>0, ListFacts DEF Undo, SideInv, JournalInv, TypeInv, NewInv, SeqInv
  <2>7. BuildInv'
    BY <1>19, <1>0 DEF Undo, SideInv, JournalInv, TypeInv, NewInv, BuildInv, EntryComplete, Named
  <2>8. UndoInv'
    BY <1>19, <1>0, ListFacts DEF Undo, SideInv, JournalInv, TypeInv, NewInv, SeqInv, BuildInv,
        UndoInv, Gone
  <2>9. EntryComplete'
    BY <1>19, <1>0, ListFacts DEF Undo, SideInv, JournalInv, TypeInv, NewInv, SeqInv, BuildInv,
        UndoInv, Gone, EntryComplete, Named, Residue
  <2> QED
    BY <2>1, <2>2, <2>3, <2>4, <2>5, <2>6, <2>7, <2>8, <2>9 DEF IInv
<1>20. CASE UndoJournal
  <2>1. TypeInv'
    BY <1>20, <1>0 DEF UndoJournal, Fault, Set, TypeInv, SideInv, JournalInv
  <2>2. SideInv'
    BY <1>20, <1>0, ListFacts DEF UndoJournal, Fault, Set, SideInv, JournalInv, TypeInv
  <2>3. JournalInv'
    BY <1>20, <1>0, ListFacts DEF UndoJournal, Fault, Set, SideInv, JournalInv, TypeInv
  <2>4. NewInv'
    BY <1>20, <1>0, ListFacts DEF UndoJournal, Fault, Set, SideInv, JournalInv, TypeInv, NewInv
  <2>5. OldInv'
    BY <1>20, <1>0 DEF UndoJournal, Fault, Set, SideInv, JournalInv, TypeInv, OldInv
  <2>6. SeqInv'
    BY <1>20, <1>0, ListFacts DEF UndoJournal, Fault, Set, SideInv, JournalInv, TypeInv, NewInv,
        SeqInv
  <2>7. BuildInv'
    BY <1>20, <1>0 DEF UndoJournal, Fault, Set, SideInv, JournalInv, TypeInv, NewInv, BuildInv,
        EntryComplete, Named
  <2>8. UndoInv'
    BY <1>20, <1>0, ListFacts DEF UndoJournal, Fault, Set, SideInv, JournalInv, TypeInv, NewInv,
        SeqInv, BuildInv, UndoInv, Gone
  <2>9. EntryComplete'
    BY <1>20, <1>0, ListFacts DEF UndoJournal, Fault, Set, SideInv, JournalInv, TypeInv, NewInv,
        SeqInv, BuildInv, UndoInv, Gone, EntryComplete, Named, Residue
  <2> QED
    BY <2>1, <2>2, <2>3, <2>4, <2>5, <2>6, <2>7, <2>8, <2>9 DEF IInv
<1>21. CASE RollbackSequence
  <2>a. /\ started \in Record /\ todo = <<started>> /\ Victim = started
        /\ Without(seq, started) \in Seq(Record)
        /\ \A r : Contains(Without(seq, started), r) <=> Contains(seq, r) /\ r # started
        /\ Without(seq, started) # <<>> => ~Contains(Tail(Without(seq, started)), started)
    <3>1. started \in Record /\ seq \in Seq(Record) /\ todo = <<started>>
      BY <1>21, <1>0 DEF RollbackSequence, TypeInv, SideInv
    <3>2. /\ Without(seq, started) \in Seq(Record)
          /\ \A r : Contains(Without(seq, started), r) <=> Contains(seq, r) /\ r # started
      BY <3>1, WithoutFacts
    <3>3. Without(seq, started) # <<>> => ~Contains(Tail(Without(seq, started)), started)
      BY <3>2, TailFacts
    <3> QED
      BY <3>1, <3>2, <3>3 DEF Victim
  <2>1. TypeInv'
    BY <1>21, <1>0, <2>a DEF RollbackSequence, RollbackStep, RollbackFailed, Fault, Set, TypeInv,
        SideInv, JournalInv
  <2>2. SideInv'
    BY <1>21, <1>0, <2>a, ListFacts DEF RollbackSequence, RollbackStep, RollbackFailed, Fault,
        Set, SideInv, JournalInv, TypeInv
  <2>3. JournalInv'
    BY <1>21, <1>0, <2>a, ListFacts DEF RollbackSequence, RollbackStep, RollbackFailed, Fault,
        Set, SideInv, JournalInv, TypeInv
  <2>4. NewInv'
    BY <1>21, <1>0, <2>a, ListFacts DEF RollbackSequence, RollbackStep, RollbackFailed, Fault,
        Set, SideInv, JournalInv, TypeInv, NewInv
  <2>5. OldInv'
    BY <1>21, <1>0, <2>a DEF RollbackSequence, RollbackStep, RollbackFailed, Fault, Set, SideInv,
        JournalInv, TypeInv, OldInv
  <2>6. SeqInv'
    BY <1>21, <1>0, <2>a, ListFacts DEF RollbackSequence, RollbackStep, RollbackFailed, Fault,
        Set, SideInv, JournalInv, TypeInv, NewInv, SeqInv
  <2>7. BuildInv'
    BY <1>21, <1>0, <2>a DEF RollbackSequence, RollbackStep, RollbackFailed, Fault, Set, SideInv,
        JournalInv, TypeInv, NewInv, BuildInv, EntryComplete, Named
  <2>8. UndoInv'
    BY <1>21, <1>0, <2>a, ListFacts DEF RollbackSequence, RollbackStep, RollbackFailed, Fault,
        Set, SideInv, JournalInv, TypeInv, NewInv, SeqInv, BuildInv, UndoInv, Gone
  <2>9. EntryComplete'
    BY <1>21, <1>0, <2>a, ListFacts DEF RollbackSequence, RollbackStep, RollbackFailed, Fault,
        Set, SideInv, JournalInv, TypeInv, NewInv, SeqInv, BuildInv, UndoInv, Gone,
        EntryComplete, Named, Residue
  <2> QED
    BY <2>1, <2>2, <2>3, <2>4, <2>5, <2>6, <2>7, <2>8, <2>9 DEF IInv
<1>22. CASE RollbackLoader
  <2>a. started \in Record /\ Victim = started /\ todo = <<started>> /\ side = "windows"
    <3>1. started \in Record /\ todo = <<started>> /\ side = "windows"
      BY <1>22, <1>0 DEF RollbackLoader, TypeInv, SideInv
    <3> QED
      BY <3>1 DEF Victim
  <2>1. TypeInv'
    <3>1. loader' \in [Record -> {"absent", "bare", "set"}]
      BY <1>22, <1>0, <2>a DEF RollbackLoader, RollbackStep, Set, TypeInv
    <3>2. faults' \in Nat /\ crashes' \in Nat
      BY <1>22, <1>0 DEF RollbackLoader, RollbackStep, Fault, bounds, TypeInv
    <3> QED
      BY <1>22, <1>0, <3>1, <3>2 DEF RollbackLoader, TypeInv
  <2>2. SideInv'
    BY <1>22, <1>0, <2>a, ListFacts DEF RollbackLoader, RollbackStep, RollbackFailed, Fault, Set,
        SideInv, JournalInv, TypeInv
  <2>3. JournalInv'
    BY <1>22, <1>0, <2>a, ListFacts DEF RollbackLoader, RollbackStep, RollbackFailed, Fault, Set,
        SideInv, JournalInv, TypeInv
  <2>4. NewInv'
    BY <1>22, <1>0, <2>a, ListFacts DEF RollbackLoader, RollbackStep, RollbackFailed, Fault, Set,
        SideInv, JournalInv, TypeInv, NewInv
  <2>5. OldInv'
    BY <1>22, <1>0, <2>a DEF RollbackLoader, RollbackStep, RollbackFailed, Fault, Set, SideInv,
        JournalInv, TypeInv, OldInv
  <2>6. SeqInv'
    BY <1>22, <1>0, <2>a, ListFacts DEF RollbackLoader, RollbackStep, RollbackFailed, Fault, Set,
        SideInv, JournalInv, TypeInv, NewInv, SeqInv
  <2>7. BuildInv'
    BY <1>22, <1>0, <2>a DEF RollbackLoader, RollbackStep, RollbackFailed, Fault, Set, SideInv,
        JournalInv, TypeInv, NewInv, BuildInv, EntryComplete, Named
  <2>8. UndoInv'
    BY <1>22, <1>0, <2>a, ListFacts DEF RollbackLoader, RollbackStep, RollbackFailed, Fault, Set,
        SideInv, JournalInv, TypeInv, NewInv, SeqInv, BuildInv, UndoInv, Gone
  <2>9. EntryComplete'
    BY <1>22, <1>0, <2>a, ListFacts DEF RollbackLoader, RollbackStep, RollbackFailed, Fault, Set,
        SideInv, JournalInv, TypeInv, NewInv, SeqInv, BuildInv, UndoInv, Gone, EntryComplete,
        Named, Residue
  <2> QED
    BY <2>1, <2>2, <2>3, <2>4, <2>5, <2>6, <2>7, <2>8, <2>9 DEF IInv
<1>23. CASE RollbackRamdisk
  <2>a. started \in Record /\ Victim = started /\ todo = <<started>> /\ side = "windows"
    <3>1. started \in Record /\ todo = <<started>> /\ side = "windows"
      BY <1>23, <1>0 DEF RollbackRamdisk, TypeInv, SideInv
    <3> QED
      BY <3>1 DEF Victim
  <2>1. TypeInv'
    <3>1. ramdisk' \in [Record -> {"absent", "bare", "set"}]
      BY <1>23, <1>0, <2>a DEF RollbackRamdisk, RollbackStep, Set, TypeInv
    <3>2. faults' \in Nat /\ crashes' \in Nat
      BY <1>23, <1>0 DEF RollbackRamdisk, RollbackStep, Fault, bounds, TypeInv
    <3> QED
      BY <1>23, <1>0, <3>1, <3>2 DEF RollbackRamdisk, TypeInv
  <2>2. SideInv'
    BY <1>23, <1>0, <2>a, ListFacts DEF RollbackRamdisk, RollbackStep, RollbackFailed, Fault,
        Set, SideInv, JournalInv, TypeInv
  <2>3. JournalInv'
    BY <1>23, <1>0, <2>a, ListFacts DEF RollbackRamdisk, RollbackStep, RollbackFailed, Fault,
        Set, SideInv, JournalInv, TypeInv
  <2>4. NewInv'
    BY <1>23, <1>0, <2>a, ListFacts DEF RollbackRamdisk, RollbackStep, RollbackFailed, Fault,
        Set, SideInv, JournalInv, TypeInv, NewInv
  <2>5. OldInv'
    BY <1>23, <1>0, <2>a DEF RollbackRamdisk, RollbackStep, RollbackFailed, Fault, Set, SideInv,
        JournalInv, TypeInv, OldInv
  <2>6. SeqInv'
    BY <1>23, <1>0, <2>a, ListFacts DEF RollbackRamdisk, RollbackStep, RollbackFailed, Fault,
        Set, SideInv, JournalInv, TypeInv, NewInv, SeqInv
  <2>7. BuildInv'
    BY <1>23, <1>0, <2>a DEF RollbackRamdisk, RollbackStep, RollbackFailed, Fault, Set, SideInv,
        JournalInv, TypeInv, NewInv, BuildInv, EntryComplete, Named
  <2>8. UndoInv'
    BY <1>23, <1>0, <2>a, ListFacts DEF RollbackRamdisk, RollbackStep, RollbackFailed, Fault,
        Set, SideInv, JournalInv, TypeInv, NewInv, SeqInv, BuildInv, UndoInv, Gone
  <2>9. EntryComplete'
    BY <1>23, <1>0, <2>a, ListFacts DEF RollbackRamdisk, RollbackStep, RollbackFailed, Fault,
        Set, SideInv, JournalInv, TypeInv, NewInv, SeqInv, BuildInv, UndoInv, Gone,
        EntryComplete, Named, Residue
  <2> QED
    BY <2>1, <2>2, <2>3, <2>4, <2>5, <2>6, <2>7, <2>8, <2>9 DEF IInv
<1>24. CASE RollbackWim
  <2>a. started \in Record /\ Victim = started /\ todo = <<started>> /\ side = "windows"
    <3>1. started \in Record /\ todo = <<started>> /\ side = "windows"
      BY <1>24, <1>0 DEF RollbackWim, TypeInv, SideInv
    <3> QED
      BY <3>1 DEF Victim
  <2>1. TypeInv'
    <3>1. wim' \in [Record -> {"absent", "plain", "handoff"}]
      BY <1>24, <1>0, <2>a DEF RollbackWim, Set, TypeInv
    <3>2. faults' \in Nat /\ crashes' \in Nat
      BY <1>24, <1>0 DEF RollbackWim, Fault, bounds, TypeInv
    <3> QED
      BY <1>24, <1>0, <3>1, <3>2 DEF RollbackWim, TypeInv
  <2>2. SideInv'
    BY <1>24, <1>0, <2>a, ListFacts DEF RollbackWim, Fault, Set, SideInv, JournalInv, TypeInv
  <2>3. JournalInv'
    BY <1>24, <1>0, <2>a, ListFacts DEF RollbackWim, Fault, Set, SideInv, JournalInv, TypeInv
  <2>4. NewInv'
    BY <1>24, <1>0, <2>a, ListFacts DEF RollbackWim, Fault, Set, SideInv, JournalInv, TypeInv,
        NewInv
  <2>5. OldInv'
    BY <1>24, <1>0, <2>a DEF RollbackWim, Fault, Set, SideInv, JournalInv, TypeInv, OldInv
  <2>6. SeqInv'
    BY <1>24, <1>0, <2>a, ListFacts DEF RollbackWim, Fault, Set, SideInv, JournalInv, TypeInv,
        NewInv, SeqInv
  <2>7. BuildInv'
    BY <1>24, <1>0, <2>a DEF RollbackWim, Fault, Set, SideInv, JournalInv, TypeInv, NewInv,
        BuildInv, EntryComplete, Named
  <2>8. UndoInv'
    BY <1>24, <1>0, <2>a, ListFacts DEF RollbackWim, Fault, Set, SideInv, JournalInv, TypeInv,
        NewInv, SeqInv, BuildInv, UndoInv, Gone
  <2>9. EntryComplete'
    BY <1>24, <1>0, <2>a, ListFacts DEF RollbackWim, Fault, Set, SideInv, JournalInv, TypeInv,
        NewInv, SeqInv, BuildInv, UndoInv, Gone, EntryComplete, Named, Residue
  <2> QED
    BY <2>1, <2>2, <2>3, <2>4, <2>5, <2>6, <2>7, <2>8, <2>9 DEF IInv
<1>25. CASE RollbackSdi
  <2>a. started \in Record /\ Victim = started /\ todo = <<started>> /\ side = "windows"
    <3>1. started \in Record /\ todo = <<started>> /\ side = "windows"
      BY <1>25, <1>0 DEF RollbackSdi, TypeInv, SideInv
    <3> QED
      BY <3>1 DEF Victim
  <2>1. TypeInv'
    BY <1>25, <1>0, <2>a DEF RollbackSdi, Fault, Set, RollbackFailed, TypeInv, SideInv, JournalInv
  <2>2. SideInv'
    <3>1. todo = <<started>> /\ Tail(todo) = <<>> /\ side = "windows"
      BY <2>a
    <3>2. clean' => clean
      BY <1>25 DEF RollbackSdi
    <3>3. pc' \in {"undoJournal", "idle", "dropPending", "dropActive"}
      BY <1>25, <1>0, <3>1 DEF RollbackSdi, RollbackFailed, SideInv
    <3>4. pc' \in {"dropPending", "dropActive"} => started < MaxTasks
      BY <1>25, <1>0, <3>1 DEF RollbackSdi, RollbackFailed, SideInv
    <3>5. ~clean' => faults' > 0
      BY <1>25, <1>0 DEF RollbackSdi, Fault, SideInv, TypeInv
    <3> QED
      BY <1>25, <1>0, <3>1, <3>3, <3>4, <3>5 DEF RollbackSdi, SideInv
  <2>3. JournalInv'
    BY <1>25, <1>0, <2>a, ListFacts DEF RollbackSdi, Fault, Set, RollbackFailed, SideInv,
        JournalInv, TypeInv
  <2>4. NewInv'
    BY <1>25, <1>0, <2>a, ListFacts DEF RollbackSdi, Fault, Set, RollbackFailed, SideInv,
        JournalInv, TypeInv, NewInv
  <2>5. OldInv'
    BY <1>25, <1>0, <2>a DEF RollbackSdi, Fault, Set, RollbackFailed, SideInv, JournalInv,
        TypeInv, OldInv
  <2>6. SeqInv'
    BY <1>25, <1>0, <2>a, ListFacts DEF RollbackSdi, Fault, Set, RollbackFailed, SideInv,
        JournalInv, TypeInv, NewInv, SeqInv
  <2>7. BuildInv'
    BY <1>25, <1>0, <2>a DEF RollbackSdi, Fault, Set, RollbackFailed, SideInv, JournalInv,
        TypeInv, NewInv, BuildInv, EntryComplete, Named
  <2>8. UndoInv'
    BY <1>25, <1>0, <2>a, ListFacts DEF RollbackSdi, Fault, Set, RollbackFailed, SideInv,
        JournalInv, TypeInv, NewInv, SeqInv, BuildInv, UndoInv, Gone
  <2>9. EntryComplete'
    BY <1>25, <1>0, <2>a, ListFacts DEF RollbackSdi, Fault, Set, RollbackFailed, SideInv,
        JournalInv, TypeInv, NewInv, SeqInv, BuildInv, UndoInv, Gone, EntryComplete, Named,
        Residue
  <2> QED
    BY <2>1, <2>2, <2>3, <2>4, <2>5, <2>6, <2>7, <2>8, <2>9 DEF IInv
<1>26. CASE Restart
  <2>1. TypeInv'
    BY <1>26, <1>0 DEF Restart, PowerOff, TypeInv, SideInv, JournalInv
  <2>2. SideInv'
    BY <1>26, <1>0, ListFacts DEF Restart, PowerOff, SideInv, JournalInv, TypeInv
  <2>3. JournalInv'
    BY <1>26, <1>0, ListFacts DEF Restart, PowerOff, SideInv, JournalInv, TypeInv
  <2>4. NewInv'
    BY <1>26, <1>0, ListFacts DEF Restart, PowerOff, SideInv, JournalInv, TypeInv, NewInv
  <2>5. OldInv'
    BY <1>26, <1>0 DEF Restart, PowerOff, SideInv, JournalInv, TypeInv, OldInv
  <2>6. SeqInv'
    BY <1>26, <1>0, ListFacts DEF Restart, PowerOff, SideInv, JournalInv, TypeInv, NewInv, SeqInv
  <2>7. BuildInv'
    BY <1>26, <1>0 DEF Restart, PowerOff, SideInv, JournalInv, TypeInv, NewInv, BuildInv,
        EntryComplete, Named
  <2>8. UndoInv'
    BY <1>26, <1>0, ListFacts DEF Restart, PowerOff, SideInv, JournalInv, TypeInv, NewInv,
        SeqInv, BuildInv, UndoInv, Gone
  <2>9. EntryComplete'
    BY <1>26, <1>0, ListFacts DEF Restart, PowerOff, SideInv, JournalInv, TypeInv, NewInv,
        SeqInv, BuildInv, UndoInv, Gone, EntryComplete, Named, Residue
  <2> QED
    BY <2>1, <2>2, <2>3, <2>4, <2>5, <2>6, <2>7, <2>8, <2>9 DEF IInv
<1>27. CASE PowerLoss
  <2>1. TypeInv'
    BY <1>27, <1>0 DEF PowerLoss, PowerOff, TypeInv, SideInv, JournalInv
  <2>2. SideInv'
    BY <1>27, <1>0, ListFacts DEF PowerLoss, PowerOff, SideInv, JournalInv, TypeInv
  <2>3. JournalInv'
    BY <1>27, <1>0, ListFacts DEF PowerLoss, PowerOff, SideInv, JournalInv, TypeInv
  <2>4. NewInv'
    BY <1>27, <1>0, ListFacts DEF PowerLoss, PowerOff, SideInv, JournalInv, TypeInv, NewInv
  <2>5. OldInv'
    BY <1>27, <1>0 DEF PowerLoss, PowerOff, SideInv, JournalInv, TypeInv, OldInv
  <2>6. SeqInv'
    BY <1>27, <1>0, ListFacts DEF PowerLoss, PowerOff, SideInv, JournalInv, TypeInv, NewInv,
        SeqInv
  <2>7. BuildInv'
    BY <1>27, <1>0 DEF PowerLoss, PowerOff, SideInv, JournalInv, TypeInv, NewInv, BuildInv,
        EntryComplete, Named
  <2>8. UndoInv'
    BY <1>27, <1>0, ListFacts DEF PowerLoss, PowerOff, SideInv, JournalInv, TypeInv, NewInv,
        SeqInv, BuildInv, UndoInv, Gone
  <2>9. EntryComplete'
    BY <1>27, <1>0, ListFacts DEF PowerLoss, PowerOff, SideInv, JournalInv, TypeInv, NewInv,
        SeqInv, BuildInv, UndoInv, Gone, EntryComplete, Named, Residue
  <2> QED
    BY <2>1, <2>2, <2>3, <2>4, <2>5, <2>6, <2>7, <2>8, <2>9 DEF IInv
<1>28. CASE Boot
  <2>a. /\ side = "off" /\ pc = "off"
        /\ seq # <<>> => /\ Tail(seq) \in Seq(Record) /\ Head(seq) \in Record
                         /\ \A r : Contains(seq, r) <=> r = Head(seq) \/ Contains(Tail(seq), r)
        /\ seq # <<>> /\ Complete(Head(seq)) => Head(seq) = started
    <3>1. seq # <<>> => /\ Tail(seq) \in Seq(Record) /\ Head(seq) \in Record
                        /\ \A r : Contains(seq, r) <=> r = Head(seq) \/ Contains(Tail(seq), r)
      BY <1>0, TailFacts DEF TypeInv
    <3>2. seq # <<>> /\ Complete(Head(seq)) => Head(seq) = started
      BY <1>0, <3>1 DEF TypeInv, OldInv, Complete
    <3> QED
      BY <1>28, <1>0, <3>1, <3>2 DEF Boot, SideInv
  <2>b. /\ seq' = <<>> \/ (seq # <<>> /\ seq' = Tail(seq))
        /\ seq' \in Seq(Record) /\ (\A r : Contains(seq', r) => Contains(seq, r))
    <3>1. seq' = <<>> \/ (seq # <<>> /\ seq' = Tail(seq))
      BY <1>28 DEF Boot
    <3>2. CASE seq' = <<>>
      BY <3>2, ListFacts
    <3>3. CASE seq # <<>> /\ seq' = Tail(seq)
      BY <2>a, <3>3
    <3> QED
      BY <3>1, <3>2, <3>3
  <2>1. TypeInv'
    BY <1>28, <1>0, <2>b DEF Boot, TypeInv
  <2>2. SideInv'
    BY <1>28, <1>0, <2>a DEF Boot, SideInv, TypeInv
  <2>3. JournalInv'
    BY <1>28, <1>0, <2>a, ListFacts DEF Boot, SideInv, JournalInv, TypeInv
  <2>4. NewInv'
    BY <1>28, <1>0, <2>b DEF Boot, NewInv
  <2>5. OldInv'
    BY <1>28, <1>0, <2>a DEF Boot, SideInv, JournalInv, TypeInv, OldInv
  <2>6. SeqInv'
    <3>1. side' = "pe" => ~Contains(seq', started)
      <4>1. CASE seq' = <<>>
        BY <4>1, ListFacts
      <4>2. CASE seq # <<>> /\ seq' = Tail(seq)
        BY <1>0, <4>2 DEF SeqInv
      <4> QED
        BY <2>b, <4>1, <4>2
    <3>2. seq' # <<>> => ~Contains(Tail(seq'), started)
      BY <1>0, <2>a, <2>b, TailFacts DEF SeqInv
    <3> QED
      BY <1>28, <1>0, <2>a, <3>1, <3>2 DEF Boot, SeqInv
  <2>7. BuildInv'
    BY <1>28, <1>0, <2>a DEF Boot, SideInv, JournalInv, TypeInv, NewInv, BuildInv, EntryComplete,
        Named
  <2>8. UndoInv'
    <3>1. side' = "pe" => answer[started] # "rolledback"
      BY <1>28, <1>0, <2>a DEF Boot, Complete, UndoInv
    <3> QED
      BY <1>28, <1>0, <3>1 DEF Boot, UndoInv, Gone
  <2>9. EntryComplete'
    BY <1>28, <1>0, <2>b DEF Boot, EntryComplete, Named, Residue
  <2> QED
    BY <2>1, <2>2, <2>3, <2>4, <2>5, <2>6, <2>7, <2>8, <2>9 DEF IInv
<1>29. CASE PeMatch
  <2>1. TypeInv'
    BY <1>29, <1>0 DEF PeMatch, Booted, TypeInv, SideInv, JournalInv
  <2>2. SideInv'
    BY <1>29, <1>0, ListFacts DEF PeMatch, Booted, SideInv, JournalInv, TypeInv
  <2>3. JournalInv'
    BY <1>29, <1>0, ListFacts DEF PeMatch, Booted, SideInv, JournalInv, TypeInv
  <2>4. NewInv'
    BY <1>29, <1>0, ListFacts DEF PeMatch, Booted, SideInv, JournalInv, TypeInv, NewInv
  <2>5. OldInv'
    BY <1>29, <1>0 DEF PeMatch, Booted, SideInv, JournalInv, TypeInv, OldInv
  <2>6. SeqInv'
    BY <1>29, <1>0, ListFacts DEF PeMatch, Booted, SideInv, JournalInv, TypeInv, NewInv, SeqInv
  <2>7. BuildInv'
    BY <1>29, <1>0 DEF PeMatch, Booted, SideInv, JournalInv, TypeInv, NewInv, BuildInv,
        EntryComplete, Named
  <2>8. UndoInv'
    BY <1>29, <1>0, ListFacts DEF PeMatch, Booted, SideInv, JournalInv, TypeInv, NewInv, SeqInv,
        BuildInv, UndoInv, Gone
  <2>9. EntryComplete'
    BY <1>29, <1>0, ListFacts DEF PeMatch, Booted, SideInv, JournalInv, TypeInv, NewInv, SeqInv,
        BuildInv, UndoInv, Gone, EntryComplete, Named, Residue
  <2> QED
    BY <2>1, <2>2, <2>3, <2>4, <2>5, <2>6, <2>7, <2>8, <2>9 DEF IInv
<1>30. CASE PeDeleteLoader
  <2>1. TypeInv'
    BY <1>30, <1>0 DEF PeDeleteLoader, Attempt, Fault, Set, Booted, TypeInv, SideInv, JournalInv
  <2>2. SideInv'
    BY <1>30, <1>0, ListFacts DEF PeDeleteLoader, Attempt, Fault, Set, Booted, SideInv,
        JournalInv, TypeInv
  <2>3. JournalInv'
    BY <1>30, <1>0, ListFacts DEF PeDeleteLoader, Attempt, Fault, Set, Booted, SideInv,
        JournalInv, TypeInv
  <2>4. NewInv'
    BY <1>30, <1>0, ListFacts DEF PeDeleteLoader, Attempt, Fault, Set, Booted, SideInv,
        JournalInv, TypeInv, NewInv
  <2>5. OldInv'
    BY <1>30, <1>0 DEF PeDeleteLoader, Attempt, Fault, Set, Booted, SideInv, JournalInv, TypeInv,
        OldInv
  <2>6. SeqInv'
    BY <1>30, <1>0, ListFacts DEF PeDeleteLoader, Attempt, Fault, Set, Booted, SideInv,
        JournalInv, TypeInv, NewInv, SeqInv
  <2>7. BuildInv'
    BY <1>30, <1>0 DEF PeDeleteLoader, Attempt, Fault, Set, Booted, SideInv, JournalInv, TypeInv,
        NewInv, BuildInv, EntryComplete, Named
  <2>8. UndoInv'
    BY <1>30, <1>0, ListFacts DEF PeDeleteLoader, Attempt, Fault, Set, Booted, SideInv,
        JournalInv, TypeInv, NewInv, SeqInv, BuildInv, UndoInv, Gone
  <2>9. EntryComplete'
    BY <1>30, <1>0, ListFacts DEF PeDeleteLoader, Attempt, Fault, Set, Booted, SideInv,
        JournalInv, TypeInv, NewInv, SeqInv, BuildInv, UndoInv, Gone, EntryComplete, Named,
        Residue
  <2> QED
    BY <2>1, <2>2, <2>3, <2>4, <2>5, <2>6, <2>7, <2>8, <2>9 DEF IInv
<1>31. CASE PeDeleteRamdisk
  <2>1. TypeInv'
    BY <1>31, <1>0 DEF PeDeleteRamdisk, Attempt, Fault, Set, Booted, TypeInv, SideInv, JournalInv
  <2>2. SideInv'
    BY <1>31, <1>0, ListFacts DEF PeDeleteRamdisk, Attempt, Fault, Set, Booted, SideInv,
        JournalInv, TypeInv
  <2>3. JournalInv'
    BY <1>31, <1>0, ListFacts DEF PeDeleteRamdisk, Attempt, Fault, Set, Booted, SideInv,
        JournalInv, TypeInv
  <2>4. NewInv'
    BY <1>31, <1>0, ListFacts DEF PeDeleteRamdisk, Attempt, Fault, Set, Booted, SideInv,
        JournalInv, TypeInv, NewInv
  <2>5. OldInv'
    BY <1>31, <1>0 DEF PeDeleteRamdisk, Attempt, Fault, Set, Booted, SideInv, JournalInv,
        TypeInv, OldInv
  <2>6. SeqInv'
    BY <1>31, <1>0, ListFacts DEF PeDeleteRamdisk, Attempt, Fault, Set, Booted, SideInv,
        JournalInv, TypeInv, NewInv, SeqInv
  <2>7. BuildInv'
    BY <1>31, <1>0 DEF PeDeleteRamdisk, Attempt, Fault, Set, Booted, SideInv, JournalInv,
        TypeInv, NewInv, BuildInv, EntryComplete, Named
  <2>8. UndoInv'
    BY <1>31, <1>0, ListFacts DEF PeDeleteRamdisk, Attempt, Fault, Set, Booted, SideInv,
        JournalInv, TypeInv, NewInv, SeqInv, BuildInv, UndoInv, Gone
  <2>9. EntryComplete'
    BY <1>31, <1>0, ListFacts DEF PeDeleteRamdisk, Attempt, Fault, Set, Booted, SideInv,
        JournalInv, TypeInv, NewInv, SeqInv, BuildInv, UndoInv, Gone, EntryComplete, Named,
        Residue
  <2> QED
    BY <2>1, <2>2, <2>3, <2>4, <2>5, <2>6, <2>7, <2>8, <2>9 DEF IInv
<1>32. CASE PeRemoveWim
  <2>1. TypeInv'
    BY <1>32, <1>0 DEF PeRemoveWim, Attempt, Fault, Set, Booted, TypeInv, SideInv, JournalInv
  <2>2. SideInv'
    BY <1>32, <1>0, ListFacts DEF PeRemoveWim, Attempt, Fault, Set, Booted, SideInv, JournalInv,
        TypeInv
  <2>3. JournalInv'
    BY <1>32, <1>0, ListFacts DEF PeRemoveWim, Attempt, Fault, Set, Booted, SideInv, JournalInv,
        TypeInv
  <2>4. NewInv'
    BY <1>32, <1>0, ListFacts DEF PeRemoveWim, Attempt, Fault, Set, Booted, SideInv, JournalInv,
        TypeInv, NewInv
  <2>5. OldInv'
    BY <1>32, <1>0 DEF PeRemoveWim, Attempt, Fault, Set, Booted, SideInv, JournalInv, TypeInv,
        OldInv
  <2>6. SeqInv'
    BY <1>32, <1>0, ListFacts DEF PeRemoveWim, Attempt, Fault, Set, Booted, SideInv, JournalInv,
        TypeInv, NewInv, SeqInv
  <2>7. BuildInv'
    BY <1>32, <1>0 DEF PeRemoveWim, Attempt, Fault, Set, Booted, SideInv, JournalInv, TypeInv,
        NewInv, BuildInv, EntryComplete, Named
  <2>8. UndoInv'
    BY <1>32, <1>0, ListFacts DEF PeRemoveWim, Attempt, Fault, Set, Booted, SideInv, JournalInv,
        TypeInv, NewInv, SeqInv, BuildInv, UndoInv, Gone
  <2>9. EntryComplete'
    BY <1>32, <1>0, ListFacts DEF PeRemoveWim, Attempt, Fault, Set, Booted, SideInv, JournalInv,
        TypeInv, NewInv, SeqInv, BuildInv, UndoInv, Gone, EntryComplete, Named, Residue
  <2> QED
    BY <2>1, <2>2, <2>3, <2>4, <2>5, <2>6, <2>7, <2>8, <2>9 DEF IInv
<1>33. CASE PeRemoveSdi
  <2>a. sdi' \subseteq Record
    BY <1>33, <1>0 DEF PeRemoveSdi, Attempt, TypeInv
  <2>1. TypeInv'
    BY <1>33, <1>0, <2>a DEF PeRemoveSdi, Attempt, Fault, TypeInv
  <2>2. SideInv'
    BY <1>33, <1>0, <2>a, ListFacts DEF PeRemoveSdi, Attempt, Fault, Set, Booted, SideInv,
        JournalInv, TypeInv
  <2>3. JournalInv'
    BY <1>33, <1>0, <2>a, ListFacts DEF PeRemoveSdi, Attempt, Fault, Set, Booted, SideInv,
        JournalInv, TypeInv
  <2>4. NewInv'
    BY <1>33, <1>0, <2>a, ListFacts DEF PeRemoveSdi, Attempt, Fault, Set, Booted, SideInv,
        JournalInv, TypeInv, NewInv
  <2>5. OldInv'
    BY <1>33, <1>0, <2>a DEF PeRemoveSdi, Attempt, Fault, Set, Booted, SideInv, JournalInv,
        TypeInv, OldInv
  <2>6. SeqInv'
    BY <1>33, <1>0, <2>a, ListFacts DEF PeRemoveSdi, Attempt, Fault, Set, Booted, SideInv,
        JournalInv, TypeInv, NewInv, SeqInv
  <2>7. BuildInv'
    BY <1>33, <1>0, <2>a DEF PeRemoveSdi, Attempt, Fault, Set, Booted, SideInv, JournalInv,
        TypeInv, NewInv, BuildInv, EntryComplete, Named
  <2>8. UndoInv'
    BY <1>33, <1>0, <2>a, ListFacts DEF PeRemoveSdi, Attempt, Fault, Set, Booted, SideInv,
        JournalInv, TypeInv, NewInv, SeqInv, BuildInv, UndoInv, Gone
  <2>9. EntryComplete'
    BY <1>33, <1>0, <2>a, ListFacts DEF PeRemoveSdi, Attempt, Fault, Set, Booted, SideInv,
        JournalInv, TypeInv, NewInv, SeqInv, BuildInv, UndoInv, Gone, EntryComplete, Named,
        Residue
  <2> QED
    BY <2>1, <2>2, <2>3, <2>4, <2>5, <2>6, <2>7, <2>8, <2>9 DEF IInv
<1>34. CASE PeRewriteJournal
  <2>a. /\ UNCHANGED <<seq, loader, ramdisk, wim, sdi, side, started, iso, caller>>
        /\ UNCHANGED <<todo, clean, answer>>
        /\ pc = "peJournal" /\ pc' \in {"peWork", "peRefused"} /\ started \in Record
        /\ \/ UNCHANGED <<faults, crashes>>
           \/ faults' = faults + 1 /\ UNCHANGED crashes
    BY <1>34, <1>0 DEF PeRewriteJournal, Attempt, Fault, TypeInv, SideInv
  <2>b. /\ pending' \in {pending, None}
        /\ active' = active \/ active' = <<>>
    <3>1. Booted = started
      BY <1>34, <1>0 DEF PeRewriteJournal, SideInv, Booted
    <3>2. Without(active, started) = <<>>
      BY <1>0, ListFacts DEF JournalInv
    <3> QED
      BY <1>34, <3>1, <3>2 DEF PeRewriteJournal, Attempt
  <2>1. TypeInv'
    BY <1>0, <2>a, <2>b DEF TypeInv, SideInv, JournalInv
  <2>2. SideInv'
    BY <1>0, <2>a, <2>b DEF SideInv, JournalInv, TypeInv
  <2>3. JournalInv'
    BY <1>0, <2>a, <2>b DEF SideInv, JournalInv, TypeInv
  <2>4. NewInv'
    BY <1>0, <2>a, <2>b DEF SideInv, JournalInv, TypeInv, NewInv
  <2>5. OldInv'
    BY <1>0, <2>a, <2>b DEF SideInv, JournalInv, TypeInv, OldInv
  <2>6. SeqInv'
    BY <1>0, <2>a, <2>b DEF SideInv, JournalInv, TypeInv, NewInv, SeqInv
  <2>7. BuildInv'
    BY <1>0, <2>a, <2>b DEF SideInv, JournalInv, TypeInv, NewInv, BuildInv, EntryComplete, Named
  <2>8. UndoInv'
    BY <1>0, <2>a, <2>b DEF SideInv, JournalInv, TypeInv, NewInv, SeqInv, BuildInv, UndoInv, Gone
  <2>9. EntryComplete'
    BY <1>0, <2>a, <2>b, ListFacts DEF SideInv, JournalInv, TypeInv, NewInv, SeqInv, BuildInv,
        UndoInv, Gone, EntryComplete, Named, Residue
  <2> QED
    BY <2>1, <2>2, <2>3, <2>4, <2>5, <2>6, <2>7, <2>8, <2>9 DEF IInv
<1>35. CASE UNCHANGED vars
  BY <1>35, <1>0 DEF vars, IInv, TypeInv, SideInv, JournalInv, NewInv, OldInv, SeqInv, BuildInv,
      UndoInv, Gone, EntryComplete, Named, Residue
<1> QED
  BY <1>1, <1>2, <1>3, <1>4, <1>5, <1>6, <1>7, <1>8, <1>9, <1>10, <1>11, <1>12, <1>13, <1>14,
     <1>15, <1>16, <1>17, <1>18, <1>19, <1>20, <1>21, <1>22, <1>23, <1>24, <1>25, <1>26, <1>27,
     <1>28, <1>29, <1>30, <1>31, <1>32, <1>33, <1>34, <1>35
  DEF Next

(* The invariant holds throughout.                                         *)
LEMMA Invariance == Spec => []IInv
<1>1. Init => IInv
  BY InitIInv
<1>2. IInv /\ [Next]_vars => IInv'
  BY NextIInv
<1> QED
  BY <1>1, <1>2, PTL DEF Spec

(* Whatever failed and wherever power was lost, what a journal names is    *)
(* complete from the boot entry down to the files, and without a failing   *)
(* call there is no boot object that no journal names.                     *)
THEOREM EntryCompleteHolds == Spec => []EntryComplete
<1>1. IInv => EntryComplete
  BY DEF IInv
<1> QED
  BY <1>1, Invariance, PTL

(* WinPE starts for no task but the last one, and not for one whose        *)
(* rollback was reported.                                                  *)
THEOREM LatestTaskBootsHolds == Spec => []LatestTaskBoots
<1>1. IInv => LatestTaskBoots
  BY DEF IInv, SideInv, UndoInv, LatestTaskBoots, Booted
<1> QED
  BY <1>1, Invariance, PTL

(* A caller that may restart the machine finds it ready to start this      *)
(* task's WinPE.                                                           *)
THEOREM CommittedBootsHolds == Spec => []CommittedBoots
<1>1. IInv => CommittedBoots
  BY ListFacts DEF IInv, SeqInv, BuildInv, JournalInv, Armed, CommittedBoots, Complete, Current
<1> QED
  BY <1>1, Invariance, PTL
=============================================================================
