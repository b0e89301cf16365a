------------------------- MODULE Extraction_proofs -------------------------
(***************************************************************************)
(* CopyDir, CopyTo and CopyFile, for any archive, any number of workers    *)
(* and any failures: AtomicFiles, and the plan of a copy.                  *)
(*                                                                         *)
(* For AtomicFiles nothing is needed of the grouping or of how the workers *)
(* share the entries: a destination changes only by the rename of a        *)
(* temporary file that its worker alone has filled and verified (IInv).    *)
(* Sorting and grouping put every entry that is to be copied into one      *)
(* place of one group (PlanOK); the workers share the places of a group,   *)
(* each its own, and a worker that gives up leaves an error (TurnsOK).     *)
(***************************************************************************)
EXTENDS Extraction, FiniteSetTheorems, NaturalsInduction, SequenceTheorems, TLAPS,
        WellFoundedInduction

ShapeOK ==
    /\ dest \in [Archive -> Contents]
    /\ temp \in [Pool -> Contents]
    /\ pc \in [Pool -> Labels]
    /\ phase # "workers" => \A w \in Pool : pc[w] = "done"
    /\ ~CleanDest => phase # "clean"
    /\ phase \in {"stat", "open", "create", "copy", "replace", "rename", "undo"} => Single
    /\ phase = "replace" => Overwrite

\* The temporary file w is in use.
InUse(w) ==
    \/ pc[w] \in {"write", "commit", "discard"}
    \/ w = 1 /\ phase \in {"copy", "replace", "rename", "undo"}

\* What the temporary file of a worker holds at each place of the loop, and that
\* of CopyFile before it is renamed.
TempsOK ==
    ~CleanDest =>
        /\ phase \in {"replace", "rename"} => temp[1] = "whole"
        /\ \A w \in Pool :
             /\ pc[w] = "commit" => temp[w] = "whole"
             /\ ~RemoveErrors /\ ~InUse(w) => temp[w] = "none"

IInv == ShapeOK /\ TempsOK /\ AtomicFiles

\* The copy begins with no temporary file.
LEMMA InitIInv == Init => IInv
  BY DEF Init, IInv, Single, ShapeOK, TempsOK, AtomicFiles, Before, Contents, Labels, InUse

\* Every step of the caller and of a worker preserves the invariant.
LEMMA StepIInv == IInv /\ [Next]_vars => IInv'
<1> SUFFICES ASSUME IInv, [Next]_vars PROVE IInv'
  OBVIOUS
<1>0. conf' = conf /\ 1 \in Pool
  BY ExtractionAssumption DEF Next, vars, Pool
<1> USE <1>0 DEF IInv, Existing, CleanDest, RemoveErrors, Single, Overwrite, InUse, ShapeOK,
        TempsOK, AtomicFiles, Before, Contents, Labels, At, Goto, files, group
<1>1. CASE UNCHANGED vars
  BY <1>1 DEF vars
<1>2. CASE Clean
  BY <1>2 DEF Clean
<1>3. CASE Process
  BY <1>3 DEF Process
<1>4. CASE ReadGroup
  BY <1>4 DEF ReadGroup
<1>5. CASE ReadGroupFails
  BY <1>5 DEF ReadGroupFails
<1>6. CASE GroupReturns
  BY <1>6 DEF GroupReturns
<1>7. ASSUME NEW w \in Pool, Loop(w) PROVE IInv'
  BY <1>7 DEF Loop
<1>8. ASSUME NEW w \in Pool, Writer(w) PROVE IInv'
  BY <1>8 DEF Writer, Fill
<1>9. ASSUME NEW w \in Pool, WriterFails(w) PROVE IInv'
  BY <1>9 DEF WriterFails
<1>10. ASSUME NEW w \in Pool, Write(w) PROVE IInv'
  <2>1. CASE Verified(w)
    BY <1>10, <2>1 DEF Write, Fill, Verified
  <2>2. CASE ~Verified(w)
    BY <1>10, <2>2 DEF Write, Fill
  <2> QED
    BY <2>1, <2>2
<1>11. ASSUME NEW w \in Pool, WriteFails(w) PROVE IInv'
  BY <1>11 DEF WriteFails
<1>12. ASSUME NEW w \in Pool, Discard(w) PROVE IInv'
  BY <1>12 DEF Discard, RemoveFile, Fill
<1>13. ASSUME NEW w \in Pool, Commit(w) PROVE IInv'
  BY <1>13 DEF Commit
<1>14. ASSUME NEW w \in Pool, CommitFails(w) PROVE IInv'
  BY <1>14 DEF CommitFails, RemoveFile, Fill
<1>15. ASSUME NEW w \in Pool, Count(w) PROVE IInv'
  BY <1>15 DEF Count
<1>16. ASSUME NEW w \in Pool, Fail(w) PROVE IInv'
  BY <1>16 DEF Fail
<1>17. ASSUME NEW w \in Pool, Send(w) PROVE IInv'
  BY <1>17 DEF Send
<1>18. CASE StatDest
  BY <1>18 DEF StatDest
<1>19. CASE OpenSource
  BY <1>19 DEF OpenSource
<1>20. CASE CreateTemp
  BY <1>20 DEF CreateTemp
<1>21. CASE CopyContent
  BY <1>21 DEF CopyContent
<1>22. CASE RemoveDest
  BY <1>22 DEF RemoveDest
<1>23. CASE Rename
  BY <1>23, Zenon DEF Rename
<1>24. CASE CopyFileFails
  BY <1>24 DEF CopyFileFails
<1>25. CASE Undo
  BY <1>25 DEF Undo
<1>26. CASE Returned /\ UNCHANGED <<files, phase, groups, group, stats>>
  BY <1>26
<1> HIDE DEF IInv, Existing, CleanDest, RemoveErrors, Single, Overwrite, InUse, ShapeOK,
        TempsOK, AtomicFiles, Before, Contents, Labels, At, Goto, files, group
<1>27. CASE CopyFile
  BY <1>18, <1>19, <1>20, <1>21, <1>22, <1>23, <1>24, <1>25, <1>27, Zenon DEF CopyFile
<1>28. CASE Main
  BY <1>2, <1>3, <1>4, <1>5, <1>6, <1>27, <1>28, Zenon DEF Main
<1>29. ASSUME NEW w \in Pool, Worker(w) PROVE IInv'
  BY <1>7, <1>8, <1>9, <1>10, <1>11, <1>12, <1>13, <1>14, <1>15, <1>16, <1>17, <1>29, Zenon
  DEF Worker
<1> QED
  BY <1>1, <1>26, <1>28, <1>29, Zenon DEF Next

\* The invariant holds throughout.
LEMMA IInvHolds == Spec => []IInv
  BY InitIInv, StepIInv, PTL DEF Spec

\* A destination holds what was there before or the verified content: Commit's
\* rename is the only step that touches it, after the hash was compared.
THEOREM AtomicFilesHolds == Spec => []AtomicFiles
<1>1. IInv => AtomicFiles
  BY DEF IInv
<1> QED
  BY <1>1, IInvHolds, PTL

-----------------------------------------------------------------------------
(* Sorting and grouping *)

\* Zenon proves the leaves that say nothing else; those with arithmetic cite SMT.
USE Zenon

\* A set of numbers that has 0, and with a number the next one, has them all.
LEMMA NatSet ==
  ASSUME NEW T \in SUBSET Nat, 0 \in T, \A n \in T : n + 1 \in T
  PROVE  T = Nat
<1>1. SUFFICES ASSUME Nat \ T # {} PROVE FALSE
  OBVIOUS
<1>2. IsWellFoundedOn(OpToRel(<, Nat), Nat)
  BY NatLessThanWellFounded
<1>3. \E x \in Nat \ T : \A y \in Nat \ T : ~(<<y, x>> \in OpToRel(<, Nat))
  BY <1>1, <1>2, WFMin
<1>4. PICK x \in Nat \ T : \A y \in Nat \ T : ~(y < x)
  BY <1>3 DEF OpToRel
<1>5. x # 0 /\ x - 1 \in Nat /\ x - 1 < x
  BY SMT
<1>6. x - 1 \in T
  BY <1>4, <1>5
<1>7. (x - 1) + 1 \in T
  BY <1>6
<1> QED
  BY <1>7, SMT

\* A set of numbers up to n has a greatest one.
LEMMA MaxFacts ==
  \A n \in Nat : \A s \in SUBSET (1..n) : s # {} => Max(s) \in s /\ \A y \in s : Max(s) >= y
<1> DEFINE P(s) == \E x \in s : \A y \in s : x >= y
           T == {n \in Nat : \A s \in SUBSET (1..n) : s # {} => P(s)}
<1>1. 0 \in T
  <2>1. 1..0 = {} /\ 0 \in Nat
    BY SMT
  <2> QED
    BY <2>1
<1>2. ASSUME NEW n \in T PROVE n + 1 \in T
  <2>0. n \in Nat /\ n + 1 \in Nat
    BY SMT
  <2>1. ASSUME NEW s \in SUBSET (1..n + 1), s # {} PROVE P(s)
    <3>1. CASE n + 1 \in s
      <4>1. \A y \in s : n + 1 >= y
        BY <2>0, SMT
      <4> QED
        BY <3>1, <4>1
    <3>2. CASE n + 1 \notin s
      <4>1. s \in SUBSET (1..n)
        BY <2>0, <3>2, SMT
      <4> QED
        BY <2>1, <4>1
    <3> QED
      BY <3>1, <3>2
  <2> QED
    BY <2>0, <2>1
<1>3. T = Nat
  <2> HIDE DEF T
  <2> QED
    BY <1>1, <1>2, NatSet DEF T
<1>4. ASSUME NEW n \in Nat, NEW s \in SUBSET (1..n), s # {}
      PROVE  Max(s) \in s /\ \A y \in s : Max(s) >= y
  <2>1. P(s)
    BY <1>3, <1>4
  <2> QED
    BY <2>1 DEF Max
<1> QED
  BY <1>4

\* One turn of the loop of groupAdjacentEntries after the entries at the places
\* s, of which g has the groups, and what a function defined by it is.
Turn(seq, off, size, g, s) ==
    IF s = {} THEN <<>> ELSE AddEntry(g[s \ {Max(s)}], seq[Max(s)], off, size)
Turns(seq, off, size, S, g) == g = [s \in SUBSET S |-> Turn(seq, off, size, g, s)]

\* What the fold of the library computes.
LEMMA FoldUnfold ==
  ASSUME NEW seq, NEW off, NEW size
  PROVE  GroupAdjacentEntries(seq, off, size) =
           (CHOOSE g : Turns(seq, off, size, DOMAIN seq, g))[DOMAIN seq]
  BY DEF GroupAdjacentEntries, FoldLeft, MapThenFoldSet, Turns, Turn

\* There is such a function.
LEMMA TurnsExist ==
  ASSUME NEW seq, NEW off, NEW size, NEW m \in Nat
  PROVE  \E g : Turns(seq, off, size, 1..m, g)
<1> DEFINE T == {n \in Nat : \E g : Turns(seq, off, size, 1..n, g)}
<1>1. 0 \in T
  <2> DEFINE g == [s \in SUBSET (1..0) |-> <<>>]
  <2>1. \A s \in SUBSET (1..0) : s = {}
    BY SMT
  <2>2. \A s \in SUBSET (1..0) : Turn(seq, off, size, g, s) = <<>>
    BY <2>1 DEF Turn
  <2>3. Turns(seq, off, size, 1..0, g)
    BY <2>2 DEF Turns
  <2> QED
    BY <2>3, SMT
<1>2. ASSUME NEW n \in T PROVE n + 1 \in T
  <2>0. n \in Nat /\ n + 1 \in Nat
    BY SMT
  <2>1. PICK g : Turns(seq, off, size, 1..n, g)
    OBVIOUS
  <2> DEFINE h == [s \in SUBSET (1..n + 1) |-> Turn(seq, off, size, g, s)]
  <2>2. ASSUME NEW s \in SUBSET (1..n + 1)
        PROVE  Turn(seq, off, size, g, s) = Turn(seq, off, size, h, s)
    <3>1. CASE s = {}
      BY <3>1 DEF Turn
    <3>2. CASE s # {}
      <4>1. Max(s) \in s /\ \A y \in s : Max(s) >= y
        BY <2>0, <3>2, MaxFacts
      <4>2. s \ {Max(s)} \in SUBSET (1..n) /\ s \ {Max(s)} \in SUBSET (1..n + 1)
        <5>1. Max(s) \in 1..n + 1 /\ \A y \in s : y \in 1..n + 1 /\ Max(s) >= y
          BY <4>1
        <5>2. \A y \in s : y # Max(s) => y \in 1..n
          BY <2>0, <5>1, SMT
        <5> QED
          BY <5>1, <5>2
      <4>3. h[s \ {Max(s)}] = g[s \ {Max(s)}]
        BY <2>1, <4>2 DEF Turns
      <4> QED
        BY <4>3 DEF Turn
    <3> QED
      BY <3>1, <3>2
  <2>3. Turns(seq, off, size, 1..n + 1, h)
    BY <2>2 DEF Turns
  <2> QED
    BY <2>0, <2>3
<1>3. T = Nat
  <2> HIDE DEF T
  <2> QED
    BY <1>1, <1>2, NatSet DEF T
<1> QED
  BY <1>3

\* Place k of group a of the groups gs.
Place(gs, a, k) == a \in 1..Len(gs) /\ k \in 1..Len(gs[a].entries)

\* The entry e is in one of the groups gs.
In(gs, e) == \E a, k : Place(gs, a, k) /\ gs[a].entries[k] = e

\* An entry is in one place of one group.
NoneTwice(gs) ==
    \A a, b, j, k : Place(gs, a, j) /\ Place(gs, b, k) /\ gs[a].entries[j] = gs[b].entries[k]
                     => a = b /\ j = k

\* A rangeGroup of entries of A.
Group(A) == [start : Nat, end : Nat, entries : Seq(A)]

\* Groups that have e in one place more than gs, which does not have it.
LEMMA OneMore ==
  ASSUME NEW gs, NoneTwice(gs), NEW e, ~In(gs, e), NEW new, NEW p, NEW q,
         Place(new, p, q), new[p].entries[q] = e,
         \A a, k : Place(new, a, k) =>
            \/ a = p /\ k = q
            \/ Place(gs, a, k) /\ new[a].entries[k] = gs[a].entries[k],
         \A a, k : Place(gs, a, k) => Place(new, a, k) /\ new[a].entries[k] = gs[a].entries[k]
  PROVE  NoneTwice(new) /\ \A x : In(new, x) <=> In(gs, x) \/ x = e
<1>1. \A a, k : Place(gs, a, k) => gs[a].entries[k] # e
  BY DEF In
<1>2. NoneTwice(new)
  <2>1. ASSUME NEW a, NEW b, NEW j, NEW k, Place(new, a, j), Place(new, b, k),
               new[a].entries[j] = new[b].entries[k]
        PROVE  a = b /\ j = k
    <3>1. CASE a = p /\ j = q /\ b = p /\ k = q
      BY <3>1
    <3>2. CASE ~(a = p /\ j = q) /\ b = p /\ k = q
      <4>0. Place(new, a, j) /\ ~(a = p /\ j = q)
        BY <2>1, <3>2
      <4>1. Place(gs, a, j) /\ new[a].entries[j] = gs[a].entries[j]
        BY <4>0
      <4>2. new[b].entries[k] = e
        BY <3>2
      <4>3. gs[a].entries[j] = e
        BY <2>1, <4>1, <4>2
      <4> QED
        BY <1>1, <4>1, <4>3
    <3>3. CASE a = p /\ j = q /\ ~(b = p /\ k = q)
      <4>1. Place(gs, b, k) /\ new[b].entries[k] = gs[b].entries[k]
        BY <2>1, <3>3
      <4>2. new[a].entries[j] = e
        BY <3>3
      <4> QED
        BY <1>1, <2>1, <4>1, <4>2
    <3>4. CASE ~(a = p /\ j = q) /\ ~(b = p /\ k = q)
      <4>1. Place(gs, a, j) /\ Place(gs, b, k) /\ gs[a].entries[j] = gs[b].entries[k]
        BY <2>1, <3>4
      <4> QED
        BY <4>1 DEF NoneTwice
    <3> QED
      BY <3>1, <3>2, <3>3, <3>4
  <2> QED
    BY <2>1 DEF NoneTwice
<1>3. ASSUME NEW x, In(new, x) PROVE In(gs, x) \/ x = e
  <2>1. PICK a, k : Place(new, a, k) /\ new[a].entries[k] = x
    BY <1>3 DEF In
  <2>2. CASE a = p /\ k = q
    BY <2>1, <2>2
  <2>3. CASE ~(a = p /\ k = q)
    <3>1. Place(gs, a, k) /\ gs[a].entries[k] = x
      BY <2>1, <2>3
    <3> QED
      BY <3>1 DEF In
  <2> QED
    BY <2>2, <2>3
<1>4. ASSUME NEW x, In(gs, x) PROVE In(new, x)
  <2>1. PICK a, k : Place(gs, a, k) /\ gs[a].entries[k] = x
    BY <1>4 DEF In
  <2>2. Place(new, a, k) /\ new[a].entries[k] = x
    BY <2>1
  <2> QED
    BY <2>2 DEF In
<1>5. In(new, e)
  BY DEF In
<1> QED
  BY <1>2, <1>3, <1>4, <1>5

\* Extending a group moves its end and adds the entry.
LEMMA ExtendFacts ==
  ASSUME NEW A, NEW g \in Group(A), NEW e, NEW off, NEW size
  PROVE  ExtendGroup(g, e, off, size)
           = [start |-> g.start, end |-> off[e] + size[e], entries |-> Append(g.entries, e)]
<1>1. PICK x, y, z : g = [start |-> x, end |-> y, entries |-> z]
  BY SMT DEF Group
<1>2. g.start = x /\ g.entries = z
  BY <1>1
<1> DEFINE t == off[e] + size[e]
           h == [start |-> x, end |-> t, entries |-> z]
<1>3. ExtendGroup(g, e, off, size) = [[g EXCEPT !.end = t] EXCEPT !.entries = Append(@, e)]
  BY DEF ExtendGroup
<1> HIDE DEF t
<1>4. [g EXCEPT !.end = t] = h
  BY <1>1, SMT
<1>5. h.entries = z /\ \A v : [h EXCEPT !.entries = v] = [start |-> x, end |-> t, entries |-> v]
  BY SMT
<1>6. [h EXCEPT !.entries = Append(@, e)] = [h EXCEPT !.entries = Append(h.entries, e)]
  OBVIOUS
<1> HIDE DEF h
<1>7. ExtendGroup(g, e, off, size) = [h EXCEPT !.entries = Append(z, e)]
  BY <1>3, <1>4, <1>5, <1>6
<1> QED
  BY <1>2, <1>5, <1>7 DEF t

\* One turn of the loop puts the entry into one place.
LEMMA AddEntryFacts ==
  ASSUME NEW A, NEW off \in [A -> Nat], NEW size \in [A -> Nat],
         NEW gs \in Seq(Group(A)), NoneTwice(gs), NEW e \in A, ~In(gs, e)
  PROVE  /\ AddEntry(gs, e, off, size) \in Seq(Group(A))
         /\ NoneTwice(AddEntry(gs, e, off, size))
         /\ \A x : In(AddEntry(gs, e, off, size), x) <=> In(gs, x) \/ x = e
<1> DEFINE new == AddEntry(gs, e, off, size)
           n == Len(gs)
<1>0. n \in Nat
  BY LenProperties
<1>1. CASE gs # <<>> /\ Adjacent(Last(gs), e, off)
  <2> DEFINE g == gs[n]
             h == [start |-> g.start, end |-> off[e] + size[e], entries |-> Append(g.entries, e)]
             q == Len(g.entries) + 1
  <2>1. n \in Nat \ {0} /\ n \in 1..n
    BY <1>0, <1>1, SMT
  <2>2. g \in Group(A)
    BY <2>1, ElementOfSeq
  <2>3. g.start \in Nat /\ g.end \in Nat /\ g.entries \in Seq(A) /\ off[e] + size[e] \in Nat
    BY <2>2, SMT DEF Group
  <2>4. /\ Append(g.entries, e) \in Seq(A) /\ Len(g.entries) \in Nat
        /\ Len(Append(g.entries, e)) = Len(g.entries) + 1
        /\ Append(g.entries, e)[Len(g.entries) + 1] = e
        /\ \A k \in 1..Len(g.entries) : Append(g.entries, e)[k] = g.entries[k]
    BY <2>3, SMT
  <2>5. h \in Group(A) /\ h.entries = Append(g.entries, e)
    BY <2>3, <2>4 DEF Group
  <2>6. ExtendGroup(g, e, off, size) = h
    <3> HIDE DEF g
    <3> QED
      BY <2>2, ExtendFacts
  <2>7. new = Append(SubSeq(gs, 1, n - 1), h)
    BY <1>1, <2>6 DEF AddEntry, Front, Last
  <2> HIDE DEF h, new
  <2>8. /\ new \in Seq(Group(A)) /\ Len(new) = n /\ new[n] = h
        /\ \A a \in 1..n : a # n => new[a] = gs[a]
    <3> DEFINE f == SubSeq(gs, 1, n - 1)
    <3>1. f \in Seq(Group(A)) /\ Len(f) = n - 1 /\ \A a \in 1..n - 1 : f[a] = gs[a]
      <4>1. 1 \in Int /\ n - 1 \in Int /\ 1..n - 1 \subseteq 1..n
        BY <2>1, SMT
      <4>2. \A a \in 1..n - 1 : gs[a] \in Group(A)
        BY <4>1, ElementOfSeq
      <4>3. /\ f \in Seq(Group(A)) /\ Len(f) = IF 1 <= n - 1 THEN (n - 1 - 1) + 1 ELSE 0
            /\ \A a \in 1..(n - 1 - 1) + 1 : f[a] = gs[1 + a - 1]
        BY ONLY <4>1, <4>2, SubSeqProperties
      <4> HIDE DEF f, n
      <4>4. Len(f) = n - 1 /\ (n - 1 - 1) + 1 = n - 1 /\ \A a \in 1..n - 1 : 1 + a - 1 = a
        BY <2>1, <4>3, SMT
      <4> QED
        BY <4>3, <4>4
    <3> HIDE DEF f, n
    <3>2. Append(f, h) \in Seq(Group(A)) /\ Len(Append(f, h)) = Len(f) + 1
          /\ Append(f, h)[Len(f) + 1] = h /\ \A a \in 1..Len(f) : Append(f, h)[a] = f[a]
      BY ONLY <2>5, <3>1, AppendProperties
    <3>3. Len(f) + 1 = n /\ 1..Len(f) = 1..n - 1 /\ \A a \in 1..n : a # n => a \in 1..n - 1
      BY <2>1, <3>1, SMT
    <3> QED
      BY <2>7, <3>1, <3>2, <3>3 DEF f
  <2> HIDE DEF g
  <2>9. 1..Len(h.entries) = 1..Len(g.entries) \cup {q} /\ q \in 1..Len(h.entries)
    BY <2>4, <2>5, SMT
  <2>10. h.entries[q] = e /\ \A k \in 1..Len(g.entries) : h.entries[k] = g.entries[k]
    BY <2>4, <2>5
  <2> HIDE DEF q
  <2>11. Place(new, n, q) /\ new[n].entries[q] = e
    BY <2>1, <2>8, <2>9, <2>10 DEF Place
  <2>12. ASSUME NEW a, NEW k, Place(new, a, k)
         PROVE  \/ a = n /\ k = q
                \/ Place(gs, a, k) /\ new[a].entries[k] = gs[a].entries[k]
    <3>1. CASE a = n
      BY <2>8, <2>9, <2>10, <2>12, <3>1 DEF Place, g
    <3>2. CASE a # n
      BY <2>8, <2>12, <3>2 DEF Place
    <3> QED
      BY <3>1, <3>2
  <2>13. ASSUME NEW a, NEW k, Place(gs, a, k)
         PROVE  Place(new, a, k) /\ new[a].entries[k] = gs[a].entries[k]
    <3>1. CASE a = n
      BY <2>8, <2>9, <2>10, <2>13, <3>1 DEF Place, g
    <3>2. CASE a # n
      BY <2>8, <2>13, <3>2 DEF Place
    <3> QED
      BY <3>1, <3>2
  <2>14. NoneTwice(new) /\ \A x : In(new, x) <=> In(gs, x) \/ x = e
    <3>1. \A a, k : Place(new, a, k) =>
            (a = n /\ k = q) \/ (Place(gs, a, k) /\ new[a].entries[k] = gs[a].entries[k])
      BY <2>12
    <3>2. \A a, k : Place(gs, a, k) => Place(new, a, k) /\ new[a].entries[k] = gs[a].entries[k]
      BY <2>13
    <3>3. NoneTwice(gs) /\ ~In(gs, e)
      OBVIOUS
    <3> HIDE DEF n
    <3> QED
      BY ONLY <2>11, <3>1, <3>2, <3>3, OneMore
  <2> QED
    BY <2>8, <2>14 DEF new
<1>2. CASE ~(gs # <<>> /\ Adjacent(Last(gs), e, off))
  <2> DEFINE h == NewGroup(e, off, size)
  <2>1. off[e] \in Nat /\ off[e] + size[e] \in Nat /\ <<e>> \in Seq(A)
    BY SMT
  <2>2. h \in Group(A) /\ h.entries = <<e>>
    BY <2>1 DEF Group, NewGroup
  <2>3. 1..Len(h.entries) = {1} /\ h.entries[1] = e
    BY <2>2, SMT
  <2>4. new = Append(gs, h)
    BY <1>2 DEF AddEntry
  <2> HIDE DEF h, new
  <2>5. /\ new \in Seq(Group(A)) /\ Len(new) = n + 1 /\ new[n + 1] = h
        /\ \A a \in 1..n : new[a] = gs[a]
    BY <1>0, <2>2, <2>4, SMT
  <2>6. 1..Len(new) = 1..n \cup {n + 1} /\ n + 1 \in 1..Len(new) /\ n + 1 \notin 1..n
    BY <1>0, <2>5, SMT
  <2>7. Place(new, n + 1, 1) /\ new[n + 1].entries[1] = e
    BY <2>3, <2>5, <2>6 DEF Place
  <2>8. ASSUME NEW a, NEW k, Place(new, a, k)
        PROVE  \/ a = n + 1 /\ k = 1
               \/ Place(gs, a, k) /\ new[a].entries[k] = gs[a].entries[k]
    <3>1. CASE a = n + 1
      BY <2>3, <2>5, <2>8, <3>1 DEF Place
    <3>2. CASE a # n + 1
      BY <2>5, <2>6, <2>8, <3>2 DEF Place
    <3> QED
      BY <3>1, <3>2
  <2>9. ASSUME NEW a, NEW k, Place(gs, a, k)
        PROVE  Place(new, a, k) /\ new[a].entries[k] = gs[a].entries[k]
    BY <2>5, <2>6, <2>9 DEF Place
  <2>10. NoneTwice(new) /\ \A x : In(new, x) <=> In(gs, x) \/ x = e
    <3>1. \A a, k : Place(new, a, k) =>
            (a = n + 1 /\ k = 1) \/ (Place(gs, a, k) /\ new[a].entries[k] = gs[a].entries[k])
      BY <2>8
    <3>2. \A a, k : Place(gs, a, k) => Place(new, a, k) /\ new[a].entries[k] = gs[a].entries[k]
      BY <2>9
    <3>3. NoneTwice(gs) /\ ~In(gs, e)
      OBVIOUS
    <3> HIDE DEF n
    <3> QED
      BY ONLY <2>7, <3>1, <3>2, <3>3, OneMore
  <2> QED
    BY <2>5, <2>10 DEF new
<1> QED
  BY <1>1, <1>2

\* The list seq has the entry x; it has none twice.
Listed(seq, x) == \E k \in 1..Len(seq) : seq[k] = x
AllDifferent(seq) == \A j, k \in 1..Len(seq) : seq[j] = seq[k] => j = k

\* groupAdjacentEntries puts every entry of a list without repetitions into one
\* place of one group, and nothing else.
LEMMA GroupFacts ==
  ASSUME NEW A, NEW off \in [A -> Nat], NEW size \in [A -> Nat], NEW seq \in Seq(A),
         AllDifferent(seq)
  PROVE  /\ GroupAdjacentEntries(seq, off, size) \in Seq(Group(A))
         /\ NoneTwice(GroupAdjacentEntries(seq, off, size))
         /\ \A x : In(GroupAdjacentEntries(seq, off, size), x) <=> Listed(seq, x)
<1> DEFINE n == Len(seq)
           gs == CHOOSE g : Turns(seq, off, size, DOMAIN seq, g)
<1>0. n \in Nat /\ DOMAIN seq = 1..n
  BY LenProperties
<1>1. Turns(seq, off, size, 1..n, gs) /\ GroupAdjacentEntries(seq, off, size) = gs[1..n]
  <2>0. \E g : Turns(seq, off, size, 1..n, g)
    <3> HIDE DEF n
    <3> QED
      BY ONLY <1>0, TurnsExist, Zenon
  <2>1. \E g : Turns(seq, off, size, DOMAIN seq, g)
    BY <1>0, <2>0
  <2>2. Turns(seq, off, size, DOMAIN seq, gs)
    BY <2>1
  <2>3. GroupAdjacentEntries(seq, off, size) = gs[DOMAIN seq]
    BY FoldUnfold
  <2> HIDE DEF gs, n
  <2> QED
    BY <1>0, <2>2, <2>3
<1> HIDE DEF gs, n
<1> DEFINE OK(m) == /\ gs[1..m] \in Seq(Group(A)) /\ NoneTwice(gs[1..m])
                    /\ \A x : In(gs[1..m], x) <=> \E k \in 1..m : seq[k] = x
           T == {m \in Nat : m <= n => OK(m)}
<1>2. 0 \in T
  <2>1. 1..0 = {} /\ 0 \in Nat /\ {} \in SUBSET (1..n)
    BY SMT
  <2>2. gs[{}] = Turn(seq, off, size, gs, {})
    BY <1>1, <2>1 DEF Turns
  <2>3. gs[1..0] = <<>>
    BY <2>1, <2>2 DEF Turn
  <2>4. \A a, k : ~Place(<<>>, a, k)
    BY SMT DEF Place
  <2>5. <<>> \in Seq(Group(A)) /\ NoneTwice(<<>>) /\ \A x : ~In(<<>>, x)
    <3>1. <<>> \in Seq(Group(A))
      BY EmptySeq
    <3> QED
      BY <2>4, <3>1 DEF NoneTwice, In
  <2>6. OK(0)
    BY <2>1, <2>3, <2>5
  <2> QED
    BY <2>1, <2>6
<1>3. ASSUME NEW m \in T PROVE m + 1 \in T
  <2>0. m \in Nat /\ m + 1 \in Nat
    BY SMT
  <2>1. CASE m + 1 <= n
    <3>1. /\ m <= n /\ m + 1 \in 1..n /\ 1..m + 1 = 1..m \cup {m + 1} /\ m + 1 \notin 1..m
          /\ 1..m + 1 \in SUBSET (1..n)
      BY <1>0, <2>0, <2>1, SMT
    <3>2. OK(m)
      BY <3>1
    <3>3. Max(1..m + 1) = m + 1
      <4>1. Max(1..m + 1) \in 1..m + 1 /\ \A y \in 1..m + 1 : Max(1..m + 1) >= y
        BY <1>0, <3>1, MaxFacts
      <4> QED
        BY <2>0, <4>1, SMT
    <3>4. (1..m + 1) \ {m + 1} = 1..m /\ 1..m + 1 # {}
      <4>0. m + 1 \notin 1..m
        BY <3>1
      <4>1. (1..m \cup {m + 1}) \ {m + 1} = 1..m
        BY ONLY <4>0, Zenon
      <4> QED
        BY <3>1, <4>1
    <3>5. gs[1..m + 1] = AddEntry(gs[1..m], seq[m + 1], off, size)
      <4>1. gs[1..m + 1] = Turn(seq, off, size, gs, 1..m + 1)
        BY <1>1, <3>1 DEF Turns
      <4> QED
        BY <3>3, <3>4, <4>1 DEF Turn
    <3>6. seq[m + 1] \in A /\ ~In(gs[1..m], seq[m + 1])
      <4>1. seq[m + 1] \in A
        BY <3>1, ElementOfSeq DEF n
      <4>2. \A k \in 1..m : seq[k] # seq[m + 1]
        BY <3>1 DEF n, AllDifferent
      <4> QED
        BY <3>2, <4>1, <4>2
    <3>7. /\ gs[1..m + 1] \in Seq(Group(A)) /\ NoneTwice(gs[1..m + 1])
          /\ \A x : In(gs[1..m + 1], x) <=> In(gs[1..m], x) \/ x = seq[m + 1]
      <4> DEFINE G == gs[1..m]
                 e == seq[m + 1]
      <4>1. G \in Seq(Group(A)) /\ NoneTwice(G) /\ e \in A /\ ~In(G, e)
        BY <3>2, <3>6
      <4> HIDE DEF G, e
      <4>2. /\ AddEntry(G, e, off, size) \in Seq(Group(A))
            /\ NoneTwice(AddEntry(G, e, off, size))
            /\ \A x : In(AddEntry(G, e, off, size), x) <=> In(G, x) \/ x = e
        BY ONLY off \in [A -> Nat], size \in [A -> Nat], <4>1, AddEntryFacts,
                Zenon
      <4> QED
        BY <3>5, <4>2 DEF G, e
    <3>8. OK(m + 1)
      BY <3>1, <3>2, <3>7
    <3> QED
      BY <2>0, <3>8
  <2> HIDE DEF OK
  <2> QED
    BY <2>0, <2>1
<1>4. T = Nat
  <2> HIDE DEF T
  <2> QED
    BY <1>2, <1>3, NatSet DEF T
<1>5. OK(n)
  <2>1. n <= n
    BY <1>0, SMT
  <2> HIDE DEF OK
  <2> QED
    BY <1>0, <1>4, <2>1
<1> QED
  BY <1>1, <1>5 DEF n, Listed

\* The entries of a set in increasing order.
Sorted(S, s) == /\ s \in [1..Cardinality(S) -> S]
                /\ \A j, k \in 1..Cardinality(S) : j < k => s[j] < s[k]

\* A finite set of entries can be put in order.
LEMMA SortedExists ==
  \A n \in Nat : \A S \in SUBSET (1..n) : \E s : Sorted(S, s)
<1> DEFINE T == {n \in Nat : \A S \in SUBSET (1..n) : \E s : Sorted(S, s)}
<1>1. 0 \in T
  <2>1. 1..0 = {} /\ 0 \in Nat
    BY SMT
  <2>2. Cardinality({}) = 0
    BY FS_EmptySet
  <2>3. Sorted({}, [j \in {} |-> j])
    BY <2>1, <2>2 DEF Sorted
  <2> QED
    BY <2>1, <2>3
<1>2. ASSUME NEW n \in T PROVE n + 1 \in T
  <2>0. n \in Nat /\ n + 1 \in Nat
    BY SMT
  <2>1. ASSUME NEW S \in SUBSET (1..n + 1) PROVE \E s : Sorted(S, s)
    <3>1. CASE n + 1 \notin S
      <4>1. S \in SUBSET (1..n)
        BY <2>0, <3>1, SMT
      <4> QED
        BY <4>1
    <3>2. CASE n + 1 \in S
      <4> DEFINE R == S \ {n + 1}
                 c == Cardinality(R)
      <4>1. R \in SUBSET (1..n) /\ R \subseteq S
        BY <2>0, SMT
      <4>2. PICK r : Sorted(R, r)
        BY <4>1
      <4>3. c \in Nat /\ Cardinality(S) = c + 1
        <5>1. IsFiniteSet(S)
          <6>1. IsFiniteSet(1..n + 1)
            BY <2>0, FS_Interval, SMT
          <6> QED
            BY <6>1, FS_Subset
        <5>2. IsFiniteSet(R) /\ Cardinality(R) = Cardinality(S) - 1 /\ Cardinality(S) \in Nat
          BY <3>2, <5>1, FS_RemoveElement, FS_CardinalityType
        <5>3. Cardinality(R) \in Nat
          BY <5>2, FS_CardinalityType
        <5> QED
          BY <5>2, <5>3, SMT
      <4> DEFINE s == [k \in 1..c + 1 |-> IF k = c + 1 THEN n + 1 ELSE r[k]]
      <4> HIDE DEF c
      <4>4. \A k \in 1..c + 1 : k # c + 1 => k \in 1..c
        BY <4>3, SMT
      <4>5. r \in [1..c -> R] /\ \A j, k \in 1..c : j < k => r[j] < r[k]
        BY <4>2 DEF Sorted, c
      <4>6. s \in [1..c + 1 -> S]
        BY <3>2, <4>1, <4>4, <4>5
      <4>7. ASSUME NEW j \in 1..c + 1, NEW k \in 1..c + 1, j < k PROVE s[j] < s[k]
        <5>1. j \in 1..c /\ s[j] = r[j]
          <6>1. j # c + 1
            BY <4>3, <4>7, SMT
          <6> QED
            BY <4>4, <6>1
        <5>2. CASE k = c + 1
          <6>1. s[k] = n + 1 /\ r[j] \in 1..n
            BY <4>1, <4>5, <5>1, <5>2
          <6> HIDE DEF s
          <6> QED
            BY <2>0, <5>1, <6>1, SMT
        <5>3. CASE k # c + 1
          BY <4>4, <4>5, <4>7, <5>1, <5>3
        <5> QED
          BY <5>2, <5>3
      <4> HIDE DEF s
      <4>8. Sorted(S, s)
        BY <4>3, <4>6, <4>7 DEF Sorted
      <4> QED
        BY <4>8
    <3> QED
      BY <3>1, <3>2
  <2> QED
    BY <2>0, <2>1
<1>3. T = Nat
  <2> HIDE DEF T
  <2> QED
    BY <1>1, <1>2, NatSet DEF T
<1> QED
  BY <1>3

\* An interval from 1 has one length.
LEMMA SameInterval ==
  ASSUME NEW a \in Nat, NEW b \in Nat, 1..a = 1..b
  PROVE  a = b
<1>1. ~(a > b) 
  <2>1. a > b => a \in 1..a /\ a \notin 1..b
    BY SMT
  <2> QED
    BY <2>1
<1>2. ~(b > a)
  <2>1. b > a => b \in 1..b /\ b \notin 1..a
    BY SMT
  <2> QED
    BY <2>1
<1> QED
  BY <1>1, <1>2, SMT

\* The sort returns every entry once.
LEMMA SortFacts ==
  ASSUME NEW S \in SUBSET Archive
  PROVE  /\ SortByOffset(S) \in Seq(Archive)
         /\ AllDifferent(SortByOffset(S))
         /\ \A x : x \in S <=> Listed(SortByOffset(S), x)
<1> DEFINE c == Cardinality(S)
           s == SortByOffset(S)
<1>0. IsFiniteSet(S) /\ c \in Nat
  <2>1. Entries \in Nat /\ 1 \in Int /\ Entries \in Int
    BY ExtractionAssumption, SMT
  <2>2. IsFiniteSet(1..Entries)
    BY <2>1, FS_Interval
  <2> QED
    BY <2>2, FS_Subset, FS_CardinalityType DEF Archive
<1>1. s \in [1..c -> S] /\ \A j, k \in 1..c : j < k => s[j] < s[k]
  <2>1. \E r : Sorted(S, r)
    BY SortedExists, ExtractionAssumption DEF Archive
  <2>2. \E r \in [1..c -> S] : \A j, k \in DOMAIN r : j < k => r[j] < r[k]
    BY <2>1 DEF Sorted
  <2>3. s \in [1..c -> S] /\ \A j, k \in DOMAIN s : j < k => s[j] < s[k]
    BY <2>2 DEF SortByOffset
  <2> HIDE DEF s, c
  <2> QED
    BY <2>3
<1> HIDE DEF s, c
<1>2. s \in Seq(Archive) /\ Len(s) = c
  <2>1. s \in [1..c -> Archive]
    BY <1>1
  <2>2. s \in Seq(Archive)
    BY <1>0, <2>1, SeqDef
  <2>3. Len(s) \in Nat /\ 1..Len(s) = 1..c
    BY <2>1, <2>2, LenProperties
  <2>4. Len(s) = c
    BY <1>0, <2>3, SameInterval
  <2> QED
    BY <2>2, <2>4
<1>3. ASSUME NEW j \in 1..c, NEW k \in 1..c, s[j] = s[k] PROVE j = k
  <2>1. s[j] \in Nat /\ s[k] \in Nat
    <3>1. s[j] \in 1..Entries /\ s[k] \in 1..Entries
      BY <1>1 DEF Archive
    <3> QED
      BY <3>1, SMT
  <2> QED
    BY <1>0, <1>1, <1>3, <2>1, SMT
<1>4. s \in Surjection(1..c, S)
  <2>1. s \in Injection(1..c, S)
    BY <1>1, <1>3 DEF Injection, IsInjective
  <2>2. Cardinality(1..c) = c
    BY <1>0, FS_Interval, SMT
  <2>3. Cardinality(1..c) = Cardinality(S) <=> s \in Surjection(1..c, S)
    BY ONLY <1>0, <2>1, FS_Injection, Zenon
  <2> QED
    BY <2>2, <2>3 DEF c
<1>5. \A x : x \in S <=> \E k \in 1..c : s[k] = x
  BY <1>1, <1>4 DEF Surjection
<1> QED
  BY <1>2, <1>3, <1>5 DEF s, AllDifferent, Listed

\* What Process makes of the entries that it is to copy: groups that have each of
\* them in one place, and nothing else.
LEMMA PlanFacts ==
  ASSUME NEW S \in SUBSET Archive
  PROVE  LET gs == GroupAdjacentEntries(SortByOffset(S), Offset, Size)
         IN  /\ gs \in Seq(Group(Archive)) /\ NoneTwice(gs)
             /\ \A x : In(gs, x) <=> x \in S
<1> DEFINE s == SortByOffset(S)
<1>1. s \in Seq(Archive) /\ AllDifferent(s) /\ \A x : x \in S <=> Listed(s, x)
  BY SortFacts
<1>2. Offset \in [Archive -> Nat] /\ Size \in [Archive -> Nat]
  BY ExtractionAssumption
<1> HIDE DEF s
<1>3. /\ GroupAdjacentEntries(s, Offset, Size) \in Seq(Group(Archive))
      /\ NoneTwice(GroupAdjacentEntries(s, Offset, Size))
      /\ \A x : In(GroupAdjacentEntries(s, Offset, Size), x) <=> Listed(s, x)
  BY ONLY <1>1, <1>2, GroupFacts, Zenon
<1> QED
  BY <1>1, <1>3 DEF s

-----------------------------------------------------------------------------
(* How the workers share the entries of a group *)

\* Place k of a group is one that worker w takes: w, w + Workers, ...
Owns(w, k) == \E n \in Nat : k = w + n * Workers

\* The places of a worker are at least Workers apart.
LEMMA Apart ==
  ASSUME NEW a \in Nat, NEW b \in Nat, a < b, NEW m \in Nat
  PROVE  a * m + m <= b * m /\ a * m \in Nat /\ b * m \in Nat
<1> DEFINE d == b - (a + 1)
<1>1. d \in Nat /\ b = (a + 1) + d
  BY SMT
<1> HIDE DEF d
<1>2. d * m \in Nat /\ a * m \in Nat /\ b * m \in Nat
  BY <1>1, SMT
<1>3. ((a + 1) + d) * m = (a * m + m) + d * m
  BY <1>1, SMT
<1>4. b * m = (a * m + m) + d * m
  BY <1>1, <1>3
<1> QED
  BY <1>2, <1>4, SMT

\* A worker begins with the place of its own number.
LEMMA OwnsFirst ==
  ASSUME NEW w \in Pool
  PROVE  Owns(w, w) /\ w \in Nat \ {0} /\ \A k : Owns(w, k) => k \in Nat \ {0} /\ k >= w
<1>1. w \in Nat \ {0} /\ Workers \in Nat
  BY ExtractionAssumption, SMT DEF Pool
<1>2. 0 \in Nat /\ w = w + 0 * Workers
  BY <1>1, SMT
<1>3. ASSUME NEW k, Owns(w, k) PROVE k \in Nat \ {0} /\ k >= w
  <2>1. PICK n \in Nat : k = w + n * Workers
    BY <1>3 DEF Owns
  <2>2. n * Workers \in Nat
    BY <1>1, SMT
  <2> QED
    BY <1>1, <2>1, <2>2, SMT
<1> QED
  BY <1>1, <1>2, <1>3 DEF Owns

\* After place k the next of its places is k + Workers.
LEMMA OwnsNext ==
  ASSUME NEW w \in Pool, NEW k, Owns(w, k)
  PROVE  /\ Owns(w, k + Workers)
         /\ \A m : Owns(w, m) => (m < k + Workers <=> m < k \/ m = k)
<1>0. w \in Nat /\ Workers \in Nat \ {0}
  BY ExtractionAssumption, SMT DEF Pool
<1>1. PICK n \in Nat : k = w + n * Workers
  BY DEF Owns
<1>2. n + 1 \in Nat /\ n * Workers \in Nat /\ (n + 1) * Workers = n * Workers + Workers
  BY <1>0, SMT
<1>3. k + Workers = w + (n + 1) * Workers
  BY <1>0, <1>1, <1>2, SMT
<1>4. ASSUME NEW m, Owns(w, m) PROVE m < k + Workers <=> m < k \/ m = k
  <2>1. PICK o \in Nat : m = w + o * Workers
    BY <1>4 DEF Owns
  <2>2. o * Workers \in Nat
    BY <1>0, SMT
  <2>3. CASE o < n
    <3>1. o * Workers + Workers <= n * Workers
      BY <1>0, <2>3, Apart
    <3> QED
      BY <1>0, <1>1, <1>2, <2>1, <2>2, <3>1, SMT
  <2>4. CASE o = n
    BY <1>0, <1>1, <1>2, <2>1, <2>4, SMT
  <2>5. CASE n < o
    <3>1. n * Workers + Workers <= o * Workers
      BY <1>0, <2>5, Apart
    <3> QED
      BY <1>0, <1>1, <1>2, <2>1, <2>2, <3>1, SMT
  <2>6. o < n \/ o = n \/ n < o
    BY SMT
  <2> QED
    BY <2>3, <2>4, <2>5, <2>6
<1> QED
  BY <1>2, <1>3, <1>4 DEF Owns

\* No place is taken by two workers.
LEMMA OwnsOnce ==
  ASSUME NEW v \in Pool, NEW w \in Pool, NEW k, Owns(v, k), Owns(w, k)
  PROVE  v = w
<1>0. Workers \in Nat \ {0} /\ v \in 1..Workers /\ w \in 1..Workers
  BY ExtractionAssumption DEF Pool
<1>1. PICK n \in Nat : k = v + n * Workers
  BY DEF Owns
<1>2. PICK o \in Nat : k = w + o * Workers
  BY DEF Owns
<1>3. n * Workers \in Nat /\ o * Workers \in Nat
  BY <1>0, SMT
<1>4. ~(n < o)
  <2>1. n < o => n * Workers + Workers <= o * Workers
    BY <1>0, Apart
  <2> QED
    BY <1>0, <1>1, <1>2, <1>3, <2>1, SMT
<1>5. ~(o < n)
  <2>1. o < n => o * Workers + Workers <= n * Workers
    BY <1>0, Apart
  <2> QED
    BY <1>0, <1>1, <1>2, <1>3, <2>1, SMT
<1>6. n = o
  BY <1>4, <1>5, SMT
<1>7. v + n * Workers = w + n * Workers
  BY <1>1, <1>2, <1>6
<1> QED
  BY <1>0, <1>3, <1>7, SMT

\* Every place is taken by a worker.
LEMMA OwnsAll ==
  ASSUME NEW k \in Nat \ {0}
  PROVE  \E w \in Pool : Owns(w, k)
<1> DEFINE T == {n \in Nat : \E w \in Pool : Owns(w, n + 1)}
<1>0. Workers \in Nat \ {0}
  BY ExtractionAssumption
<1>1. 0 \in T
  <2>1. 1 \in Pool /\ 0 \in Nat /\ 0 + 1 = 1
    BY <1>0, SMT DEF Pool
  <2>2. Owns(1, 0 + 1)
    BY <2>1, OwnsFirst
  <2> QED
    BY <2>1, <2>2
<1>2. ASSUME NEW n \in T PROVE n + 1 \in T
  <2>0. n \in Nat /\ n + 1 \in Nat
    BY SMT
  <2>1. PICK w \in Pool : Owns(w, n + 1)
    OBVIOUS
  <2>2. PICK o \in Nat : n + 1 = w + o * Workers
    BY <2>1 DEF Owns
  <2>3. o * Workers \in Nat /\ w \in 1..Workers
    BY <1>0, SMT DEF Pool
  <2>4. CASE w < Workers
    <3>1. w + 1 \in Pool /\ (n + 1) + 1 = (w + 1) + o * Workers
      BY <1>0, <2>0, <2>2, <2>3, <2>4, SMT DEF Pool
    <3>2. Owns(w + 1, (n + 1) + 1)
      BY <3>1 DEF Owns
    <3> QED
      BY <2>0, <3>1, <3>2
  <2>5. CASE w = Workers
    <3>1. o + 1 \in Nat /\ (o + 1) * Workers = o * Workers + Workers
      BY <1>0, SMT
    <3>2. 1 \in Pool /\ (n + 1) + 1 = 1 + (o + 1) * Workers
      BY <1>0, <2>0, <2>2, <2>3, <2>5, <3>1, SMT DEF Pool
    <3>3. Owns(1, (n + 1) + 1)
      BY <3>1, <3>2 DEF Owns
    <3> QED
      BY <2>0, <3>2, <3>3
  <2>6. w < Workers \/ w = Workers
    BY <1>0, <2>3, SMT
  <2> QED
    BY <2>4, <2>5, <2>6
<1>3. T = Nat
  <2> HIDE DEF T
  <2> QED
    BY <1>1, <1>2, NatSet DEF T
<1>4. k - 1 \in Nat /\ (k - 1) + 1 = k
  BY SMT
<1>5. k - 1 \in T
  BY <1>3, <1>4
<1>6. \E w \in Pool : Owns(w, (k - 1) + 1)
  BY <1>5
<1> QED
  BY <1>4, <1>6

-----------------------------------------------------------------------------
(* The plan and the turns of the workers *)

\* The phases of CopyFile.
Alone == {"stat", "open", "create", "copy", "replace", "rename", "undo"}

\* The entries of the group that is being processed.
Cur == groups[1].entries

\* The groups have no entry twice, and one of them is being processed.
PlanOK ==
    /\ groups \in Seq(Group(Archive))
    /\ NoneTwice(groups)
    /\ phase \in {"read", "workers"} => groups # <<>>
    /\ phase \in {"clean", "start", "read", "workers"} => ~Single

\* What the steps of a worker leave alone.
LEMMA WorkerFrame ==
  ASSUME NEW w \in Pool, Worker(w)
  PROVE  phase = "workers" /\ phase' = phase /\ groups' = groups /\ stats' = stats
<1> USE DEF At
<1>1. CASE Loop(w)
  BY <1>1 DEF Loop
<1>2. CASE Writer(w)
  BY <1>2 DEF Writer
<1>3. CASE WriterFails(w)
  BY <1>3 DEF WriterFails
<1>4. CASE Write(w)
  BY <1>4 DEF Write
<1>5. CASE WriteFails(w)
  BY <1>5 DEF WriteFails
<1>6. CASE Discard(w)
  BY <1>6 DEF Discard
<1>7. CASE Commit(w)
  BY <1>7 DEF Commit
<1>8. CASE CommitFails(w)
  BY <1>8 DEF CommitFails
<1>9. CASE Count(w)
  BY <1>9 DEF Count
<1>10. CASE Fail(w)
  BY <1>10 DEF Fail
<1>11. CASE Send(w)
  BY <1>11 DEF Send
<1> QED
  BY <1>1, <1>2, <1>3, <1>4, <1>5, <1>6, <1>7, <1>8, <1>9, <1>10, <1>11 DEF Worker

\* What the steps of CopyFile leave alone.
LEMMA CopyFileFrame ==
  ASSUME CopyFile
  PROVE  /\ phase \in Alone /\ phase' \in Alone \cup {"nil", "err"}
         /\ groups' = groups /\ UNCHANGED group
<1> USE DEF Alone
<1>1. CASE StatDest
  BY <1>1 DEF StatDest
<1>2. CASE OpenSource
  BY <1>2 DEF OpenSource
<1>3. CASE CreateTemp
  BY <1>3 DEF CreateTemp
<1>4. CASE CopyContent
  BY <1>4 DEF CopyContent
<1>5. CASE RemoveDest
  BY <1>5 DEF RemoveDest
<1>6. CASE Rename
  BY <1>6 DEF Rename
<1>7. CASE CopyFileFails
  BY <1>7 DEF CopyFileFails
<1>8. CASE Undo
  BY <1>8 DEF Undo
<1> QED
  BY <1>1, <1>2, <1>3, <1>4, <1>5, <1>6, <1>7, <1>8 DEF CopyFile

\* The groups after the first one have the entries that the first one does not.
LEMMA TailFacts ==
  ASSUME NEW A, NEW gs \in Seq(Group(A)), NoneTwice(gs), gs # <<>>
  PROVE  /\ Head(gs) = gs[1] /\ gs[1].entries \in Seq(A) /\ AllDifferent(gs[1].entries)
         /\ Tail(gs) \in Seq(Group(A)) /\ NoneTwice(Tail(gs))
         /\ \A e : In(gs, e) <=> In(Tail(gs), e) \/ Listed(gs[1].entries, e)
         /\ \A e : In(Tail(gs), e) => ~Listed(gs[1].entries, e)
<1> DEFINE n == Len(gs)
           t == Tail(gs)
<1>0. n \in Nat \ {0} /\ 1 \in 1..n /\ Head(gs) = gs[1]
  BY SMT
<1>1. gs[1] \in Group(A)
  BY <1>0, ElementOfSeq
<1>2. gs[1].entries \in Seq(A)
  BY <1>1 DEF Group
<1>3. /\ t \in Seq(Group(A)) /\ Len(t) = n - 1
      /\ \A a \in 1..n - 1 : t[a] = gs[a + 1]
  BY HeadTailProperties
<1>4. /\ \A a \in 1..n - 1 : a + 1 \in 1..n /\ a + 1 # 1
      /\ \A a \in 1..n : a # 1 => a - 1 \in 1..n - 1 /\ (a - 1) + 1 = a
      /\ \A a, b \in 1..n - 1 : a + 1 = b + 1 => a = b
  BY <1>0, SMT
<1> HIDE DEF n, t
<1>5. /\ \A a, k : Place(t, a, k) => a \in 1..n - 1 /\ Place(gs, a + 1, k) /\ t[a] = gs[a + 1]
      /\ \A a, k : Place(gs, a, k) /\ a # 1 => Place(t, a - 1, k) /\ t[a - 1] = gs[a]
      /\ \A k : Place(gs, 1, k) <=> k \in 1..Len(gs[1].entries)
  <2>1. ASSUME NEW a, NEW k, Place(t, a, k)
        PROVE  a \in 1..n - 1 /\ Place(gs, a + 1, k) /\ t[a] = gs[a + 1]
    BY <1>3, <1>4, <2>1 DEF Place, n
  <2>2. ASSUME NEW a, NEW k, Place(gs, a, k), a # 1
        PROVE  Place(t, a - 1, k) /\ t[a - 1] = gs[a]
    BY <1>3, <1>4, <2>2 DEF Place, n
  <2> QED
    BY <1>0, <2>1, <2>2 DEF Place, n
<1>6. AllDifferent(gs[1].entries)
  <2>1. ASSUME NEW j \in 1..Len(gs[1].entries), NEW k \in 1..Len(gs[1].entries),
               gs[1].entries[j] = gs[1].entries[k]
        PROVE  j = k
    <3>1. Place(gs, 1, j) /\ Place(gs, 1, k)
      BY <1>5
    <3> QED
      BY <2>1, <3>1 DEF NoneTwice
  <2> QED
    BY <2>1 DEF AllDifferent
<1>7. NoneTwice(t)
  <2>1. ASSUME NEW a, NEW b, NEW j, NEW k, Place(t, a, j), Place(t, b, k),
               t[a].entries[j] = t[b].entries[k]
        PROVE  a = b /\ j = k
    <3>1. /\ a \in 1..n - 1 /\ Place(gs, a + 1, j) /\ b \in 1..n - 1 /\ Place(gs, b + 1, k)
          /\ gs[a + 1].entries[j] = gs[b + 1].entries[k]
      BY <1>5, <2>1
    <3>2. a + 1 = b + 1 /\ j = k
      BY <3>1 DEF NoneTwice
    <3> QED
      BY <1>4, <3>1, <3>2
  <2> QED
    BY <2>1 DEF NoneTwice
<1>8. ASSUME NEW e, In(t, e) PROVE In(gs, e) /\ ~Listed(gs[1].entries, e)
  <2>1. PICK a, k : Place(t, a, k) /\ t[a].entries[k] = e
    BY <1>8 DEF In
  <2>2. Place(gs, a + 1, k) /\ gs[a + 1].entries[k] = e /\ a + 1 # 1
    BY <1>4, <1>5, <2>1
  <2>3. \A j : Place(gs, 1, j) => gs[1].entries[j] # e
    BY <2>2 DEF NoneTwice
  <2> QED
    BY <1>5, <2>2, <2>3 DEF In, Listed
<1>9. ASSUME NEW e, In(gs, e), ~Listed(gs[1].entries, e) PROVE In(t, e)
  <2>1. PICK a, k : Place(gs, a, k) /\ gs[a].entries[k] = e
    BY <1>9 DEF In
  <2>2. a # 1
    BY <1>5, <1>9, <2>1 DEF Listed
  <2>3. Place(t, a - 1, k) /\ t[a - 1].entries[k] = e
    BY <1>5, <2>1, <2>2
  <2> QED
    BY <2>3 DEF In
<1>10. ASSUME NEW e, Listed(gs[1].entries, e) PROVE In(gs, e)
  BY <1>5, <1>10 DEF In, Listed
<1> QED
  BY <1>0, <1>2, <1>3, <1>6, <1>7, <1>8, <1>9, <1>10 DEF t

\* Before the copy there is no plan.
LEMMA InitPlan == Init => PlanOK
<1> SUFFICES ASSUME Init PROVE PlanOK
  OBVIOUS
<1>1. groups = <<>> /\ phase = IF Single THEN "stat" ELSE IF CleanDest THEN "clean" ELSE "start"
  BY DEF Init
<1>2. <<>> \in Seq(Group(Archive)) /\ NoneTwice(<<>>)
  <2>1. \A a, k : ~Place(<<>>, a, k)
    BY SMT DEF Place
  <2> QED
    BY <2>1, EmptySeq DEF NoneTwice
<1>3. CASE Single
  BY <1>1, <1>2, <1>3 DEF PlanOK
<1>4. CASE ~Single
  BY <1>1, <1>2, <1>4 DEF PlanOK
<1> QED
  BY <1>3, <1>4

\* The requested entries that are to be copied, and what Process makes of them.
ToProcess == {e \in Requested : ShouldProcess(e)}
LEMMA ProcessPlan ==
  ASSUME conf \in Configs, Process
  PROVE  \/ ToProcess = {} /\ phase' = "nil" /\ groups' = groups
         \/ phase' = "err" /\ groups' = groups
         \/ /\ phase' = "read" /\ groups' # <<>>
            /\ groups' \in Seq(Group(Archive)) /\ NoneTwice(groups')
            /\ \A x : In(groups', x) <=> x \in ToProcess
<1>1. ToProcess \in SUBSET Archive
  BY ExtractionAssumption DEF ToProcess, Requested
<1>2. CASE ToProcess = {}
  BY <1>2 DEF Process, ToProcess
<1>3. CASE ToProcess # {} /\ phase' = "err"
  BY <1>3 DEF Process, ToProcess
<1>4. CASE ToProcess # {} /\ phase' # "err"
  <2>1. phase' = "read" /\ groups' = GroupAdjacentEntries(SortByOffset(ToProcess), Offset, Size)
    BY <1>4 DEF Process, ToProcess
  <2>2. /\ groups' \in Seq(Group(Archive)) /\ NoneTwice(groups')
        /\ \A x : In(groups', x) <=> x \in ToProcess
    <3> HIDE DEF ToProcess
    <3> QED
      BY <1>1, <2>1, PlanFacts
  <2>3. groups' # <<>>
    <3>1. \A x : ~In(<<>>, x)
      <4>1. \A a, k : ~Place(<<>>, a, k)
        BY SMT DEF Place
      <4> QED
        BY <4>1 DEF In
    <3> QED
      BY <1>4, <2>2, <3>1
  <2> QED
    BY <2>1, <2>2, <2>3
<1> QED
  BY <1>2, <1>3, <1>4

\* No step puts an entry into the plan twice.
LEMMA PlanStep == conf \in Configs /\ PlanOK /\ [Next]_vars => PlanOK' /\ conf' = conf
<1> SUFFICES ASSUME conf \in Configs, PlanOK, [Next]_vars PROVE PlanOK' /\ conf' = conf
  OBVIOUS
<1>0. conf' = conf /\ Single' = Single
  BY DEF Next, vars, Single
<1>1. CASE groups' = groups /\ phase' = phase
  BY <1>0, <1>1 DEF PlanOK
<1>2. CASE Clean
  BY <1>0, <1>2 DEF PlanOK, Clean
<1>3. CASE Process
  <2>1. ~Single
    BY <1>3 DEF PlanOK, Process
  <2>2. CASE phase' \in {"nil", "err"} /\ groups' = groups
    BY <1>0, <2>2 DEF PlanOK
  <2>3. CASE phase' = "read" /\ groups' # <<>> /\ groups' \in Seq(Group(Archive)) /\ NoneTwice(groups')
    BY <1>0, <2>1, <2>3 DEF PlanOK
  <2> QED
    BY <1>3, <2>2, <2>3, ProcessPlan
<1>4. CASE ReadGroup
  BY <1>0, <1>4 DEF PlanOK, ReadGroup
<1>5. CASE ReadGroupFails
  BY <1>0, <1>5 DEF PlanOK, ReadGroupFails
<1>6. CASE GroupReturns
  <2>1. Tail(groups) \in Seq(Group(Archive)) /\ NoneTwice(Tail(groups))
    BY <1>6, TailFacts DEF PlanOK, GroupReturns
  <2> QED
    BY <1>0, <1>6, <2>1 DEF PlanOK, GroupReturns
<1>7. CASE CopyFile
  BY <1>0, <1>7, CopyFileFrame DEF PlanOK, Alone
<1>8. ASSUME NEW w \in Pool, Worker(w) PROVE PlanOK'
  BY <1>1, <1>8, WorkerFrame
<1>9. CASE UNCHANGED vars
  BY <1>1, <1>9 DEF vars
<1>10. CASE Returned /\ UNCHANGED <<files, phase, groups, group, stats>>
  BY <1>1, <1>10
<1> QED
  BY <1>0, <1>2, <1>3, <1>4, <1>5, <1>6, <1>7, <1>8, <1>9, <1>10 DEF Next, Main

\* The labels of a worker that is in the body of its loop.
InEntry == {"writer", "write", "commit", "discard", "count", "fail", "send"}

\* A worker is at a place of its own, one that exists while it is in the body of
\* the loop; a worker that ends without the stop flag has passed the last place;
\* the stop flag comes with an error.
TurnsOK ==
    /\ i \in [Pool -> Nat]
    /\ phase = "workers" =>
         /\ \A w \in Pool : Owns(w, i[w])
         /\ \A w \in Pool : pc[w] \in InEntry => i[w] \in 1..Len(Cur)
         /\ ~stop => \A w \in Pool : pc[w] # "send" /\ (pc[w] = "done" => i[w] > Len(Cur))
         /\ errCh \in Nat
         /\ stop => errCh > 0 \/ \E w \in Pool : pc[w] = "send"

\* A worker's step that leaves its place alone.
LEMMA SamePlace ==
  ASSUME TurnsOK, ShapeOK, PlanOK, phase = "workers", NEW w \in Pool, NEW label,
         pc' = [pc EXCEPT ![w] = label],
         phase' = phase, groups' = groups, i' = i, stop' = stop, errCh' = errCh,
         pc[w] # "send", label # "send",
         label \in InEntry => i[w] \in 1..Len(Cur),
         label = "done" => stop \/ i[w] > Len(Cur)
  PROVE  TurnsOK'
<1>1. Cur' = Cur
  BY DEF Cur
<1>2. pc'[w] = label /\ \A v \in Pool : v # w => pc'[v] = pc[v]
  BY DEF ShapeOK
<1>3. \A v \in Pool : pc'[v] \in InEntry => i[v] \in 1..Len(Cur)
  BY <1>2 DEF TurnsOK
<1>4. ~stop => \A v \in Pool : pc'[v] # "send" /\ (pc'[v] = "done" => i[v] > Len(Cur))
  BY <1>2 DEF TurnsOK
<1>5. stop => errCh > 0 \/ \E v \in Pool : pc'[v] = "send"
  BY <1>2 DEF TurnsOK
<1> QED
  BY <1>1, <1>3, <1>4, <1>5 DEF TurnsOK

\* The loop variables and the stop flag stay in order.
LEMMA TurnsStep == IInv /\ PlanOK /\ TurnsOK /\ [Next]_vars => TurnsOK'
<1> SUFFICES ASSUME IInv, PlanOK, TurnsOK, [Next]_vars PROVE TurnsOK'
  OBVIOUS
<1>0. ShapeOK /\ i \in [Pool -> Nat]
  BY DEF IInv, TurnsOK
<1>1. CASE i' = i /\ phase' # "workers"
  BY <1>1 DEF TurnsOK
<1>2. CASE UNCHANGED <<phase, groups, group>>
  BY <1>2 DEF TurnsOK, Cur, group
<1>3. CASE Clean \/ Process \/ ReadGroupFails \/ GroupReturns
  BY <1>1, <1>3 DEF Clean, Process, ReadGroupFails, GroupReturns, group
<1>4. CASE ReadGroup
  <2>1. /\ phase' = "workers" /\ pc' = [w \in Pool |-> "loop"] /\ i' = [w \in Pool |-> w]
        /\ stop' = FALSE /\ errCh' = 0
    BY <1>4 DEF ReadGroup
  <2>2. \A w \in Pool : i'[w] = w /\ pc'[w] = "loop" /\ Owns(w, w) /\ w \in Nat
    BY <2>1, OwnsFirst
  <2>3. 0 \in Nat /\ "loop" \notin InEntry
    BY SMT DEF InEntry
  <2> QED
    BY <2>1, <2>2, <2>3 DEF TurnsOK
<1>5. CASE CopyFile
  BY <1>1, <1>5, CopyFileFrame DEF Alone, group
<1>6. ASSUME NEW w \in Pool, Worker(w) PROVE TurnsOK'
  <2>1. phase = "workers" /\ phase' = phase /\ groups' = groups
    BY <1>6, WorkerFrame
  <2>2. Cur' = Cur /\ groups # <<>> /\ Head(groups).entries = Cur /\ Len(Cur) \in Nat
    <3>1. Cur' = Cur /\ groups # <<>>
      BY <2>1 DEF Cur, PlanOK
    <3>2. groups \in Seq(Group(Archive)) /\ NoneTwice(groups)
      BY DEF PlanOK
    <3>3. Head(groups) = groups[1] /\ groups[1].entries \in Seq(Archive)
      BY <3>1, <3>2, TailFacts
    <3> QED
      BY <3>1, <3>3, LenProperties DEF Cur
  <2>3. /\ \A v \in Pool : Owns(v, i[v]) /\ i[v] \in Nat \ {0}
        /\ pc[w] \in InEntry => i[w] \in 1..Len(Cur)
    BY <2>1, OwnsFirst DEF TurnsOK
  <2>4. CASE Loop(w)
    <3> DEFINE label == IF i[w] > Len(Cur) \/ stop THEN "done" ELSE "writer"
    <3>1. /\ pc[w] = "loop" /\ pc' = [pc EXCEPT ![w] = label]
          /\ i' = i /\ stop' = stop /\ errCh' = errCh
      BY <2>2, <2>4 DEF Loop, At, Goto
    <3>2. i[w] \in 1..Len(Cur) \/ i[w] > Len(Cur)
      BY <2>2, <2>3, SMT
    <3>3. label \in InEntry => i[w] \in 1..Len(Cur)
      BY <3>2 DEF InEntry
    <3>4. label # "send" /\ (label = "done" => stop \/ i[w] > Len(Cur))
      OBVIOUS
    <3> HIDE DEF label
    <3> QED
      BY <1>0, <2>1, <3>1, <3>3, <3>4, SamePlace
  <2>5. ASSUME NEW from \in InEntry, NEW label \in InEntry, from # "send", label # "send",
               pc[w] = from,
               Goto(w, label), i' = i, stop' = stop, errCh' = errCh
        PROVE  TurnsOK'
    <3>1. label # "done"
      BY DEF InEntry
    <3> QED
      BY <1>0, <2>1, <2>3, <2>5, <3>1, SamePlace DEF Goto
  <2>6. CASE Writer(w)
    BY <2>5, <2>6 DEF Writer, At, InEntry
  <2>7. CASE WriterFails(w)
    BY <2>5, <2>7 DEF WriterFails, At, InEntry
  <2>8. CASE Write(w)
    BY <2>5, <2>8 DEF Write, At, InEntry
  <2>9. CASE WriteFails(w)
    BY <2>5, <2>9 DEF WriteFails, At, InEntry
  <2>10. CASE Discard(w)
    BY <2>5, <2>10 DEF Discard, At, InEntry
  <2>11. CASE Commit(w)
    BY <2>5, <2>11 DEF Commit, At, InEntry
  <2>12. CASE CommitFails(w)
    BY <2>5, <2>12 DEF CommitFails, At, InEntry
  <2>13. CASE Count(w)
    <3>1. /\ pc[w] = "count" /\ pc' = [pc EXCEPT ![w] = "loop"]
          /\ i' = [i EXCEPT ![w] = i[w] + Workers] /\ stop' = stop /\ errCh' = errCh
      BY <2>13 DEF Count, At, Goto, Stride
    <3>2. /\ pc'[w] = "loop" /\ i'[w] = i[w] + Workers
          /\ \A v \in Pool : v # w => pc'[v] = pc[v] /\ i'[v] = i[v]
      BY <1>0, <3>1 DEF ShapeOK
    <3>3. Owns(w, i[w] + Workers) /\ i[w] + Workers \in Nat
      BY <2>3, OwnsNext, OwnsFirst
    <3>4. i' \in [Pool -> Nat]
      BY <1>0, <3>1, <3>3
    <3>5. \A v \in Pool : Owns(v, i'[v])
      BY <2>3, <3>2, <3>3
    <3>6. "loop" \notin InEntry
      BY DEF InEntry
    <3>7. \A v \in Pool : pc'[v] \in InEntry => i'[v] \in 1..Len(Cur)
      BY <2>1, <3>2, <3>6 DEF TurnsOK
    <3>8. ~stop => \A v \in Pool : pc'[v] # "send" /\ (pc'[v] = "done" => i'[v] > Len(Cur))
      BY <2>1, <3>2 DEF TurnsOK
    <3>9. stop => errCh > 0 \/ \E v \in Pool : pc'[v] = "send"
      BY <2>1, <3>1, <3>2 DEF TurnsOK
    <3>10. errCh \in Nat
      BY <2>1 DEF TurnsOK
    <3> QED
      BY <2>2, <3>1, <3>4, <3>5, <3>7, <3>8, <3>9, <3>10 DEF TurnsOK
  <2>14. CASE Fail(w)
    <3>1. /\ pc[w] = "fail" /\ pc' = [pc EXCEPT ![w] = IF ~stop THEN "send" ELSE "done"]
          /\ i' = i /\ stop' = TRUE /\ errCh' = errCh
      BY <2>14 DEF Fail, At, Goto, FirstToFail
    <3>2. /\ pc'[w] = IF ~stop THEN "send" ELSE "done"
          /\ \A v \in Pool : v # w => pc'[v] = pc[v]
      BY <1>0, <3>1 DEF ShapeOK
    <3>3. i[w] \in 1..Len(Cur)
      BY <2>3, <3>1 DEF InEntry
    <3>4. \A v \in Pool : pc'[v] \in InEntry => i[v] \in 1..Len(Cur)
      BY <2>1, <3>2, <3>3 DEF TurnsOK
    <3>5. errCh > 0 \/ \E v \in Pool : pc'[v] = "send"
      BY <2>1, <3>1, <3>2 DEF TurnsOK
    <3>6. errCh \in Nat
      BY <2>1 DEF TurnsOK
    <3> QED
      BY <1>0, <2>2, <2>3, <3>1, <3>4, <3>5, <3>6 DEF TurnsOK
  <2>15. CASE Send(w)
    <3>1. /\ pc[w] = "send" /\ pc' = [pc EXCEPT ![w] = "done"]
          /\ i' = i /\ stop' = stop /\ errCh' = errCh + 1
      BY <2>15 DEF Send, At, Goto
    <3>2. pc'[w] = "done" /\ \A v \in Pool : v # w => pc'[v] = pc[v]
      BY <1>0, <3>1 DEF ShapeOK
    <3>3. \A v \in Pool : pc'[v] \in InEntry => i[v] \in 1..Len(Cur)
      BY <2>1, <3>2 DEF TurnsOK, InEntry
    <3>4. errCh + 1 \in Nat /\ errCh + 1 > 0
      <4>1. errCh \in Nat
        BY <2>1 DEF TurnsOK
      <4> QED
        BY <4>1, SMT
    <3>5. stop
      BY <2>1, <3>1 DEF TurnsOK
    <3> QED
      BY <1>0, <2>2, <2>3, <3>1, <3>3, <3>4, <3>5 DEF TurnsOK
  <2> QED
    BY <1>6, <2>4, <2>6, <2>7, <2>8, <2>9, <2>10, <2>11, <2>12, <2>13, <2>14, <2>15 DEF Worker
<1>7. CASE UNCHANGED vars
  BY <1>2, <1>7 DEF vars, group
<1>8. CASE Returned /\ UNCHANGED <<files, phase, groups, group, stats>>
  BY <1>2, <1>8
<1> QED
  BY <1>3, <1>4, <1>5, <1>6, <1>7, <1>8 DEF Next, Main
=============================================================================
